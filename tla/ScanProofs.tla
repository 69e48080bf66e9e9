----------------------------- MODULE ScanProofs -----------------------------
(***************************************************************************)
(* What a scan files, for any number of points, counts, cross sections,    *)
(* detectors, holds, lost transactions, control keys and runs.             *)
(***************************************************************************)
EXTENDS Scan, EventFlagsProofs, SequenceTheorems

Approach == {"drive", "yield", "driven"}
Waiting == {"settle", "holding", "held", "settled"}
Gathering == {"count", "scaler", "read", "counted", "hiber2", "judge", "dump"}
Places == {"idle", "rating", "head", "hiber", "point", "drive", "yield", "driven", "settle", "holding", "held", "settled",
           "begin", "count", "scaler", "read", "counted", "hiber2", "judge", "dump", "next"}

Reading == [id : Nat, pt : Int, sec : Int, whole : BOOLEAN]
Entry == [pt : Int, counts : Seq(Reading), spoilt : BOOLEAN, astray : BOOLEAN]

Locals ==
  [at : Places, loop : Nat, prf : Nat, sec : 1..Sections, acc : Seq(Reading), counts : Reading,
   counting : BOOLEAN, retry : Nat, holds : Nat, limit : BOOLEAN, spoilt : BOOLEAN,
   astray : BOOLEAN]

ScanTyped ==
  /\ ev \in EventState /\ s \in Locals
  /\ scaler \in [id : Nat, pt : Int, sec : Int, on : BOOLEAN]
  /\ motors \in Int /\ flippers \in Int
  /\ file \in [1..Sections -> Seq(Entry)]
-----------------------------------------------------------------------------
\* The point under way is on file k.
Filed(k) == (s.at \in {"begin"} \cup Gathering /\ k < s.sec) \/ (s.at = "next" /\ k <= s.sec)

Progress ==
  /\ s.at # "idle" => \A k \in 1..Sections : Len(file[k]) = s.loop + IF Filed(k) THEN 1 ELSE 0
  /\ s.loop <= Pts /\ (s.at \notin {"idle", "rating", "head"} => s.loop <= Pts - 1)

\* The motors and flippers stand where the point and the cross section need them,
\* as far as Yield has not given up a motor.
Standing ==
  /\ s.at \in Approach \cup Waiting => flippers = 1
  /\ s.at = "driven" => motors = s.loop \/ s.astray \/ Aborting(ev)
  /\ s.at \in Waiting => (motors = s.loop \/ s.astray) /\ s.sec = 1
  /\ s.at \in {"begin", "next"} \cup Gathering => (motors = s.loop \/ s.astray) /\ flippers = s.sec

\* A count that may be added to the point.
Sound(c) == c.whole /\ (c.pt = s.loop \/ s.astray) /\ c.sec = s.sec

\* What has been added up, and what the scaler has.
Gathered ==
  s.at \in Gathering /\ ~s.spoilt =>
    /\ Len(s.acc) + 1 = s.prf
    /\ IF s.at = "dump" THEN s.prf = Mpf + 1 ELSE s.prf <= Mpf
    /\ \A i \in 1..Len(s.acc) : Sound(s.acc[i]) /\ s.acc[i].id <= scaler.id
    /\ \A i, j \in 1..Len(s.acc) : i # j => s.acc[i].id # s.acc[j].id
    /\ s.at \notin {"count", "dump"} =>
         (scaler.pt = s.loop \/ s.astray) /\ scaler.sec = s.sec /\ \A i \in 1..Len(s.acc) : s.acc[i].id < scaler.id
    /\ s.at = "read" => ~scaler.on
    /\ s.at \in {"counted", "hiber2", "judge"} => Sound(s.counts) /\ s.counts.id = scaler.id

\* A control F that would end the scan was given in it.
Asked == s.at # "idle" => (ev.finishup \/ ev.sigquit => "sigquit" \in told)

ScanInv ==
  /\ ScanTyped /\ Progress /\ Standing /\ Gathered /\ Asked
  /\ PointsWhole /\ FilesInStep /\ FinishedWhole
-----------------------------------------------------------------------------
(* Types.                                                                  *)

\* Whatever is done to the events, they remain events.
LEMMA EventsTyped ==
  ASSUME NEW e \in EventState
  PROVE  /\ READEF(e) \in EventState
         /\ \A f \in Flags : CLREF(e, f) \in EventState /\ SETEF(e, f) \in EventState
         /\ \A sig \in Signals : SigHandler(e, sig) \in EventState
         /\ [e EXCEPT !.finishup = FALSE] \in EventState
         /\ \A more \in BOOLEAN : [e EXCEPT !.finishup = @ /\ more] \in EventState
<1>1. \A f \in Flags, sig \in Signals :
        CLREF(e, f) \in EventState /\ SETEF(e, f) \in EventState /\ SigHandler(e, sig) \in EventState
  BY ClrefType, SetType
<1>2. [e EXCEPT !.finishup = FALSE] \in EventState
  BY DEF EventState
<1>3. \A more \in BOOLEAN : [e EXCEPT !.finishup = @ /\ more] \in EventState
  BY DEF EventState
<1>4. "contr_a" \in Flags /\ "sigint" \in Signals
  BY DEF Flags, Signals
<1>. QED
  BY <1>1, <1>2, <1>3, <1>4, ReadefType

\* The flags that a scan clears or sets.
LEMMA FlagNames == {"contr_a", "pause", "stop", "hdw_event"} \subseteq Flags
  BY DEF Flags

\* A reading that is no count is a reading.
LEMMA NoCountTyped == NoCount \in Reading
  BY DEF NoCount, Reading, Nowhere

\* The events, whoever changes them.
LEMMA EventSteps ==
  ASSUME ScanTyped, [Next]_vars
  PROVE  ev' \in EventState
<1>0. ev \in EventState
  BY DEF ScanTyped
<1>1. CASE Start
  <2>1. CLREF(ev, "contr_a") \in EventState
    BY <1>0, EventsTyped, FlagNames
  <2>. QED
    BY <1>1, <2>1, EventsTyped DEF Start
<1>2. CASE Wake
  <2>1. CLREF(ev, "contr_a") \in EventState
    BY <1>0, EventsTyped, FlagNames
  <2>2. CLREF(CLREF(ev, "contr_a"), "hdw_event") \in EventState
    BY <2>1, EventsTyped, FlagNames
  <2>. QED
    BY <1>2, <2>2, EventsTyped, FlagNames DEF Wake
<1>3. CASE HoldEnds
  <2>1. CLREF(ev, "contr_a") \in EventState
    BY <1>0, EventsTyped, FlagNames
  <2>2. CLREF(CLREF(ev, "contr_a"), "hdw_event") \in EventState
    BY <2>1, EventsTyped, FlagNames
  <2>3. READEF(CLREF(CLREF(ev, "contr_a"), "hdw_event")) \in EventState
    BY <2>2, EventsTyped
  <2>. QED
    BY <1>3, <2>3, EventsTyped, FlagNames DEF HoldEnds
<1>4. CASE HoldLooks
  <2>1. READEF(ev) \in EventState
    BY <1>0, EventsTyped
  <2>. QED
    BY <1>4, <2>1, EventsTyped, FlagNames DEF HoldLooks
<1>5. CASE HoldBegins
  BY <1>0, <1>5, EventsTyped, FlagNames DEF HoldBegins
<1>6. CASE LastPoint
  BY <1>0, <1>6, EventsTyped DEF LastPoint
<1>7. CASE \E sig \in Signals : Press(sig)
  BY <1>0, <1>7, EventsTyped DEF Press
<1>8. ev' = ev \/ ev' = READEF(ev) \/ Start \/ Wake \/ HoldEnds \/ HoldLooks \/ HoldBegins \/ LastPoint
      \/ \E sig \in Signals : Press(sig)
  BY DEF Next, Work, vars, Rest, CountEnds, AbortRating, Rated, NextPoint, Point, DriveAll, DriveAborted, Yielded, Arrives,
         AbortDriven, Driven, Settle, AbortSettled, Settled, Begin, Count, StillCounting, StopCounting, Ready, ReadScl,
         AbortCounted, Counted, CountedPolar, Good, BadStart, BadCount, Dmp_Data, AbortPolar, NextSection, PointDone,
         Clear, Aborted, PollNext
<1>. QED
  BY <1>0, <1>1, <1>2, <1>3, <1>4, <1>5, <1>6, <1>7, <1>8, EventsTyped

\* The places a scan can be at, one by one.
LEMMA PlaceNames ==
  /\ "idle" \in Places /\ "rating" \in Places /\ "head" \in Places /\ "hiber" \in Places /\ "point" \in Places
  /\ "drive" \in Places /\ "yield" \in Places /\ "driven" \in Places /\ "settle" \in Places /\ "holding" \in Places
  /\ "held" \in Places /\ "settled" \in Places /\ "begin" \in Places /\ "count" \in Places /\ "scaler" \in Places
  /\ "read" \in Places /\ "counted" \in Places /\ "hiber2" \in Places /\ "judge" \in Places /\ "dump" \in Places
  /\ "next" \in Places
BY DEF Places

\* Every step leaves the locals what they are.
LEMMA LocalSteps ==
  ASSUME ScanTyped, [Next]_vars
  PROVE  s' \in Locals
<1>0. s \in Locals
  BY DEF ScanTyped
<1>. USE <1>0, ScanAssumption
<1>1. CASE Start
  <2>1. Fresh \in Locals
    BY PlaceNames, NoCountTyped DEF Fresh, Locals
  <2>. QED
    BY PlaceNames, <1>1, <2>1 DEF Start, Locals
<1>2. CASE AbortRating \/ AbortDriven \/ AbortSettled \/ AbortCounted \/ AbortPolar \/ LastPoint
  BY PlaceNames, <1>2 DEF AbortRating, AbortDriven, AbortSettled, AbortCounted, AbortPolar, LastPoint, Return, Locals
<1>3. CASE Rated \/ NextPoint \/ Wake \/ Point \/ DriveAll \/ DriveAborted \/ Yielded \/ Driven
  <2>1. CASE Rated \/ NextPoint
    BY PlaceNames, <1>3, <2>1 DEF Rated, NextPoint, Locals
  <2>2. CASE Wake
    BY PlaceNames, <2>2 DEF Wake, Locals
  <2>3. CASE Point
    BY PlaceNames, <2>3 DEF Point, Locals
  <2>4. CASE DriveAll \/ DriveAborted \/ Yielded
    BY PlaceNames, <2>4 DEF DriveAll, DriveAborted, Yielded, Locals
  <2>5. CASE Driven
    <3>1. PICK p \in Places : s' = [s EXCEPT !.at = p, !.holds = 0, !.sec = 1]
      BY PlaceNames, <2>5 DEF Driven
    <3>2. 1 \in 1..Sections /\ 0 \in Nat
      OBVIOUS
    <3>. QED
      BY <3>1, <3>2 DEF Locals
  <2>. QED
    BY <1>3, <2>1, <2>2, <2>3, <2>4, <2>5
<1>4. CASE HoldBegins \/ HoldLooks \/ HoldEnds \/ Settle \/ Settled
  <2>1. CASE HoldBegins
    <3>1. s.holds + 1 \in Nat
      BY DEF Locals
    <3>2. PICK h \in Nat : s' = [s EXCEPT !.at = "holding", !.holds = h]
      BY <2>1, <3>1 DEF HoldBegins
    <3>. QED
      BY PlaceNames, <3>2 DEF Locals
  <2>2. PICK p \in Places : ~HoldBegins => s' = [s EXCEPT !.at = p]
    BY PlaceNames, <1>4 DEF HoldLooks, HoldEnds, Settle, Settled
  <2>. QED
    BY <2>1, <2>2 DEF Locals
<1>5. CASE Begin
  <2>1. <<>> \in Seq(Reading) /\ 1 \in Nat
    OBVIOUS
  <2>. QED
    BY PlaceNames, <1>5, <2>1 DEF Begin, Locals
<1>6. CASE Count \/ Ready \/ StopCounting
  BY PlaceNames, <1>6 DEF Count, Ready, StopCounting, Locals
<1>7. CASE ReadScl
  <2>1. [id |-> scaler.id, pt |-> scaler.pt, sec |-> scaler.sec, whole |-> ~scaler.on] \in Reading
    BY DEF ScanTyped, Reading
  <2>. QED
    BY PlaceNames, <1>7, <2>1, NoCountTyped DEF ReadScl, Locals
<1>8. CASE Counted \/ CountedPolar
  BY PlaceNames, <1>8 DEF Counted, CountedPolar, Locals
<1>9. CASE Good
  <2>1. Append(s.acc, s.counts) \in Seq(Reading) /\ s.prf + 1 \in Nat
    BY DEF Locals
  <2>. QED
    BY PlaceNames, <1>9, <2>1 DEF Good, Add, Locals
<1>10. CASE BadStart \/ BadCount
  <2>1. PICK p \in Places, n \in Nat : s' = [s EXCEPT !.at = p, !.retry = n]
    <3>1. CASE BadStart
      BY PlaceNames, <3>1 DEF BadStart
    <3>2. CASE BadCount
      <4>1. PICK n \in 1..Scl : s' = IF s.retry + n <= Retries THEN [s EXCEPT !.at = "count", !.retry = @ + n]
                                    ELSE [s EXCEPT !.at = "begin", !.retry = Retries + 1]
        BY <3>2 DEF BadCount
      <4>2. s.retry + n \in Nat /\ Retries + 1 \in Nat
        BY DEF Locals
      <4>. QED
        BY PlaceNames, <4>1, <4>2
    <3>. QED
      BY <1>10, <3>1, <3>2
  <2>. QED
    BY <2>1 DEF Locals
<1>11. CASE Dmp_Data
  BY PlaceNames, <1>11 DEF Dmp_Data, Locals
<1>12. CASE NextSection
  <2>1. s.sec + 1 \in 1..Sections /\ s.sec \in 1..Sections
    BY <1>12 DEF NextSection, Locals
  <2>2. PICK c \in 1..Sections : s' = [s EXCEPT !.at = "begin", !.sec = c, !.counts = NoCount]
    BY <1>12, <2>1 DEF NextSection
  <2>. QED
    BY PlaceNames, <2>2, NoCountTyped DEF Locals
<1>13. CASE PointDone
  <2>1. s.loop + 1 \in Nat
    BY DEF Locals
  <2>2. PICK n \in Nat : s' = [s EXCEPT !.at = "head", !.loop = n]
    BY <1>13, <2>1 DEF PointDone
  <2>. QED
    BY PlaceNames, <2>2 DEF Locals
<1>14. UNCHANGED s => s' \in Locals
  OBVIOUS
<1>. QED
  BY PlaceNames, <1>1, <1>2, <1>3, <1>4, <1>5, <1>6, <1>7, <1>8, <1>9, <1>10, <1>11, <1>12, <1>13, <1>14
  DEF Next, Work, Rest, vars, CountEnds, Arrives, StillCounting, Press

\* The scaler, the motors, the flippers and the files.
LEMMA InstrumentSteps ==
  ASSUME ScanTyped, [Next]_vars
  PROVE  /\ scaler' \in [id : Nat, pt : Int, sec : Int, on : BOOLEAN]
         /\ motors' \in Int /\ flippers' \in Int
<1>0. /\ s \in Locals /\ s.loop \in Int /\ s.sec \in Int
      /\ scaler \in [id : Nat, pt : Int, sec : Int, on : BOOLEAN]
      /\ motors \in Int /\ flippers \in Int
  BY DEF ScanTyped, Locals
<1>1. scaler' \in [id : Nat, pt : Int, sec : Int, on : BOOLEAN]
  <2>1. CASE Count
    <3>1. scaler.id + 1 \in Nat
      BY <1>0
    <3>2. UNCHANGED scaler \/ scaler' = [id |-> scaler.id + 1, pt |-> motors, sec |-> flippers, on |-> TRUE]
      BY <2>1 DEF Count
    <3>3. [id |-> scaler.id + 1, pt |-> motors, sec |-> flippers, on |-> TRUE]
            \in [id : Nat, pt : Int, sec : Int, on : BOOLEAN]
      BY <1>0, <3>1
    <3>. QED
      BY <1>0, <3>2, <3>3
  <2>2. CASE Start \/ CountEnds \/ StopCounting
    <3>1. scaler' = [scaler EXCEPT !.id = 0] \/ scaler' = [scaler EXCEPT !.on = FALSE] \/ UNCHANGED scaler
      BY <2>2 DEF Start, CountEnds, StopCounting
    <3>2. [scaler EXCEPT !.id = 0] \in [id : Nat, pt : Int, sec : Int, on : BOOLEAN]
      BY <1>0
    <3>3. [scaler EXCEPT !.on = FALSE] \in [id : Nat, pt : Int, sec : Int, on : BOOLEAN]
      BY <1>0
    <3>. QED
      BY <1>0, <3>1, <3>2, <3>3
  <2>3. UNCHANGED scaler \/ Count \/ Start \/ CountEnds \/ StopCounting
    BY DEF Next, Work, vars, Rest, instrument, Return, Press, AbortRating, Rated, NextPoint, Wake, LastPoint, Point,
           DriveAll, DriveAborted, Yielded, Arrives, AbortDriven, Driven, HoldBegins, HoldLooks, HoldEnds, Settle, AbortSettled,
           Settled, Begin, StillCounting, Ready, ReadScl, AbortCounted, Counted, CountedPolar, Good, BadStart,
           BadCount, Dmp_Data, AbortPolar, NextSection, PointDone
  <2>. QED
    BY <1>0, <2>1, <2>2, <2>3
<1>2. motors' \in {motors, Nowhere, s.loop} /\ flippers' \in {flippers, 1, s.sec + 1}
  <2>1. CASE DriveAll \/ Yielded \/ Arrives \/ Point \/ NextSection
    BY <2>1 DEF DriveAll, Yielded, Arrives, Point, NextSection
  <2>2. UNCHANGED <<motors, flippers>> \/ DriveAll \/ Yielded \/ Arrives \/ Point \/ NextSection
    BY DEF Next, Work, vars, Rest, instrument, Return, Press, Start, Count, CountEnds, StopCounting, AbortRating, Rated,
           NextPoint, Wake, LastPoint, DriveAborted, AbortDriven, Driven, HoldBegins, HoldLooks, HoldEnds, Settle,
           AbortSettled, Settled, Begin, StillCounting, Ready, ReadScl, AbortCounted, Counted, CountedPolar, Good,
           BadStart, BadCount, Dmp_Data, AbortPolar, PointDone
  <2>. QED
    BY <2>1, <2>2
<1>. QED
  BY <1>0, <1>1, <1>2 DEF Nowhere

\* Who writes a file.
LEMMA FileSteps ==
  ASSUME ScanTyped, [Next]_vars
  PROVE  file' \in [1..Sections -> Seq(Entry)] /\ (UNCHANGED file \/ Start \/ Dmp_Data)
<1>0. /\ s.sec \in 1..Sections /\ [pt |-> s.loop, counts |-> s.acc, spoilt |-> s.spoilt, astray |-> s.astray] \in Entry
      /\ file \in [1..Sections -> Seq(Entry)]
  <2>1. s.sec \in 1..Sections /\ s.loop \in Int /\ s.acc \in Seq(Reading) /\ s.spoilt \in BOOLEAN /\ s.astray \in BOOLEAN
    BY DEF ScanTyped, Locals
  <2>. QED
    BY <2>1 DEF ScanTyped, Entry
<1>1. CASE Start
  BY <1>1 DEF Start
<1>2. CASE Dmp_Data
  <2>1. Append(file[s.sec], [pt |-> s.loop, counts |-> s.acc, spoilt |-> s.spoilt, astray |-> s.astray]) \in Seq(Entry)
    BY <1>0
  <2>. QED
    BY <1>0, <1>2, <2>1 DEF Dmp_Data
<1>3. UNCHANGED file \/ Start \/ Dmp_Data
  BY DEF Next, Work, vars, Rest, tally, Return, Press, Count, CountEnds, StopCounting, AbortRating, Rated,
         NextPoint, Wake, LastPoint, DriveAborted, AbortDriven, Driven, HoldBegins, HoldLooks, HoldEnds, Settle,
         AbortSettled, Settled, Begin, StillCounting, Ready, ReadScl, AbortCounted, Counted, CountedPolar, Good,
         BadStart, BadCount, AbortPolar, PointDone, DriveAll, Yielded, Arrives, Point, NextSection
<1>. QED
  BY <1>0, <1>1, <1>2, <1>3

\* Every step keeps the types.
LEMMA TypedStep ==
  ASSUME ScanTyped, [Next]_vars
  PROVE  ScanTyped'
BY EventSteps, LocalSteps, InstrumentSteps, FileSteps DEF ScanTyped
-----------------------------------------------------------------------------
(* How far the files are.                                                  *)

\* A step of one point and cross section that files nothing.
Along ==
  /\ UNCHANGED file /\ s'.loop = s.loop /\ s'.sec = s.sec
  /\ s.at # "idle" /\ s'.at # "idle" /\ s.at # "next" /\ s'.at # "next"
  /\ s.at \in {"begin"} \cup Gathering <=> s'.at \in {"begin"} \cup Gathering
  /\ s.at \in {"rating", "head"} => s'.at \in {"rating", "head"}

\* Such a step changes nothing in how far the files are.
LEMMA AlongKeepsProgress ==
  ASSUME ScanTyped, Progress, Along
  PROVE  Progress'
BY DEF Progress, Along, Filed

\* The steps that are such.
LEMMA AlongSteps ==
  ASSUME ScanTyped,
         Rated \/ Wake \/ DriveAll \/ DriveAborted \/ Yielded \/ HoldBegins \/ HoldLooks \/ HoldEnds \/ Settle
         \/ Begin \/ Count \/ StopCounting \/ Ready \/ ReadScl \/ Counted \/ CountedPolar
         \/ Good \/ BadStart \/ BadCount
  PROVE  Along
<1>0. s \in Locals
  BY DEF ScanTyped
<1>1. CASE Rated \/ Wake
  BY <1>0, <1>1 DEF Rated, Wake, Locals, Along, Gathering, At
<1>2. CASE DriveAll \/ DriveAborted \/ Yielded
  BY <1>0, <1>2 DEF DriveAll, DriveAborted, Yielded, Locals, Along, Gathering, At
<1>3. CASE HoldBegins \/ HoldLooks \/ HoldEnds \/ Settle
  BY <1>0, <1>3 DEF HoldBegins, HoldLooks, HoldEnds, Settle, Locals, Along, Gathering, At
<1>4. CASE Begin \/ Count \/ Counted \/ CountedPolar
  BY <1>0, <1>4 DEF Begin, Count, Counted, CountedPolar, Locals, Along, Gathering, At
<1>5. CASE StopCounting \/ Ready \/ ReadScl
  BY <1>0, <1>5 DEF StopCounting, Ready, ReadScl, Locals, Along, Gathering, At
<1>6. CASE Good \/ BadStart \/ BadCount
  BY <1>0, <1>6 DEF Good, Add, BadStart, BadCount, Locals, Along, Gathering, At
<1>. QED
  BY <1>1, <1>2, <1>3, <1>4, <1>5, <1>6

\* What takes the program out of the scan.
Leaving == AbortRating \/ AbortDriven \/ AbortSettled \/ AbortCounted \/ AbortPolar \/ LastPoint

\* They end the scan and change no file.
LEMMA LeavingIdles ==
  ASSUME ScanTyped, Leaving
  PROVE  s' = [s EXCEPT !.at = "idle"] /\ s'.at = "idle" /\ s'.loop = s.loop /\ s'.limit = s.limit /\ UNCHANGED <<file, told, runs>>
BY DEF ScanTyped, Locals, Leaving, AbortRating, AbortDriven, AbortSettled, AbortCounted, AbortPolar, LastPoint, Return,
       tally

\* What leaves the locals alone.
Standstill == UNCHANGED vars \/ CountEnds \/ Arrives \/ StillCounting \/ \E sig \in Signals : Press(sig)

\* Such a step leaves the files and the flippers alone too, and moves the motors
\* only to the point.
LEMMA StandsStill ==
  ASSUME Standstill
  PROVE  UNCHANGED <<s, file, flippers>> /\ motors' \in {motors, s.loop}
BY DEF Standstill, vars, CountEnds, Arrives, StillCounting, Press, instrument

\* Every step is one of these.
LEMMA StepKinds ==
  ASSUME [Next]_vars
  PROVE  \/ Start \/ Leaving \/ Standstill
         \/ Rated \/ Wake \/ DriveAll \/ DriveAborted \/ Yielded \/ HoldBegins \/ HoldLooks \/ HoldEnds \/ Settle
         \/ Begin \/ Count \/ StopCounting \/ Ready \/ ReadScl \/ Counted \/ CountedPolar
         \/ Good \/ BadStart \/ BadCount
         \/ NextPoint \/ Point \/ Driven \/ Settled \/ Dmp_Data \/ NextSection \/ PointDone
BY DEF Next, Work, Rest, Leaving, Standstill

\* How far the files are, at every place of the loop.
LEMMA ProgressStep ==
  ASSUME ScanTyped, Progress, Standing, [Next]_vars
  PROVE  Progress'
<1>0. /\ s \in Locals /\ s.loop \in Nat /\ s.sec \in 1..Sections /\ Pts \in Nat /\ Sections \in Nat
      /\ file \in [1..Sections -> Seq(Entry)] /\ \A k \in 1..Sections : Len(file[k]) \in Nat
  BY ScanAssumption DEF ScanTyped, Locals
<1>1. CASE Start
  <2>1. s'.at = "rating" /\ s'.loop = 0 /\ file' = [k \in 1..Sections |-> <<>>]
    BY <1>1 DEF Start, Fresh
  <2>. QED
    BY <1>0, <2>1 DEF Progress, Filed, Gathering
<1>2. CASE Leaving
  BY <1>2, LeavingIdles DEF Progress
<1>3. CASE Standstill
  BY <1>3, StandsStill DEF Progress, Filed
<1>4. CASE Along
  BY <1>4, AlongKeepsProgress
<1>5. CASE NextPoint
  <2>1. /\ UNCHANGED file /\ s'.loop = s.loop /\ s.at = "head" /\ s'.at \in {"hiber", "point"}
        /\ s.loop <= Pts - 1
    BY <1>0, <1>5 DEF NextPoint, MorePoints, Locals, At
  <2>. QED
    BY <1>0, <2>1 DEF Progress, Filed, Gathering
<1>6. CASE Point
  <2>1. /\ UNCHANGED file /\ s'.loop = s.loop /\ s.at = "point" /\ s'.at \in {"idle", "drive"}
    BY <1>0, <1>6 DEF Point, Locals, At
  <2>. QED
    BY <1>0, <2>1 DEF Progress, Filed, Gathering
<1>7. CASE Driven \/ Settled
  <2>1. /\ UNCHANGED file /\ s'.loop = s.loop /\ s.at \in {"driven", "settled"}
        /\ s'.at \in {"settle", "begin"} /\ s'.sec = 1
    <3>1. CASE Driven
      BY <1>0, <3>1 DEF Driven, Locals, At
    <3>2. CASE Settled
      BY <1>0, <3>2 DEF Settled, Locals, At, Standing, Waiting
    <3>. QED
      BY <1>7, <3>1, <3>2
  <2>2. \A k \in 1..Sections : Len(file[k]) = s.loop
    <3>1. s.at # "idle" /\ \A k \in 1..Sections : ~Filed(k)
      BY <2>1 DEF Filed, Gathering
    <3>. QED
      BY <1>0, <3>1 DEF Progress
  <2>3. s.loop <= Pts - 1 /\ s.loop <= Pts
    BY <2>1 DEF Progress
  <2>4. \A k \in 1..Sections : ~Filed(k)'
    BY <2>1 DEF Filed
  <2>. QED
    BY <1>0, <2>1, <2>2, <2>3, <2>4 DEF Progress
<1>8. CASE Dmp_Data
  <2> DEFINE r == [pt |-> s.loop, counts |-> s.acc, spoilt |-> s.spoilt, astray |-> s.astray]
  <2>1. /\ s'.loop = s.loop /\ s'.sec = s.sec /\ s.at = "dump" /\ s'.at = "next"
        /\ file' = [file EXCEPT ![s.sec] = Append(file[s.sec], r)]
    BY <1>0, <1>8 DEF Dmp_Data, Locals, At
  <2>2. r \in Entry
    <3>1. s.loop \in Int /\ s.acc \in Seq(Reading) /\ s.spoilt \in BOOLEAN /\ s.astray \in BOOLEAN
      BY <1>0 DEF Locals
    <3>. QED
      BY <3>1 DEF Entry
  <2>. HIDE DEF r
  <2>3. \A k \in 1..Sections : Len(file'[k]) = Len(file[k]) + IF k = s.sec THEN 1 ELSE 0
    BY <1>0, <2>1, <2>2
  <2>4. \A k \in 1..Sections : Len(file[k]) = s.loop + IF k < s.sec THEN 1 ELSE 0
    BY <1>0, <2>1 DEF Progress, Filed, Gathering
  <2>5. \A k \in 1..Sections : Len(file'[k]) = s'.loop + IF k <= s'.sec THEN 1 ELSE 0
    BY <1>0, <2>1, <2>3, <2>4
  <2>6. s.loop <= Pts - 1 /\ s.loop <= Pts
    BY <2>1 DEF Progress
  <2>. QED
    BY <1>0, <2>1, <2>5, <2>6 DEF Progress, Filed, Gathering
<1>9. CASE NextSection
  <2>1. /\ UNCHANGED file /\ s'.loop = s.loop /\ s.at = "next" /\ s'.at = "begin" /\ s'.sec = s.sec + 1
    BY <1>0, <1>9 DEF NextSection, Locals, At
  <2>2. \A k \in 1..Sections : Len(file[k]) = s.loop + IF k <= s.sec THEN 1 ELSE 0
    BY <1>0, <2>1 DEF Progress, Filed, Gathering
  <2>3. \A k \in 1..Sections : Len(file'[k]) = s'.loop + IF k < s'.sec THEN 1 ELSE 0
    <3> TAKE k \in 1..Sections
    <3>1. k \in Int /\ s.sec \in Int /\ s.loop \in Int
      BY <1>0
    <3>2. k <= s.sec <=> k < s.sec + 1
      BY <3>1
    <3>. QED
      BY <2>1, <2>2, <3>1, <3>2
  <2>4. s.loop <= Pts - 1 /\ s.loop <= Pts
    BY <2>1 DEF Progress
  <2>. QED
    BY <1>0, <2>1, <2>3, <2>4 DEF Progress, Filed, Gathering
<1>10. CASE PointDone
  <2>1. /\ UNCHANGED file /\ s'.loop = s.loop + 1 /\ s.at = "next" /\ s'.at = "head" /\ s.sec = Sections
    BY <1>0, <1>10 DEF PointDone, Locals, At
  <2>2. \A k \in 1..Sections : Len(file[k]) = s.loop + IF k <= s.sec THEN 1 ELSE 0
    BY <1>0, <2>1 DEF Progress, Filed, Gathering
  <2>3. \A k \in 1..Sections : Len(file'[k]) = s'.loop
    BY <1>0, <2>1, <2>2
  <2>4. s'.loop <= Pts
    BY <1>0, <2>1 DEF Progress
  <2>. QED
    BY <1>0, <2>1, <2>3, <2>4 DEF Progress, Filed, Gathering
<1>. QED
  BY <1>1, <1>2, <1>3, <1>4, <1>5, <1>6, <1>7, <1>8, <1>9, <1>10, StepKinds, AlongSteps

\* A poll sees what a poll would see, and another signal takes nothing back.
LEMMA AbortSeen ==
  ASSUME NEW e \in EventState
  PROVE  /\ Aborting(e) <=> e.contr_a \/ e.sigint
         /\ READEF(e).contr_a <=> Aborting(e)
         /\ Aborting(READEF(e)) <=> Aborting(e)
         /\ \A sig \in Signals : Aborting(e) => Aborting(SigHandler(e, sig))
<1>1. \A d \in EventState : (Aborting(d) <=> d.contr_a \/ d.sigint) /\ ~READEF(d).sigint
  BY DEF EventState, Signals, Flags, Aborting, READEF, TakeAbortOrPause, TakeFinish
<1>2. \A sig \in Signals : /\ SigHandler(e, sig) \in EventState /\ SigHandler(e, sig).contr_a = e.contr_a
                           /\ e.sigint => SigHandler(e, sig).sigint
  BY SetType DEF EventState, Signals, Flags, SigHandler
<1>3. READEF(e) \in EventState
  BY ReadefType
<1>. QED
  BY <1>1, <1>2, <1>3 DEF Aborting

\* The motors and the flippers are never elsewhere while a point is taken.
LEMMA StandingStep ==
  ASSUME ScanTyped, Standing, [Next]_vars
  PROVE  Standing'
<1>0. s \in Locals /\ s.loop \in Nat /\ s.sec \in 1..Sections /\ ev \in EventState
  BY DEF ScanTyped, Locals
<1>. USE DEF Standing, Approach, Waiting, Gathering, At
<1>1. CASE Start
  BY <1>1 DEF Start, Fresh
<1>2. CASE Leaving
  BY <1>2, LeavingIdles
<1>3. CASE Standstill
  <2>1. s.at = "driven" /\ Aborting(ev) => Aborting(ev)'
    <3>1. CASE \E sig \in Signals : Press(sig)
      BY <1>0, <3>1, AbortSeen DEF Press
    <3>2. CASE UNCHANGED vars \/ CountEnds \/ Arrives
      BY <3>2 DEF vars, CountEnds, Arrives, Aborting
    <3>3. CASE StillCounting
      BY <3>3 DEF StillCounting
    <3>. QED
      BY <1>3, <3>1, <3>2, <3>3 DEF Standstill
  <2>2. UNCHANGED <<s, flippers>> /\ motors' \in {motors, s.loop}
    BY <1>3, StandsStill
  <2>. QED
    BY <2>1, <2>2
<1>4. CASE Rated \/ Wake \/ NextPoint
  BY <1>0, <1>4 DEF Rated, Wake, NextPoint, Locals, instrument
<1>5. CASE Point
  BY <1>0, <1>5 DEF Point, Locals
<1>6. CASE DriveAll
  BY <1>0, <1>6 DEF DriveAll, Locals
<1>7. CASE DriveAborted \/ Yielded
  <2>1. /\ s.at \in {"drive", "yield"} /\ s'.at = "driven" /\ s'.loop = s.loop /\ UNCHANGED flippers
        /\ ev' = READEF(ev) /\ (motors' = s.loop \/ s'.astray \/ Aborting(ev))
    BY <1>0, <1>7 DEF DriveAborted, Yielded, Aborted, Locals, instrument
  <2>2. Aborting(ev) => Aborting(ev)'
    BY <1>0, <2>1, AbortSeen
  <2>. QED
    BY <2>1, <2>2
<1>8. CASE Driven
  BY <1>0, <1>8 DEF Driven, Clear, Locals, instrument
<1>9. CASE HoldBegins \/ HoldLooks \/ HoldEnds \/ Settle \/ Settled
  <2>1. /\ s.at \in Waiting /\ s'.at \in Waiting \cup {"begin"} /\ s'.loop = s.loop /\ s'.sec = s.sec /\ s'.astray = s.astray
        /\ UNCHANGED <<motors, flippers>>
    BY <1>0, <1>9 DEF HoldBegins, HoldLooks, HoldEnds, Settle, Settled, Locals, instrument
  <2>. QED
    BY <2>1
<1>10. CASE Begin \/ Count \/ Counted \/ CountedPolar
  <2>1. /\ s.at \in {"begin"} \cup Gathering /\ s'.at \in Gathering /\ s'.loop = s.loop /\ s'.sec = s.sec /\ s'.astray = s.astray
        /\ UNCHANGED <<motors, flippers>>
    BY <1>0, <1>10 DEF Begin, Count, Counted, CountedPolar, Locals, instrument
  <2>. QED
    BY <2>1
<1>11. CASE StopCounting \/ Ready \/ ReadScl
  <2>1. /\ s.at \in Gathering /\ s'.at \in Gathering /\ s'.loop = s.loop /\ s'.sec = s.sec /\ s'.astray = s.astray
        /\ UNCHANGED <<motors, flippers>>
    BY <1>0, <1>11 DEF StopCounting, Ready, ReadScl, Locals, instrument
  <2>. QED
    BY <2>1
<1>12. CASE Good \/ BadStart \/ BadCount
  <2>1. /\ s.at \in Gathering /\ s'.at \in {"begin"} \cup Gathering /\ s'.loop = s.loop /\ s'.sec = s.sec /\ s'.astray = s.astray
        /\ UNCHANGED <<motors, flippers>>
    BY <1>0, <1>12 DEF Good, Add, BadStart, BadCount, Locals, instrument
  <2>. QED
    BY <2>1
<1>13. CASE Dmp_Data \/ PointDone
  BY <1>0, <1>13 DEF Dmp_Data, PointDone, Locals, instrument
<1>14. CASE NextSection
  BY <1>0, <1>14 DEF NextSection, Locals
<1>. QED
  BY <1>1, <1>2, <1>3, <1>4, <1>5, <1>6, <1>7, <1>8, <1>9, <1>10, <1>11, <1>12, <1>13, <1>14, StepKinds
-----------------------------------------------------------------------------
(* What is on file.                                                        *)

\* The points of a file are 0, 1, 2..., which Progress counts.
LEMMA InStepStep ==
  ASSUME ScanTyped, Progress, FilesInStep, [Next]_vars
  PROVE  FilesInStep'
<1>0. /\ s \in Locals /\ s.loop \in Nat /\ s.sec \in 1..Sections /\ Sections \in Nat /\ 1 \in 1..Sections
      /\ file \in [1..Sections -> Seq(Entry)] /\ \A k \in 1..Sections : Len(file[k]) \in Nat
  BY ScanAssumption DEF ScanTyped, Locals
<1>1. CASE Start
  <2>1. \A k \in 1..Sections : Len(file'[k]) = 0
    BY <1>1 DEF Start
  <2>. QED
    BY <1>0, <2>1 DEF FilesInStep
<1>2. CASE UNCHANGED file
  BY <1>2 DEF FilesInStep
<1>3. CASE Dmp_Data
  <2> DEFINE r == [pt |-> s.loop, counts |-> s.acc, spoilt |-> s.spoilt, astray |-> s.astray]
  <2>1. s.at = "dump" /\ file' = [file EXCEPT ![s.sec] = Append(file[s.sec], r)]
    BY <1>0, <1>3 DEF Dmp_Data, At
  <2>2. r \in Entry /\ r.pt = s.loop
    <3>1. s.loop \in Int /\ s.acc \in Seq(Reading) /\ s.spoilt \in BOOLEAN /\ s.astray \in BOOLEAN
      BY <1>0 DEF Locals
    <3>. QED
      BY <3>1 DEF Entry
  <2>. HIDE DEF r
  <2>3. \A k \in 1..Sections : Len(file[k]) = s.loop + IF k < s.sec THEN 1 ELSE 0
    BY <1>0, <2>1 DEF Progress, Filed, Gathering
  <2>4. \A k \in 1..Sections : Len(file'[k]) = Len(file[k]) + IF k = s.sec THEN 1 ELSE 0
    BY <1>0, <2>1, <2>2
  <2>5. \A k \in 1..Sections : Len(file'[k]) = s.loop + IF k <= s.sec THEN 1 ELSE 0
    BY <1>0, <2>3, <2>4
  <2>6. \A k \in 1..Sections : \A n \in 1..Len(file'[k]) : file'[k][n].pt = n - 1
    <3> TAKE k \in 1..Sections
    <3>1. CASE k # s.sec
      <4>1. file'[k] = file[k]
        BY <1>0, <2>1, <3>1
      <4>. QED
        BY <4>1 DEF FilesInStep
    <3>2. CASE k = s.sec
      <4>1. file'[k] = Append(file[k], r) /\ file[k] \in Seq(Entry) /\ Len(file[k]) = s.loop
        BY <1>0, <2>1, <2>3, <3>2
      <4>. QED
        BY <1>0, <2>2, <4>1 DEF FilesInStep
    <3>. QED
      BY <3>1, <3>2
  <2>7. \A k \in 1..Sections : /\ k > 1 => Len(file'[k-1]) - Len(file'[k]) \in {0, 1}
                                /\ Len(file'[1]) - Len(file'[k]) \in {0, 1}
    <3> TAKE k \in 1..Sections
    <3>1. k > 1 => k - 1 \in 1..Sections
      BY <1>0
    <3>2. k > 1 => Len(file'[k-1]) = s.loop + IF k - 1 <= s.sec THEN 1 ELSE 0
      BY <2>5, <3>1
    <3>3. Len(file'[k]) = s.loop + IF k <= s.sec THEN 1 ELSE 0
      BY <2>5
    <3>4. Len(file'[1]) = s.loop + 1
      BY <1>0, <2>5
    <3>. QED
      BY <1>0, <3>2, <3>3, <3>4
  <2>. QED
    BY <2>6, <2>7 DEF FilesInStep
<1>. QED
  BY <1>1, <1>2, <1>3, FileSteps
-----------------------------------------------------------------------------
(* How a scan ends.                                                        *)

\* Whether control F has come, noticed or not.
Finishing(e) == e.finishup \/ e.sigquit

\* A poll notices control F and forgets nothing.
LEMMA FinishRead == ASSUME NEW e \in EventState PROVE Finishing(READEF(e)) <=> Finishing(e)
  BY DEF Finishing, EventState, Signals, Flags, READEF, TakeAbortOrPause, TakeFinish

\* No flag that is cleared takes control F with it.
LEMMA FinishCleared == ASSUME NEW e \in EventState, NEW f \in Flags PROVE Finishing(CLREF(e, f)) <=> Finishing(e)
  BY DEF Finishing, EventState, Signals, Flags, CLREF

\* No flag that is set brings it.
LEMMA FinishSet == ASSUME NEW e \in EventState, NEW f \in Flags PROVE Finishing(SETEF(e, f)) <=> Finishing(e)
  BY DEF Finishing, EventState, Signals, Flags, SETEF

\* No other key brings it.
LEMMA FinishPressed ==
  ASSUME NEW e \in EventState, NEW sig \in Signals \ {"sigquit"}
  PROVE  Finishing(SigHandler(e, sig)) <=> Finishing(e)
BY DEF Finishing, EventState, Signals, Flags, SigHandler

\* Nothing but the key itself makes a control F.
LEMMA FinishSteps ==
  ASSUME ScanTyped, [Next]_vars, ~Start, ~\E sig \in Signals : Press(sig)
  PROVE  (Finishing(ev)' => Finishing(ev)) /\ (UNCHANGED told \/ told' = told \ {"sigint"})
<1>0. ev \in EventState /\ READEF(ev) \in EventState /\ (Finishing(READEF(ev)) <=> Finishing(ev))
  BY ReadefType, FinishRead DEF ScanTyped
<1> DEFINE e1 == CLREF(ev, "contr_a")
           e2 == CLREF(e1, "hdw_event")
<1>1. /\ e1 \in EventState /\ e2 \in EventState /\ READEF(e2) \in EventState
      /\ Finishing(e1) <=> Finishing(ev)
      /\ Finishing(e2) <=> Finishing(e1)
      /\ Finishing(READEF(e2)) <=> Finishing(e2)
  <2>1. e1 \in EventState /\ (Finishing(e1) <=> Finishing(ev))
    <3>1. "contr_a" \in Flags
      BY FlagNames
    <3>. QED
      BY <1>0, <3>1, ClrefType, FinishCleared
  <2>2. e2 \in EventState /\ (Finishing(e2) <=> Finishing(e1))
    <3>1. "hdw_event" \in Flags
      BY FlagNames
    <3>. HIDE DEF e1
    <3>. QED
      BY <2>1, <3>1, ClrefType, FinishCleared
  <2>. HIDE DEF e1, e2
  <2>3. READEF(e2) \in EventState /\ (Finishing(READEF(e2)) <=> Finishing(e2))
    BY <2>2, ReadefType, FinishRead
  <2>. QED
    BY <2>1, <2>2, <2>3
<1>2. CASE Wake
  <2>1. ev' = CLREF(e2, "pause") /\ told' = told \ {"sigint"}
    BY <1>2 DEF Wake
  <2>2. "pause" \in Flags
    BY FlagNames
  <2>. HIDE DEF e1, e2
  <2>3. Finishing(ev') <=> Finishing(e2)
    BY <1>1, <2>1, <2>2, FinishCleared
  <2>4. Finishing(ev)' <=> Finishing(ev')
    BY DEF Finishing
  <2>. QED
    BY <1>1, <2>1, <2>3, <2>4
<1>3. CASE HoldEnds
  <2>1. ev' = CLREF(READEF(e2), "stop") /\ UNCHANGED told
    BY <1>3 DEF HoldEnds, tally
  <2>2. "stop" \in Flags
    BY FlagNames
  <2>. HIDE DEF e1, e2
  <2>3. Finishing(ev') <=> Finishing(READEF(e2))
    BY <1>1, <2>1, <2>2, FinishCleared
  <2>4. Finishing(ev)' <=> Finishing(ev')
    BY DEF Finishing
  <2>. QED
    BY <1>1, <2>1, <2>3, <2>4
<1>4. CASE HoldLooks \/ HoldBegins
  <2>1. UNCHANGED told /\ (ev' = READEF(ev) \/ ev' = CLREF(READEF(ev), "stop") \/ ev' = SETEF(ev, "stop"))
    BY <1>4 DEF HoldLooks, HoldBegins, tally
  <2>2. "stop" \in Flags
    BY FlagNames
  <2>3. Finishing(ev') <=> Finishing(ev)
    BY <1>0, <2>1, <2>2, FinishCleared, FinishSet
  <2>. QED
    BY <2>1, <2>3 DEF Finishing
<1>5. CASE LastPoint
  BY <1>0, <1>5 DEF LastPoint, Return, tally, Finishing, EventState, Signals, Flags
<1>6. ((ev' = ev \/ ev' = READEF(ev)) /\ UNCHANGED told) \/ Wake \/ HoldEnds \/ HoldLooks \/ HoldBegins \/ LastPoint
  BY DEF Next, Work, vars, Rest, tally, Return, CountEnds, AbortRating, Rated, NextPoint, Point, DriveAll, DriveAborted,
         Yielded, Arrives, AbortDriven, Driven, Settle, AbortSettled, Settled, Begin, Count, StillCounting, StopCounting, Ready,
         ReadScl, AbortCounted, Counted, CountedPolar, Good, BadStart, BadCount, Dmp_Data, AbortPolar, NextSection,
         PointDone, Clear, Aborted, PollNext
<1>7. CASE (ev' = ev \/ ev' = READEF(ev)) /\ UNCHANGED told
  BY <1>0, <1>7 DEF Finishing
<1>. QED
  BY <1>2, <1>3, <1>4, <1>5, <1>6, <1>7

\* Only Start begins a scan.
LEMMA IdleUntilStart ==
  ASSUME ScanTyped, s.at = "idle", [Next]_vars, ~Start
  PROVE  s'.at = "idle" /\ (Leaving \/ Standstill)
<1>1. Leaving => s'.at = "idle"
  BY LeavingIdles
<1>2. Standstill => s'.at = "idle"
  BY StandsStill
<1>3. ~Along
  BY DEF Along
<1>4. ~(NextPoint \/ Point \/ Driven \/ Settled \/ Dmp_Data \/ NextSection \/ PointDone)
  BY DEF NextPoint, Point, Driven, Settled, Dmp_Data, NextSection, PointDone, At
<1>. QED
  BY <1>1, <1>2, <1>3, <1>4, StepKinds, AlongSteps

\* A scan that is to finish up was told so.
LEMMA AskedStep ==
  ASSUME ScanTyped, Asked, [Next]_vars
  PROVE  Asked'
<1>0. ev \in EventState /\ s \in Locals
  BY DEF ScanTyped
<1>1. CASE Start
  <2>1. ev' = [CLREF(ev, "contr_a") EXCEPT !.finishup = FALSE] /\ told' = {sig \in Signals \ {"sigint"} : ev[sig]}
    BY <1>1 DEF Start
  <2>2. ~ev'.finishup /\ (ev'.sigquit => ev.sigquit)
    BY <1>0, <2>1 DEF CLREF, EventState, Signals, Flags
  <2>. QED
    BY <2>1, <2>2 DEF Asked, Signals
<1>2. CASE \E sig \in Signals : Press(sig)
  <2>1. PICK sig \in Signals : Press(sig)
    BY <1>2
  <2>2. UNCHANGED s /\ ev' = SigHandler(ev, sig) /\ told \subseteq told' /\ (sig = "sigquit" => "sigquit" \in told')
    BY <2>1 DEF Press
  <2>. QED
    BY <1>0, <2>2, FinishPressed DEF Asked, Finishing
<1>3. CASE s.at = "idle" /\ ~Start
  <2>1. s'.at = "idle"
    BY <1>3, IdleUntilStart
  <2>. QED
    BY <2>1 DEF Asked
<1>4. CASE s.at # "idle" /\ ~Start /\ ~\E sig \in Signals : Press(sig)
  <2>1. (Finishing(ev)' => Finishing(ev)) /\ (UNCHANGED told \/ told' = told \ {"sigint"})
    BY <1>4, FinishSteps
  <2>. QED
    BY <1>4, <2>1 DEF Asked, Finishing
<1>. QED
  BY <1>1, <1>2, <1>3, <1>4

\* A scan that is over ended with whole points.
LEMMA FinishedStep ==
  ASSUME ScanTyped, Progress, Asked, FinishedWhole, [Next]_vars
  PROVE  FinishedWhole'
<1>0. /\ ev \in EventState /\ s \in Locals /\ s.loop \in Nat /\ Pts \in Nat
  BY ScanAssumption DEF ScanTyped, Locals
<1>1. CASE Leaving
  <2>1. s'.at = "idle" /\ s'.loop = s.loop /\ UNCHANGED <<file, told>>
    BY <1>1, LeavingIdles
  <2>2. CASE Leaving /\ Aborted
    <3>1. ev'.contr_a
      BY <1>0, <2>2, AbortSeen DEF Aborted
    <3>. QED
      BY <3>1 DEF FinishedWhole
  <2>3. CASE LastPoint
    <3>1. s.at = "head" /\ ~MorePoints /\ s.loop <= Pts
      BY <2>3 DEF LastPoint, At, Progress
    <3>2. \A k \in 1..Sections : Len(file[k]) = s.loop
      <4>1. s.at # "idle" /\ \A k \in 1..Sections : ~Filed(k)
        BY <3>1 DEF Filed, Gathering
      <4>. QED
        BY <1>0, <3>1, <4>1 DEF Progress
    <3>3. told = {} => s.loop = Pts
      BY <1>0, <3>1 DEF Asked, MorePoints
    <3>. QED
      BY <2>1, <3>2, <3>3 DEF FinishedWhole
  <2>4. LastPoint \/ Aborted
    BY <1>1 DEF Leaving, AbortRating, AbortDriven, AbortSettled, AbortCounted, AbortPolar
  <2>. QED
    BY <1>1, <2>2, <2>3, <2>4
<1>2. CASE Standstill /\ s.at = "idle"
  <2>1. UNCHANGED <<s, file>>
    BY <1>2, StandsStill
  <2>2. CASE \E sig \in Signals : Press(sig)
    <3>1. PICK sig \in Signals : Press(sig)
      BY <2>2
    <3>2. UNCHANGED runs /\ ev' = SigHandler(ev, sig) /\ told \subseteq told'
      BY <3>1 DEF Press
    <3>3. ev'.contr_a = ev.contr_a
      BY <1>0, <3>2 DEF SigHandler, EventState, Signals, Flags
    <3>. QED
      BY <2>1, <3>2, <3>3 DEF FinishedWhole, At
  <2>3. CASE UNCHANGED vars \/ CountEnds \/ Arrives
    BY <2>3 DEF FinishedWhole, At, vars, CountEnds, Arrives, tally
  <2>4. ~StillCounting
    BY <1>2 DEF StillCounting, At
  <2>. QED
    BY <1>2, <2>2, <2>3, <2>4 DEF Standstill
<1>3. CASE s'.at # "idle"
  BY <1>3 DEF FinishedWhole, At
<1>4. CASE Point
  <2>1. s'.at # "idle" \/ s'.limit
    BY <1>0, <1>4 DEF Point, Locals
  <2>. QED
    BY <2>1 DEF FinishedWhole, At
<1>5. Start \/ Along => s'.at # "idle"
  BY DEF Start, Along, Fresh
<1>6. NextPoint \/ Driven \/ Settled \/ Dmp_Data \/ NextSection \/ PointDone => s'.at # "idle"
  BY <1>0 DEF NextPoint, Driven, Settled, Dmp_Data, NextSection, PointDone, Locals
<1>7. Standstill /\ s.at # "idle" => s'.at # "idle"
  BY StandsStill
<1>. QED
  BY <1>1, <1>2, <1>3, <1>4, <1>5, <1>6, <1>7, StepKinds, AlongSteps
-----------------------------------------------------------------------------
(* What a point is made of.                                                *)

\* The steps that end outside the counting.
LEMMA NotGathering ==
  ASSUME ScanTyped,
         \/ Start \/ Leaving \/ Rated \/ DriveAll \/ DriveAborted \/ Yielded \/ HoldBegins \/ HoldLooks \/ HoldEnds \/ Settle
         \/ BadStart \/ NextPoint \/ Point \/ Driven \/ Settled \/ Dmp_Data \/ NextSection \/ PointDone
  PROVE  s'.at \notin Gathering
<1>0. s \in Locals
  BY DEF ScanTyped
<1>1. CASE Start \/ Leaving
  BY <1>1, LeavingIdles DEF Start, Fresh, Gathering
<1>2. CASE Rated \/ DriveAll \/ DriveAborted \/ Yielded \/ Settle \/ HoldBegins \/ HoldLooks \/ HoldEnds
  BY <1>0, <1>2 DEF Rated, DriveAll, DriveAborted, Yielded, HoldBegins, HoldLooks, HoldEnds, Settle, Locals, Gathering
<1>3. CASE NextPoint \/ Point \/ Driven \/ Settled
  BY <1>0, <1>3 DEF NextPoint, Point, Driven, Settled, Locals, Gathering
<1>4. CASE BadStart \/ Dmp_Data \/ NextSection \/ PointDone
  BY <1>0, <1>4 DEF BadStart, Dmp_Data, NextSection, PointDone, Locals, Gathering
<1>. QED
  BY <1>1, <1>2, <1>3, <1>4

\* What is added up stays whole, here and distinct.
LEMMA GatheredStep ==
  ASSUME ScanTyped, Standing, Gathered, [Next]_vars
  PROVE  Gathered'
<1>0. /\ s \in Locals /\ s.prf \in Nat /\ s.acc \in Seq(Reading) /\ s.counts \in Reading /\ s.loop \in Nat /\ s.sec \in Int
      /\ scaler \in [id : Nat, pt : Int, sec : Int, on : BOOLEAN] /\ scaler.id \in Nat
      /\ \A i \in 1..Len(s.acc) : s.acc[i] \in Reading /\ s.acc[i].id \in Nat
  <2>1. \A c \in Reading : c.id \in Nat
    BY DEF Reading
  <2>. QED
    BY <2>1 DEF ScanTyped, Locals
<1>1. CASE s'.at \notin Gathering \/ s'.spoilt
  BY <1>1 DEF Gathered
<1>. SUFFICES ASSUME s'.at \in Gathering, ~s'.spoilt PROVE Gathered'
  BY <1>1
<1>2. CASE Standstill
  <2>1. UNCHANGED s /\ scaler'.id = scaler.id /\ scaler'.pt = scaler.pt /\ scaler'.sec = scaler.sec /\ (scaler'.on => scaler.on)
    BY <1>0, <1>2 DEF Standstill, vars, CountEnds, Arrives, StillCounting, Press, instrument
  <2>. QED
    BY <2>1 DEF Gathered, Sound
<1>3. CASE Begin
  <2>1. s'.at = "count" /\ s'.prf = 1 /\ s'.acc = <<>>
    BY <1>0, <1>3 DEF Begin, Locals
  <2>2. Mpf \in Nat \ {0}
    BY ScanAssumption
  <2>. QED
    BY <2>1, <2>2 DEF Gathered, Sound
<1>4. CASE Count
  <2>1. /\ s.at = "count" /\ ~s.spoilt /\ s' = [s EXCEPT !.at = "scaler", !.counting = TRUE]
        /\ scaler' = [id |-> scaler.id + 1, pt |-> motors, sec |-> flippers, on |-> TRUE]
    BY <1>0, <1>4 DEF Count, At, Locals
  <2>2. /\ s'.at = "scaler" /\ s'.acc = s.acc /\ s'.prf = s.prf /\ s'.loop = s.loop /\ s'.sec = s.sec /\ s'.astray = s.astray
        /\ scaler'.id = scaler.id + 1 /\ (scaler'.pt = s.loop \/ s.astray) /\ scaler'.sec = s.sec
    BY <1>0, <2>1 DEF Locals, Standing, Gathering
  <2>3. \A i \in 1..Len(s.acc) : s.acc[i].id < scaler.id + 1 /\ s.acc[i].id <= scaler.id + 1
    BY <1>0, <2>1 DEF Gathered, Gathering
  <2>. QED
    BY <2>1, <2>2, <2>3 DEF Gathered, Sound, Gathering
<1>5. CASE StopCounting
  BY <1>0, <1>5 DEF StopCounting, Locals
<1>6. CASE Ready
  <2>1. /\ s.at = "scaler" /\ s'.at = "read" /\ ~scaler.on /\ UNCHANGED scaler /\ ~s.spoilt
        /\ s'.acc = s.acc /\ s'.prf = s.prf /\ s'.loop = s.loop /\ s'.sec = s.sec /\ s'.astray = s.astray
    BY <1>0, <1>6 DEF Ready, At, Locals, instrument
  <2>. QED
    BY <2>1 DEF Gathered, Sound, Gathering
<1>7. CASE ReadScl
  <2>1. /\ s.at = "read" /\ s'.at = "counted" /\ UNCHANGED scaler /\ ~s.spoilt
        /\ s'.acc = s.acc /\ s'.prf = s.prf /\ s'.loop = s.loop /\ s'.sec = s.sec /\ s'.astray = s.astray
        /\ s'.counts = [id |-> scaler.id, pt |-> scaler.pt, sec |-> scaler.sec, whole |-> ~scaler.on]
    BY <1>0, <1>7 DEF ReadScl, At, Locals, instrument
  <2>2. ~scaler.on /\ (scaler.pt = s.loop \/ s.astray) /\ scaler.sec = s.sec
    BY <2>1 DEF Gathered, Gathering
  <2>3. s'.counts.id = scaler.id /\ (s'.counts.pt = s.loop \/ s.astray) /\ s'.counts.sec = s.sec /\ s'.counts.whole
    <3>1. s'.counts.id = scaler.id /\ s'.counts.pt = scaler.pt /\ s'.counts.sec = scaler.sec
      BY <2>1
    <3>2. s'.counts.whole = ~scaler.on
      BY <2>1
    <3>. QED
      BY <2>2, <3>1, <3>2
  <2>4. /\ Len(s.acc) + 1 = s.prf /\ s.prf <= Mpf
        /\ \A i \in 1..Len(s.acc) : Sound(s.acc[i]) /\ s.acc[i].id <= scaler.id /\ s.acc[i].id < scaler.id
        /\ \A i, j \in 1..Len(s.acc) : i # j => s.acc[i].id # s.acc[j].id
    BY <2>1 DEF Gathered, Gathering
  <2>. QED
    BY <2>1, <2>2, <2>3, <2>4 DEF Gathered, Sound
<1>8. CASE Counted \/ CountedPolar \/ Wake
  <2>1. /\ s.at \in {"counted", "hiber2"} /\ s'.at \in {"hiber2", "judge"} /\ UNCHANGED scaler /\ ~s.spoilt
        /\ s'.acc = s.acc /\ s'.prf = s.prf /\ s'.loop = s.loop /\ s'.sec = s.sec /\ s'.astray = s.astray /\ s'.counts = s.counts
    BY <1>0, <1>8 DEF Counted, CountedPolar, Wake, At, Locals, instrument, Gathering
  <2>. QED
    BY <2>1 DEF Gathered, Sound, Gathering
<1>9. CASE Good
  <2>1. /\ s.at = "judge" /\ s'.at = (IF s.prf >= Mpf THEN "dump" ELSE "count") /\ UNCHANGED scaler /\ ~s.spoilt
        /\ s'.acc = Append(s.acc, s.counts) /\ s'.prf = s.prf + 1 /\ s'.loop = s.loop /\ s'.sec = s.sec /\ s'.astray = s.astray
    BY <1>0, <1>9 DEF Good, Add, At, Locals, instrument
  <2>2. /\ Len(s.acc) + 1 = s.prf /\ s.prf <= Mpf /\ Sound(s.counts) /\ s.counts.id = scaler.id
        /\ \A i \in 1..Len(s.acc) : Sound(s.acc[i]) /\ s.acc[i].id < scaler.id
        /\ \A i, j \in 1..Len(s.acc) : i # j => s.acc[i].id # s.acc[j].id
    BY <2>1 DEF Gathered, Gathering
  <2>3. /\ Len(s'.acc) = Len(s.acc) + 1 /\ s'.acc[Len(s.acc) + 1] = s.counts
        /\ \A i \in 1..Len(s.acc) : s'.acc[i] = s.acc[i]
    BY <1>0, <2>1
  <2>4. \A i \in 1..Len(s'.acc) : i \in 1..Len(s.acc) \/ i = Len(s.acc) + 1
    BY <1>0, <2>3
  <2>5. Len(s'.acc) + 1 = s'.prf /\ IF s'.at = "dump" THEN s'.prf = Mpf + 1 ELSE s'.prf <= Mpf
    <3>1. Mpf \in Nat
      BY ScanAssumption
    <3>. QED
      BY <1>0, <2>1, <2>2, <2>3, <3>1
  <2>6. \A i \in 1..Len(s'.acc) : Sound(s.acc[i])' /\ s'.acc[i].id <= scaler'.id
    <3> TAKE i \in 1..Len(s'.acc)
    <3>1. CASE i \in 1..Len(s.acc)
      BY <1>0, <2>1, <2>2, <2>3, <3>1 DEF Sound
    <3>2. CASE i = Len(s.acc) + 1
      BY <1>0, <2>1, <2>2, <2>3, <3>2 DEF Sound
    <3>. QED
      BY <2>4, <3>1, <3>2
  <2>7. \A i, j \in 1..Len(s'.acc) : i # j => s'.acc[i].id # s'.acc[j].id
    BY <1>0, <2>1, <2>2, <2>3, <2>4
  <2>. QED
    BY <2>1, <2>5, <2>6, <2>7 DEF Gathered
<1>10. CASE BadCount
  <2>1. /\ s.at = "judge" /\ s'.at = "count" /\ UNCHANGED scaler /\ ~s.spoilt
        /\ s'.acc = s.acc /\ s'.prf = s.prf /\ s'.loop = s.loop /\ s'.sec = s.sec /\ s'.astray = s.astray
    BY <1>0, <1>10 DEF BadCount, At, Locals, instrument, Gathering
  <2>2. /\ Len(s.acc) + 1 = s.prf /\ s.prf <= Mpf
        /\ \A i \in 1..Len(s.acc) : Sound(s.acc[i]) /\ s.acc[i].id <= scaler.id
        /\ \A i, j \in 1..Len(s.acc) : i # j => s.acc[i].id # s.acc[j].id
    BY <2>1 DEF Gathered, Gathering
  <2>. QED
    BY <2>1, <2>2 DEF Gathered, Sound
<1>. QED
  BY <1>2, <1>3, <1>4, <1>5, <1>6, <1>7, <1>8, <1>9, <1>10, NotGathering, StepKinds

\* Only a point that is whole is filed as unspoilt.
LEMMA WholeStep ==
  ASSUME ScanTyped, Gathered, PointsWhole, [Next]_vars
  PROVE  PointsWhole'
<1>0. /\ s \in Locals /\ s.sec \in 1..Sections /\ s.loop \in Int /\ s.acc \in Seq(Reading) /\ s.spoilt \in BOOLEAN /\ s.astray \in BOOLEAN
      /\ Mpf \in Nat /\ file \in [1..Sections -> Seq(Entry)] /\ \A k \in 1..Sections : Len(file[k]) \in Nat
  BY ScanAssumption DEF ScanTyped, Locals
<1>1. CASE Start
  <2>1. \A k \in 1..Sections : Len(file'[k]) = 0
    BY <1>1 DEF Start
  <2>. QED
    BY <2>1 DEF PointsWhole
<1>2. CASE UNCHANGED file
  BY <1>2 DEF PointsWhole
<1>3. CASE Dmp_Data
  <2> DEFINE r == [pt |-> s.loop, counts |-> s.acc, spoilt |-> s.spoilt, astray |-> s.astray]
             Whole(e, k) == ~e.spoilt =>
               /\ Len(e.counts) = Mpf
               /\ \A i \in 1..Mpf : e.counts[i].whole /\ e.counts[i].sec = k /\ (e.counts[i].pt = e.pt \/ e.astray)
               /\ \A i, j \in 1..Mpf : i # j => e.counts[i].id # e.counts[j].id
  <2>1. s.at = "dump" /\ file' = [file EXCEPT ![s.sec] = Append(file[s.sec], r)]
    BY <1>0, <1>3 DEF Dmp_Data, At
  <2>2. r \in Entry
    BY <1>0 DEF Entry
  <2>3. Whole(r, s.sec)
    <3>1. SUFFICES ASSUME ~s.spoilt PROVE Whole(r, s.sec)
      OBVIOUS
    <3>2. /\ Len(s.acc) = Mpf /\ \A i \in 1..Len(s.acc) : Sound(s.acc[i])
          /\ \A i, j \in 1..Len(s.acc) : i # j => s.acc[i].id # s.acc[j].id
      BY <1>0, <2>1, <3>1 DEF Gathered, Gathering, Locals
    <3>. QED
      BY <3>2 DEF Sound
  <2>4. \A k \in 1..Sections : \A n \in 1..Len(file[k]) : Whole(file[k][n], k)
    BY DEF PointsWhole
  <2>. HIDE DEF r, Whole
  <2>5. \A k \in 1..Sections : \A n \in 1..Len(file'[k]) : Whole(file'[k][n], k)
    <3> TAKE k \in 1..Sections
    <3>1. CASE k # s.sec
      <4>1. file'[k] = file[k]
        BY <1>0, <2>1, <3>1
      <4>. QED
        BY <2>4, <4>1
    <3>2. CASE k = s.sec
      <4>1. file'[k] = Append(file[k], r) /\ file[k] \in Seq(Entry)
        BY <1>0, <2>1, <3>2
      <4>2. \A n \in 1..Len(file'[k]) : file'[k][n] = r \/ (n \in 1..Len(file[k]) /\ file'[k][n] = file[k][n])
        <5>1. Len(file'[k]) = Len(file[k]) + 1 /\ Len(file[k]) \in Nat /\ file'[k][Len(file[k]) + 1] = r
          BY <2>2, <4>1
        <5>2. \A n \in 1..Len(file[k]) : file'[k][n] = file[k][n]
          BY <2>2, <4>1
        <5>3. \A n \in 1..Len(file'[k]) : n = Len(file[k]) + 1 \/ n \in 1..Len(file[k])
          BY <5>1
        <5>. TAKE n \in 1..Len(file'[k])
        <5>4. CASE n = Len(file[k]) + 1
          BY <5>1, <5>4
        <5>5. CASE n \in 1..Len(file[k])
          BY <5>2, <5>5
        <5>. QED
          BY <5>3, <5>4, <5>5
      <4>. QED
        BY <2>3, <2>4, <3>2, <4>2
    <3>. QED
      BY <3>1, <3>2
  <2>. QED
    BY <2>5 DEF PointsWhole, Whole
<1>. QED
  BY <1>1, <1>2, <1>3, FileSteps
-----------------------------------------------------------------------------
(* The theorems.                                                           *)

\* The invariant holds at first...
LEMMA ScanInvInit == Init => ScanInv
<1>. SUFFICES ASSUME Init PROVE ScanInv
  OBVIOUS
<1>. USE ScanAssumption
<1>1. ScanTyped
  <2>1. Fresh \in Locals
    <3>1. <<>> \in Seq(Reading) /\ 1 \in 1..Sections
      OBVIOUS
    <3>. QED
      BY <3>1, PlaceNames, NoCountTyped DEF Fresh, Locals
  <2>2. NoEvents \in EventState
    BY DEF NoEvents, EventState
  <2>. QED
    BY <2>1, <2>2 DEF Init, ScanTyped, Nowhere
<1>2. s.at = "idle" /\ s.loop = 0
  BY DEF Init, Fresh
<1>3. \A k \in 1..Sections : Len(file[k]) = 0
  BY DEF Init
<1>4. Progress /\ Asked
  BY <1>2 DEF Progress, Asked
<1>5. Standing /\ Gathered
  BY <1>2 DEF Standing, Gathered, Approach, Waiting, Gathering
<1>6. PointsWhole /\ FilesInStep
  <2>1. 1 \in 1..Sections /\ \A k \in 1..Sections : k > 1 => k - 1 \in 1..Sections
    OBVIOUS
  <2>. QED
    BY <1>3, <2>1 DEF PointsWhole, FilesInStep
<1>7. FinishedWhole
  BY DEF FinishedWhole, Init
<1>. QED
  BY <1>1, <1>4, <1>5, <1>6, <1>7 DEF ScanInv

\* ...and after every step.
LEMMA ScanInvStep == ScanInv /\ [Next]_vars => ScanInv'
<1>. SUFFICES ASSUME ScanInv, [Next]_vars PROVE ScanInv'
  OBVIOUS
<1>1. ScanTyped /\ Progress /\ Standing /\ Gathered /\ Asked /\ PointsWhole /\ FilesInStep /\ FinishedWhole
  BY DEF ScanInv
<1>. QED
  BY <1>1, TypedStep, ProgressStep, StandingStep, GatheredStep, AskedStep, WholeStep, InStepStep, FinishedStep DEF ScanInv

\* The strengthened invariant holds throughout.
THEOREM ScanInvariant == Spec => []ScanInv
BY ScanInvInit, ScanInvStep, PTL DEF Spec

\* Run_I_Buf and Run_Polar file as unspoilt only points that are whole: mpf
\* different complete counts, with the flippers of the file, and at the point
\* unless Yield had given up a motor for it.
THEOREM PointsWholeAlways == Spec => []PointsWhole
<1>1. ScanInv => PointsWhole
  BY DEF ScanInv
<1>. QED
  BY <1>1, ScanInvariant, PTL

\* The files of the cross sections keep step, however a scan is stopped.
THEOREM FilesInStepAlways == Spec => []FilesInStep
<1>1. ScanInv => FilesInStep
  BY DEF ScanInv
<1>. QED
  BY <1>1, ScanInvariant, PTL

\* A scan that neither control A nor a limit stopped is on file, whole, and to
\* its last point if no key was pressed.
THEOREM FinishedWholeAlways == Spec => []FinishedWhole
<1>1. ScanInv => FinishedWhole
  BY DEF ScanInv
<1>. QED
  BY <1>1, ScanInvariant, PTL
=============================================================================
