----------------------------- MODULE MCAreaCount -----------------------------
(***************************************************************************)
(* Two counts: for no time at all, for one piece, or for three.            *)
(***************************************************************************)
EXTENDS AreaCount

\* An element of a histogram: the counts it has neutrons of.
MCContents == SUBSET (1..MaxCounts)

MCPresets == {<<0, "ticks">>, <<2, "ticks">>, <<5, "monitor">>}

MCAreaPresets == {<<1, "ticks">>}

\* Enough of one input for a carry into its second word.
MCPulses == [ticks |-> 3, monitor |-> 0, detector |-> 1]
=============================================================================
