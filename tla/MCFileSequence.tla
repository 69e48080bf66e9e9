--------------------------- MODULE MCFileSequence ---------------------------
(***************************************************************************)
(* Files for FileSequence.                                                 *)
(***************************************************************************)
EXTENDS FileSequence

\* a; INCLUDE outer; d / a comment / e / INCLUDE last / # z.  outer has a
\* command, includes inner and ends with a command; last ends the file.
NestedMain ==
  <<TextLine(<<"a", "outer", "d">>), Note, TextLine(<<"e">>),
    TextLine(<<"last">>), TextLine(<<"#", "z">>)>>

NestedIncluded ==
  [outer |-> <<Note, TextLine(<<"b", "inner">>), TextLine(<<"c">>)>>,
   inner |-> <<Note, Note, TextLine(<<"i">>)>>,
   last  |-> <<Note, TextLine(<<"l">>)>>]

\* An included file without a comment on its first line.
PlainMain == <<TextLine(<<"a", "two">>), TextLine(<<"d">>)>>

PlainIncluded == [two |-> <<TextLine(<<"b">>), TextLine(<<"c">>)>>]
=============================================================================
