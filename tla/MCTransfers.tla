---------------------------- MODULE MCTransfers ----------------------------
(* Transfers for TLC: two contents of different length, and two different  *)
(* configurations; every path of up to three components.                   *)
EXTENDS Transfers

MCScratchfiles == {<<"f">>}

\* A character of two bytes, and one of one byte.
MCPayloads == {<<"a", "b">>, <<"c">>}

MCRunes == {<<"a", "b">>, <<"c">>, <<Hole>>}

\* Generous; tight, with a maximum that says nothing; the default timeout
\* beyond the maximum.
MCDeployments ==
  {<<[allowExport |-> TRUE], [maximumSessions |-> {}]>>,
   <<[outputBytes |-> 1, readBytes |-> 0, gatewayName |-> "",
      defaultTimeout |-> 1, maximumTimeout |-> 2, maximumTTL |-> 2],
     [outbound |-> "no", allowExport |-> "1"]>>,
   <<[defaultTimeout |-> 3, maximumTimeout |-> 2], <<>> >>}

MCWorkloads ==
  {{"write", "read"}, {"write", "export"}, {"write", "agent"}, {"read", "agent"},
   {"read", "paths"}, {"export", "agent"}, {"http", "agent"}, {"reset"}}

Components == {"..", "scratch", "scratchy", "f"}

MCSpellings ==
  [rooted : BOOLEAN, parts : UNION {[1 .. n -> Components] : n \in 0 .. 3}]
=============================================================================
