---------------------------- MODULE MCSourceAdmin ----------------------------
(* Two requests for one new source and a third for another, beside a shipped
   source. *)
EXTENDS SourceAdmin, TLC

CONSTANTS c1, c2, c3, shipped, s1, s2

MCCreators == {c1, c2, c3}
MCPair == {c2, c3}
MCSources == {shipped, s1, s2}
MCShipped == {shipped}
MCWants == [c \in Creators |-> IF c = c3 THEN s2 ELSE s1]
=============================================================================
