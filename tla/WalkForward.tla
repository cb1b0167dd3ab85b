----------------------------- MODULE WalkForward -----------------------------
(***************************************************************************)
(* internal/market/session.go, which gives an article its NSE session and  *)
(* the end of the window its label is measured in, and internal/eval, which *)
(* cuts the sessions of exported rows into purged walk-forward folds.       *)
(* Instants are integers; IST never changes its offset.                     *)
(***************************************************************************)
EXTENDS Integers, Sequences, FiniteSets

CONSTANTS
    Day,            \* 24 hours
    IST,            \* the offset of Indian Standard Time
    MarketClose     \* 15:30, counted from midnight

ASSUME WalkForwardAssumption ==
    /\ Day \in Nat \ {0}
    /\ IST \in 0..(Day - 1)
    /\ MarketClose \in 0..(Day - 1)

\* The instant of the Indian midnight before t.
SessionDate(t) == ((t + IST) \div Day) * Day - IST

LabelWindowEnd(t) == SessionDate(t) + MarketClose + Day

\* The sessions of the rows, each once and in order.
UniqueDates(times) ==
    LET dates == {SessionDate(t) : t \in times}
    IN  CHOOSE s \in [1..Cardinality(dates) -> dates] :
            \A i, j \in DOMAIN s : i < j => s[i] < s[j]

\* Wrong on purpose: the embargo is left out.
FoldWithoutEmbargo(dates, start, trainDays, testDays, embargoDays) ==
    [trainStart |-> dates[start], trainEnd |-> dates[start + trainDays - 1],
     testStart |-> dates[start + trainDays],
     testEnd |-> dates[start + trainDays + testDays - 1]]

Fold(dates, start, trainDays, testDays, embargoDays) ==
    LET testStart == start + trainDays + embargoDays
    IN  [trainStart |-> dates[start], trainEnd |-> dates[start + trainDays - 1],
         testStart |-> dates[testStart], testEnd |-> dates[testStart + testDays - 1]]

\* One fold for each first session from which training, embargo and test fit.
BuildPurgedWalkForward(times, trainDays, testDays, embargoDays) ==
    LET dates == UniqueDates(times)
        last == Len(dates) - trainDays - embargoDays - testDays + 1
    IN  IF trainDays <= 0 \/ testDays <= 0 THEN {}
        ELSE {Fold(dates, start, trainDays, testDays, embargoDays) : start \in 1..last}
=============================================================================
