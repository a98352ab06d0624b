-------------------------- MODULE GenerationPeriod --------------------------
(***************************************************************************)
(* Generation periods: consecutive runs of PeriodLength heights, the first *)
(* one starting at height 1.  A period is named by its start height.       *)
(***************************************************************************)
EXTENDS Integers

CONSTANT PeriodLength  \* functionality-settings.generation-period-length

ASSUME PeriodAssumption == PeriodLength \in Nat \ {0}

periodOf(h) == ((h - 1) \div PeriodLength) * PeriodLength + 1

nextPeriod(p) == p + PeriodLength

isPeriodStart(h) == periodOf(h) = h

\* 0 where the code has None: the first period follows no other.
prevPeriod(p) == IF p = 1 THEN 0 ELSE p - PeriodLength
=============================================================================
