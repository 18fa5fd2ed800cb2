--------------------------- MODULE PartitionRanges ---------------------------
(***************************************************************************)
(* The ranges into which app/services/extraction_service.py divides the    *)
(* interval from lo to hi of a key.  Each range excludes its upper end,    *)
(* except the last one.                                                    *)
(***************************************************************************)
EXTENDS Integers

\* The n + 1 ends of n ranges: lo and hi as the source gave them, and between
\* them ends computed in floats (or in whole microseconds, for a time) that
\* only grow.  Rounding may leave them outside the interval: for a key beyond
\* 2^53, or when there are more ranges than values.  An interval of one value
\* is not divided.
Cuts(n) ==
    {cut \in [0..n -> Int] :
        /\ cut[0] <= cut[n]
        /\ cut[0] = cut[n] => n = 1
        /\ \A i, j \in 1..(n - 1) : i <= j => cut[i] <= cut[j]}

InRange_LastExcluded(cut, n, i, v) ==           \* mutant: no inclusive end
    cut[i - 1] <= v /\ v < cut[i]

\* The i-th range is WHERE key >= start AND key < end, or <= end in the last.
InRange(cut, n, i, v) ==
    /\ cut[i - 1] <= v
    /\ v < cut[i] \/ (i = n /\ v = cut[n])

\* int(a / n): towards zero.
Trunc(a, n) == IF a >= 0 THEN a \div n ELSE -((-a) \div n)

\* The ends of an integer key when no float is rounded: int(lo + step * i)
\* between lo and hi.
ExactCuts(lo, hi, n) ==
    [i \in 0..n |-> IF i = 0 THEN lo
                    ELSE IF i = n THEN hi
                    ELSE Trunc(lo * n + (hi - lo) * i, n)]
=============================================================================
