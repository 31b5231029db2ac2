------------------------------ MODULE ScanBudget ------------------------------
(***************************************************************************)
(* The memory one scan may use: db/_scan.py divides what ClickHouse allows  *)
(* itself by the scans its gates admit at once.  A record f of settings and *)
(* facts has                                                                *)
(*                                                                          *)
(*   explicit    stat_scan_max_memory_bytes, 0 for "a ratio of the ceiling" *)
(*   percent     stat_scan_memory_ratio                                     *)
(*   local       the memory the app detects for itself, 0 when it cannot    *)
(*   cgroup, os, ram, pinned   what ClickHouse reports of its own limits:   *)
(*               container, machine, its ratio in percent, and an absolute  *)
(*               limit; 0 when it does not                                  *)
(*   caches      the configured sizes of its caches                         *)
(***************************************************************************)
EXTENDS Integers

CONSTANTS
    HeavySlots,        \* size of the heavy gate
    ChartSlots,        \* size of the chart gate
    ChartShare,        \* heavy slots the chart gate is sized as
    Fallback,          \* bytes assumed when nothing is known
    NoLimit,           \* a container limit from here on is none
    DefaultRatio       \* ClickHouse's ratio when it reports none

ASSUME BudgetAssumption ==
    {HeavySlots, ChartSlots, ChartShare, Fallback, NoLimit, DefaultRatio} \subseteq Nat \ {0}

Least(m, n) == IF m < n THEN m ELSE n
Most(m, n)  == IF m < n THEN n ELSE m

PartOf(n, percent) == (n * percent) \div 100

(***************************************************************************)
(* resolve_clickhouse_ceiling: the container limit when it is one, else the *)
(* machine, each by its ratio; a pinned limit only ever lowers it.          *)
(***************************************************************************)
CgroupIsLimit(f) ==
    /\ f.cgroup > 0 /\ f.cgroup < NoLimit
    /\ f.os = 0 \/ f.cgroup < f.os

RatioCap(f) ==
    PartOf(IF CgroupIsLimit(f) THEN f.cgroup ELSE f.os,
           IF f.ram = 0 THEN DefaultRatio ELSE f.ram)

ClickHouseCeiling(f) ==
    IF f.pinned > 0
    THEN IF RatioCap(f) > 0 THEN Least(f.pinned, RatioCap(f)) ELSE f.pinned
    ELSE RatioCap(f)

\* Somebody decided on that number.
CeilingIsBounded(f) == f.pinned > 0 \/ (RatioCap(f) > 0 /\ CgroupIsLimit(f))

\* scan_memory_ceiling: of two guesses the lower one.
Ceiling(f) ==
    IF ClickHouseCeiling(f) = 0 THEN f.local
    ELSE IF CeilingIsBounded(f) \/ f.local = 0 THEN ClickHouseCeiling(f)
    ELSE Least(ClickHouseCeiling(f), f.local)

\* _cache_bytes_under: the caches share ClickHouse's ceiling and no other.
CachesUnder(f) ==
    IF ClickHouseCeiling(f) > 0 /\ Ceiling(f) = ClickHouseCeiling(f) THEN f.caches ELSE 0

\* _resolve_scan_memory_budget, before it is divided.
Available(f) == Ceiling(f) - CachesUnder(f)

Total(f) ==
    IF f.explicit > 0 THEN f.explicit
    ELSE IF Available(f) > 0 THEN PartOf(Available(f), f.percent)
    ELSE IF Ceiling(f) > 0 THEN Least(Fallback, PartOf(Ceiling(f), f.percent))
    ELSE Fallback

\* The slots one budget is divided by: the heavy gate and the share of charts.
Divisor_NoCharts == HeavySlots
Divisor == HeavySlots + ChartShare

\* detect_scan_memory_budget, detect_foreground_memory_budget: never 0, which
\* ClickHouse takes for "unlimited".
HeavyCap(f) == Most(Total(f) \div Divisor, 1)
ChartCap(f) == Most((HeavyCap(f) * ChartShare) \div ChartSlots, 1)

\* _scan_settings_clause: a slot that runs width queries at once (scan_fanout)
\* splits its cap.
QueryCap(cap, width) == Most(cap \div width, 1)

\* What heavy and charts scans under their slots, of width queries each, may
\* use together.
Committed(f, heavy, charts, width) ==
    heavy * width * QueryCap(HeavyCap(f), width) + charts * width * QueryCap(ChartCap(f), width)

\* Every one of those queries has a byte of its own.
IsDivisible(f, width) == Total(f) >= Divisor * ChartSlots * width
=============================================================================
