----------------------------- MODULE MCScrape -----------------------------
(* The scrape engine with one job of three versions: the first two look for *)
(* different targets, and no HTTP client can be built for the third.       *)
EXTENDS ScrapeManager
CONSTANTS t1, t2
MCSource == [v \in Versions |-> IF v = 1 THEN {t1} ELSE IF v = 2 THEN {t2} ELSE {}]
\* The receiver starts with the first version; then the job stays, changes or is removed.
MCApplied(n) == IF n = 1 THEN {[j \in Jobs |-> 1]} ELSE Configs
============================================================================
