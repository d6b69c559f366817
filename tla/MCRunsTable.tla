---- MODULE MCRunsTable ----
EXTENDS RunsTable
\* Two overlapping queries: one that every run satisfies, one for some.
MCMatches(q) == IF q = "all" THEN 1..MaxRun ELSE {1, 3}
====
