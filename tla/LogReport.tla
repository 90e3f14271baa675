------------------------------ MODULE LogReport ------------------------------
(***************************************************************************)
(* The report over the observer's log (dpilog.go, dpiReport), run by hand  *)
(* in a process of its own beside the writer: it lists the files that are  *)
(* there, reads them one by one, and keeps the findings in the order read. *)
(***************************************************************************)
EXTENDS EventLog

CONSTANT Generations  \* rotated files the report looks for (4)

VARIABLE report       \* files still to read, and the lines kept so far

reportVars == <<logVars, report>>

NoReport == [at |-> "none", todo |-> <<>>, found |-> <<>>]

\* The file itself first, whether it is there or not, then its generations.
Listed == <<0>> \o SelectSeq([i \in 1..Generations |-> i], LAMBDA g : g \in DOMAIN files)

StartReport ==
  /\ report.at = "none"
  /\ report' = [report EXCEPT !.at = "reading", !.todo = Listed]
  /\ UNCHANGED logVars

\* A file that has gone in the meantime is passed over; lines that are not events of
\* a finding (here: announcements, which name no source and are only notices) are not
\* among the notable ones.
IsFinding(l) == l.kind = "event"
ReadFile ==
  /\ report.at = "reading"
  /\ report' =
       IF report.todo = <<>> THEN [report EXCEPT !.at = "printed"]
       ELSE LET g == Head(report.todo)
                read == IF g \in DOMAIN files THEN SelectSeq(files[g].lines, IsFinding) ELSE <<>>
            IN [report EXCEPT !.todo = Tail(@), !.found = @ \o read]
  /\ UNCHANGED logVars

LogReportInit == LogInit /\ report = NoReport
LogReportNext ==
  \/ LogNext /\ UNCHANGED report
  \/ StartReport \/ ReadFile
LogReportSpec == LogReportInit /\ [][LogReportNext]_reportVars

-----------------------------------------------------------------------------

\* "Notable findings (most recent last)": what the report prints is in the order in
\* which the events were emitted.
MostRecentLast ==
  report.at = "printed" =>
    \A i, j \in DOMAIN report.found : i < j => report.found[i].n <= report.found[j].n
=============================================================================
