------------------------------ MODULE AuditLog ------------------------------
(***************************************************************************)
(* What the audit log promises its readers, with no links, pins, epochs or *)
(* tasks in sight: a row is appended under a fresh id and never changes,   *)
(* and the only rows that ever leave are the ones older than the retention *)
(* window, all of them at once.                                            *)
(***************************************************************************)
EXTENDS Integers

CONSTANT Retention

VARIABLES
    log,    \* row id -> its content
    next,   \* the next id
    clock   \* the time rows are stamped with

lvars == <<log, next, clock>>

LogAppend ==
    /\ \E kind \in {"event", "retention", "anchor"} :
         log' = [i \in DOMAIN log \cup {next} |->
                    IF i = next THEN [ts |-> clock, kind |-> kind] ELSE log[i]]
    /\ next' = next + 1
    /\ UNCHANGED clock

\* The cutoff may be an old one, never one from the future.
LogTrim ==
    /\ \E cutoff \in 0 .. clock - Retention :
         log' = [i \in {i \in DOMAIN log : log[i].ts >= cutoff} |-> log[i]]
    /\ UNCHANGED <<next, clock>>

LogTick == clock' = clock + 1 /\ UNCHANGED <<log, next>>

LogNext == LogAppend \/ LogTrim \/ LogTick

\* The initial log is whatever the database holds when it is opened.
LogInit == \A i \in DOMAIN log : i < next

LogSpec == LogInit /\ [][LogNext]_lvars
=============================================================================
