---------------------------- MODULE QueueReports ----------------------------
(***************************************************************************)
(* Two crons of two processes: QueuesMonitoringCron counts the jobs of all *)
(* queues, and then inserts a row for each, all of one date;               *)
(* SlackReportingCron reads the latest date and then the rows of that      *)
(* date, and posts if a queue has a hundred jobs in some state.  Each      *)
(* starts only when its last run is over, and a run that throws frees it.  *)
(***************************************************************************)
EXTENDS FiniteSets, Integers, Sequences

CONSTANTS
    Queue,          \* a sequence: the queues in the order of queuesMap
    MaxCounts,      \* bound: runs of QueuesMonitoringCron
    MaxReports,     \* bound: runs of SlackReportingCron
    MaxErrors       \* bound: runs that throw

ASSUME QueueReportsAssumption ==
    /\ Queue \in Seq({Queue[i] : i \in DOMAIN Queue}) /\ Queue # <<>>
    /\ \A i, j \in DOMAIN Queue : Queue[i] = Queue[j] => i = j
    /\ {MaxCounts, MaxReports, MaxErrors} \subseteq Nat

VARIABLES
    crowded,        \* queues with a hundred jobs in some state
    counts,         \* [a run of QueuesMonitoringCron -> its rows, as queues and crowded ones]
    count,          \* the run of QueuesMonitoringCron that goes on, or went
    report,         \* the run of SlackReportingCron that goes on, or went
    reports,
    errors

reportVars == <<crowded, counts, count, report, reports, errors>>

QueueName == {Queue[i] : i \in DOMAIN Queue}

\* A count is at the queue `at` of those it asks or inserts.  `since` are the queues that
\* have been crowded from its start on.
CountState == [pc : {"idle", "ask", "insert"}, at : 1..(Len(Queue) + 1),
               found : SUBSET QueueName, since : SUBSET QueueName]
NotCounting == [pc |-> "idle", at |-> 1, found |-> {}, since |-> {}]
ReportState == [pc : {"idle", "find", "posted", "silent"}, date : 0..MaxCounts,
                rows : SUBSET QueueName, seen : SUBSET QueueName]
RowsOf == [rows : SUBSET QueueName, crowded : SUBSET QueueName, since : SUBSET QueueName]

ReportsTypeOK ==
    /\ crowded \subseteq QueueName
    /\ counts \in Seq(RowsOf) /\ Len(counts) <= MaxCounts
    /\ count \in CountState
    /\ report \in ReportState
    /\ reports \in 0..MaxReports
    /\ errors \in 0..MaxErrors

ReportsInit ==
    /\ crowded = {}
    /\ counts = <<>>
    /\ count = NotCounting
    /\ report = [pc |-> "idle", date |-> 0, rows |-> {}, seen |-> {}]
    /\ reports = 0
    /\ errors = 0

----------------------------------------------------------------------------
\* Jobs are added to a queue, or done.
ChangeQueue(q) ==
    /\ crowded' = IF q \in crowded THEN crowded \ {q} ELSE crowded \cup {q}
    /\ count' = [count EXCEPT !.since = @ \ {q}]
    /\ UNCHANGED <<counts, report, reports, errors>>

\* The semaphore is taken, and the date; rows have it once the first is inserted.
StartCount ==
    /\ count.pc = "idle"
    /\ Len(counts) < MaxCounts
    /\ counts' = Append(counts, [rows |-> {}, crowded |-> {}, since |-> crowded])
    /\ count' = [pc |-> "ask", at |-> 1, found |-> {}, since |-> crowded]
    /\ UNCHANGED <<crowded, report, reports, errors>>

\* getJobCounts asks one queue after the other.
AskQueue ==
    LET last == count.at = Len(Queue)
    IN  /\ count.pc = "ask"
        /\ count' = [count EXCEPT !.found = @ \cup ({Queue[count.at]} \cap crowded),
                                  !.at = IF last THEN 1 ELSE @ + 1,
                                  !.pc = IF last THEN "insert" ELSE "ask"]
        /\ UNCHANGED <<crowded, counts, report, reports, errors>>

\* insertToDatabase, a row of a queue after the other.
InsertCount ==
    LET run == Len(counts)
        last == count.at = Len(Queue)
    IN  /\ count.pc = "insert"
        /\ counts' = [counts EXCEPT
               ![run].rows = @ \cup {Queue[count.at]},
               ![run].crowded = @ \cup ({Queue[count.at]} \cap count.found),
               ![run].since = count.since]
        /\ count' = IF last THEN NotCounting ELSE [count EXCEPT !.at = @ + 1]
        /\ UNCHANGED <<crowded, report, reports, errors>>

\* The run throws, and what it has inserted stays.
CountThrows ==
    /\ count.pc # "idle"
    /\ errors < MaxErrors
    /\ errors' = errors + 1
    /\ count' = NotCounting
    /\ UNCHANGED <<crowded, counts, report, reports>>

\* The latest date of the rows; without any there is nothing to report.
StartReport ==
    LET dates == {i \in DOMAIN counts : counts[i].rows # {}}
    IN  /\ report.pc # "find"
        /\ reports < MaxReports
        /\ reports' = reports + 1
        /\ dates # {}
        /\ report' = [pc |-> "find", date |-> CHOOSE i \in dates : \A j \in dates : j <= i,
                      rows |-> {}, seen |-> {}]
        /\ UNCHANGED <<crowded, counts, count, errors>>

\* Mutated form of Report: it posts only if every queue is crowded.
ReportIfAll ==
    LET found == counts[report.date]
    IN  /\ report.pc = "find"
        /\ report' = [report EXCEPT !.pc = IF found.crowded = QueueName THEN "posted"
                                           ELSE "silent",
                                    !.rows = found.rows,
                                    !.seen = found.crowded]
        /\ UNCHANGED <<crowded, counts, count, reports, errors>>

\* The rows of the date: the run may have inserted more of them meanwhile.
Report ==
    LET found == counts[report.date]
    IN  /\ report.pc = "find"
        /\ report' = [report EXCEPT !.pc = IF found.crowded = {} THEN "silent" ELSE "posted",
                                    !.rows = found.rows,
                                    !.seen = found.crowded]
        /\ UNCHANGED <<crowded, counts, count, reports, errors>>

\* The request to the database or to Slack fails, and with it the run.
ReportThrows ==
    /\ report.pc = "find"
    /\ errors < MaxErrors
    /\ errors' = errors + 1
    /\ report' = [report EXCEPT !.pc = "idle"]
    /\ UNCHANGED <<crowded, counts, count, reports>>

ReportsNext ==
    \/ \E q \in QueueName : ChangeQueue(q)
    \/ StartCount \/ AskQueue \/ InsertCount \/ CountThrows
    \/ StartReport \/ Report \/ ReportThrows

----------------------------------------------------------------------------
(***************************************************************************)
(* A report that is not posted has not passed over a queue that was        *)
(* crowded all through the count it is made from, unless it came before    *)
(* the row of that queue, or the count threw before it.                    *)
(***************************************************************************)
CrowdReported ==
    report.pc = "silent" => counts[report.date].since \cap report.rows = {}
=============================================================================
