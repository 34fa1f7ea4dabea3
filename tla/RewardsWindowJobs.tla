-------------------------- MODULE RewardsWindowJobs --------------------------
(***************************************************************************)
(* The job of one rewards window: createRewardsWindowJob of RewardService, *)
(* run by a request of an operator.  A transaction reads the jobs of the   *)
(* rewards type and inserts one more; the job is then marked InProgress    *)
(* and the window is computed in the background, in a transaction of its   *)
(* own that is the including module's.  Nothing resumes the job of a       *)
(* process that died.                                                      *)
(*                                                                         *)
(* The query of the jobs calls `where` twice and the second call replaces  *)
(* the first, so it returns the jobs of every window of the type: two      *)
(* types are two tables, and this module is one of them.                   *)
(***************************************************************************)
EXTENDS Integers, Sequences

CONSTANTS
    Request,        \* requests for a window of this type
    Window,         \* [Request -> Nat] windowIndex, from 1
    MaxDate,        \* [Request -> Nat] maxDepositDate
    MaxDeaths       \* bound: processes that die under a request

ASSUME JobAssumption ==
    /\ Window \in [Request -> Nat \ {0}]
    /\ MaxDate \in [Request -> Nat]
    /\ MaxDeaths \in Nat

VARIABLES
    job,            \* [Request -> status of the job it created, or "none"]
    began,          \* requests whose transaction has begun: the order of createdAt
    step,           \* [Request -> where its handler is]
    deaths

jobVars == <<job, began, step, deaths>>

Status == {"none", "Initial", "InProgress", "Done", "Failed"}

StepName == {"new", "cleared", "created", "running", "free", "computed", "failing",
             "over", "dead"}

JobsTypeOK ==
    /\ job \in [Request -> Status]
    /\ began \in Seq(Request)
    /\ step \in [Request -> StepName]
    /\ deaths \in 0..MaxDeaths

JobsInit ==
    /\ job = [r \in Request |-> "none"]
    /\ began = <<>>
    /\ step = [r \in Request |-> "new"]
    /\ deaths = 0

----------------------------------------------------------------------------
\* A job that has not started, or the newest job still in progress.
Blocked(r) ==
    LET jobs == SelectSeq(began, LAMBDA s : job[s] # "none")
    IN  \/ \E s \in Request : job[s] = "Initial"
        \/ jobs # <<>> /\ job[jobs[Len(jobs)]] = "InProgress"

\* createNewRewardsWindowJob reads the jobs; a refused request ends.
ReadJobs(r) ==
    /\ step[r] = "new"
    /\ began' = Append(began, r)
    /\ step' = [step EXCEPT ![r] = IF Blocked(r) THEN "over" ELSE "cleared"]
    /\ UNCHANGED <<job, deaths>>

\* The insert, seen by others when the transaction commits.
InsertJob(r) ==
    /\ step[r] = "cleared"
    /\ job' = [job EXCEPT ![r] = "Initial"]
    /\ step' = [step EXCEPT ![r] = "created"]
    /\ UNCHANGED <<began, deaths>>

MarkInProgress(r) ==
    /\ step[r] = "created"
    /\ job' = [job EXCEPT ![r] = "InProgress"]
    /\ step' = [step EXCEPT ![r] = "running"]
    /\ UNCHANGED <<began, deaths>>

\* The transaction of the window first looks whether the index is `taken`, and throws.
CheckWindow(r, taken) ==
    /\ step[r] = "running"
    /\ step' = [step EXCEPT ![r] = IF taken THEN "failing" ELSE "free"]
    /\ UNCHANGED <<job, began, deaths>>

\* The transaction of the window commits.
CommitWindow(r) ==
    /\ step[r] = "free"
    /\ step' = [step EXCEPT ![r] = "computed"]
    /\ UNCHANGED <<job, began, deaths>>

\* The status the promise's then or catch gives the job.
EndJob(r) ==
    /\ step[r] \in {"computed", "failing"}
    /\ job' = [job EXCEPT ![r] = IF step[r] = "computed" THEN "Done" ELSE "Failed"]
    /\ step' = [step EXCEPT ![r] = "over"]
    /\ UNCHANGED <<began, deaths>>

\* The process dies: its transaction is rolled back, and its job keeps its status.
Die(r) ==
    /\ step[r] \notin {"new", "over", "dead"}
    /\ deaths < MaxDeaths
    /\ deaths' = deaths + 1
    /\ step' = [step EXCEPT ![r] = "dead"]
    /\ UNCHANGED <<job, began>>

\* Every step of a request but those of the transaction of the window.
JobStep(r) ==
    \/ ReadJobs(r)
    \/ InsertJob(r)
    \/ MarkInProgress(r)
    \/ EndJob(r)
    \/ Die(r)
=============================================================================
