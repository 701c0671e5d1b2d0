----------------------------- MODULE JobRunner -----------------------------
(***************************************************************************)
(* The background jobs of the server: server/job/runner.go with the two    *)
(* tables it writes, job_runs (one row for every run of a job) and         *)
(* pcgw_sync_runs (one row for every manifest sync).                        *)
(*                                                                         *)
(* A job is asked for by a cron entry, by an admin's click, or by the       *)
(* bundle fetch itself (its incremental fallback).  The runner looks at a   *)
(* flag under its mutex, lets the mutex go to ask the database, takes it    *)
(* again, and starts a goroutine.  The goroutine registers its cancel       *)
(* function only later; an admin may cancel at any time; the server may     *)
(* stop or crash at any time, and a start turns every row left "running"    *)
(* into "interrupted".                                                      *)
(*                                                                         *)
(* A run n is one goroutine, its job_runs row and its pcgw_sync_runs row:   *)
(* the rows of run n are the n-th of their tables.                          *)
(***************************************************************************)
EXTENDS Naturals, FiniteSets

CONSTANTS
  PlainJobs,    \* jobs that ask the job_runs table before they start
  MaxRuns,      \* bound: runs of all jobs together
  MaxAsks,      \* bound: callers on their way at once
  MaxUpsets,    \* bound: cancels, time limits and restarts together
  MaxBacklog,   \* bound: pages the manifest can be behind
  MaxCycles,    \* autoCatchUpMaxCycles (25 in the code)
  MaxStreak     \* autoCatchUpNoProgressLimit (2 in the code)

ASSUME JobBounds ==
  /\ MaxRuns \in Nat /\ MaxAsks \in Nat /\ MaxUpsets \in Nat /\ MaxBacklog \in Nat
  /\ MaxCycles \in Nat \ {0} /\ MaxStreak \in Nat \ {0}
  /\ PlainJobs \cap {"pcgw_sync", "pcgw_bundle_fetch", "backup"} = {}

VARIABLES
  running,   \* Runner.running: the jobs flagged as running
  handles,   \* cancelFuncs, jobRunIDs and pcgwSyncRunID of each job
  jobRuns,   \* job_runs: the status of each run's row
  syncRuns,  \* pcgw_sync_runs: the status of each run's latest row
  resumable, \* an older sync row is still interrupted or failed
  runs,      \* the goroutines
  asks,      \* the callers of tryRun...: how far, and for which job
  cancelling, \* the caller of CancelPCGWSync
  upsets     \* bookkeeping of the bound MaxUpsets

jobVars == <<running, handles, jobRuns, syncRuns, resumable, runs, asks, cancelling, upsets>>

Jobs == {"pcgw_sync", "pcgw_bundle_fetch", "backup"} \cup PlainJobs
Runs == 1 .. MaxRuns

\* A row's status, as far as somebody asks for it.  Of job_runs: "ended" stands
\* for success, failed and interrupted.  Of pcgw_sync_runs: "resumable" for
\* interrupted and failed, "ended" for the others.
JobStatuses == {"none", "running", "ended", "canceled"}
SyncStatuses == {"none", "running", "ended", "resumable"}

\* What a sync was asked to do: one resumable cycle, one cycle that never
\* resumes (full, refresh, retry, missing, catalog only), or auto catch-up.
Kinds == {"incremental", "fresh", "auto"}

NoHandle == [cancel |-> 0, row |-> 0, sync |-> 0]
NoRun == [job |-> "backup", kind |-> "fresh", pc |-> "new", ctx |-> "live",
          resumed |-> FALSE, ran |-> FALSE, left |-> 0, streak |-> 0, backlog |-> 0, out |-> "ended"]
NoCancel == [pc |-> "idle", sync |-> 0, row |-> 0]

JobInit ==
  /\ running = {}
  /\ handles = [j \in Jobs |-> NoHandle]
  /\ jobRuns = [n \in Runs |-> "none"]
  /\ syncRuns = [n \in Runs |-> "none"]
  /\ resumable = FALSE
  /\ runs = [n \in Runs |-> NoRun]
  /\ asks = {}
  /\ cancelling = NoCancel
  /\ upsets = 0

LiveRun(n) == runs[n].pc \notin {"new", "ended"}
AtStep(n, pc) == runs[n].pc = pc
HasRunningJob(j) == \E n \in Runs : runs[n].job = j /\ jobRuns[n] = "running"
HasRunningPCGWSync == \E n \in Runs : syncRuns[n] = "running"
Resumable == resumable \/ \E n \in Runs : syncRuns[n] = "resumable"

\* What the database answers a job that asks whether it is already running.
DatabaseBusy(j) ==
  HasRunningJob(j) \/ (j = "pcgw_sync" /\ HasRunningPCGWSync)

Upset == upsets < MaxUpsets /\ upsets' = upsets + 1

---------------------------------------------------------------------------
(* Asking for a job. *)

\* running[job] = true, and the goroutine.
StartRun(j) ==
  \E n \in Runs, kind \in Kinds :
    /\ AtStep(n, "new") /\ \A m \in Runs : AtStep(m, "new") => n <= m
    /\ j # "pcgw_sync" => kind = "fresh"
    /\ running' = running \cup {j}
    /\ runs' = [runs EXCEPT ![n] = [NoRun EXCEPT !.job = j, !.kind = kind, !.pc = "begun",
                               !.left = IF kind = "auto" THEN MaxCycles ELSE 0]]

\* The flag is read under the mutex.  A backup starts at once.
AskFirst(j) ==
  /\ j \notin running
  /\ IF j = "backup"
       THEN StartRun(j) /\ UNCHANGED asks
       ELSE Cardinality(asks) < MaxAsks /\ asks' = asks \cup {<<"database", j>>} /\ UNCHANGED <<running, runs>>
  /\ UNCHANGED <<handles, jobRuns, syncRuns, resumable, cancelling, upsets>>

AskDatabase(j) ==
  /\ <<"database", j>> \in asks
  /\ asks' = (asks \ {<<"database", j>>}) \cup (IF DatabaseBusy(j) THEN {} ELSE {<<"start", j>>})
  /\ UNCHANGED <<running, handles, jobRuns, syncRuns, resumable, runs, cancelling, upsets>>

\* Mutant: the flag is not looked at again.
AskAgainBlind(j) ==
  /\ <<"start", j>> \in asks
  /\ StartRun(j)
  /\ \/ asks' = asks \ {<<"start", j>>}
     \/ UNCHANGED asks
  /\ UNCHANGED <<handles, jobRuns, syncRuns, resumable, cancelling, upsets>>

\* Several callers may be this far; one of them goes on.
AskAgain(j) ==
  /\ <<"start", j>> \in asks
  /\ IF j \in running THEN UNCHANGED <<running, runs>> ELSE StartRun(j)
  /\ \/ asks' = asks \ {<<"start", j>>}
     \/ j \notin running /\ UNCHANGED asks
  /\ UNCHANGED <<handles, jobRuns, syncRuns, resumable, cancelling, upsets>>

---------------------------------------------------------------------------
(* A run: what every job does. *)

Outcome(ctx) == IF ctx = "canceled" THEN "canceled" ELSE "ended"
EndsAs(n, out) ==
  runs' = [runs EXCEPT ![n] = [@ EXCEPT !.pc = "finish", !.out = out, !.kind = "fresh",
                                        !.left = 0, !.streak = 0, !.backlog = 0]]
GoTo(n, pc) == runs' = [runs EXCEPT ![n] = [@ EXCEPT !.pc = pc]]

RegisterCancel(n) ==
  /\ AtStep(n, "begun")
  /\ handles' = [handles EXCEPT ![runs[n].job].cancel = n]
  /\ GoTo(n, "log")
  /\ UNCHANGED <<running, jobRuns, syncRuns, resumable, asks, cancelling, upsets>>

\* A row is inserted through the job's context: none when it is done.
LogJobStart(n) ==
  /\ AtStep(n, "log")
  /\ IF runs[n].ctx = "live"
       THEN /\ jobRuns' = [jobRuns EXCEPT ![n] = "running"]
            /\ handles' = [handles EXCEPT ![runs[n].job].row = n]
       ELSE UNCHANGED <<jobRuns, handles>>
  /\ GoTo(n, CASE runs[n].job = "pcgw_sync" -> "resume" [] runs[n].job = "pcgw_bundle_fetch" -> "history"
               [] OTHER -> "work")
  /\ UNCHANGED <<running, syncRuns, resumable, asks, cancelling, upsets>>

\* A backup or an integrity check: it works, or fails, or sees its context end.
PlainWork(n) ==
  /\ AtStep(n, "work")
  /\ EndsAs(n, Outcome(runs[n].ctx))
  /\ UNCHANGED <<running, handles, jobRuns, syncRuns, resumable, asks, cancelling, upsets>>

\* Mutant: the end is written through the job's own context.
FinishThroughContext(n) ==
  /\ AtStep(n, "finish")
  /\ jobRuns' = IF jobRuns[n] = "none" \/ runs[n].ctx # "live" THEN jobRuns ELSE [jobRuns EXCEPT ![n] = runs[n].out]
  /\ GoTo(n, IF runs[n].job = "pcgw_bundle_fetch" THEN "finish_history" ELSE "cleanup")
  /\ UNCHANGED <<running, handles, syncRuns, resumable, asks, cancelling, upsets>>

\* finishJobRun: on a context of its own.
FinishJobRun(n) ==
  /\ AtStep(n, "finish")
  /\ jobRuns' = IF jobRuns[n] = "none" THEN jobRuns ELSE [jobRuns EXCEPT ![n] = runs[n].out]
  /\ GoTo(n, IF runs[n].job = "pcgw_bundle_fetch" THEN "finish_history" ELSE "cleanup")
  /\ UNCHANGED <<running, handles, syncRuns, resumable, asks, cancelling, upsets>>

\* What is still told of a run that ended: which job, whether it was stopped.
Ended(r) == [NoRun EXCEPT !.job = r.job, !.pc = "ended", !.ctx = r.ctx, !.resumed = r.resumed, !.ran = r.ran]

\* The deferred function: the flag and the handles go in one step.
CleanupRun(n) ==
  /\ AtStep(n, "cleanup")
  /\ running' = running \ {runs[n].job}
  /\ handles' = [handles EXCEPT ![runs[n].job] = NoHandle]
  /\ runs' = [runs EXCEPT ![n] = Ended(@)]
  /\ UNCHANGED <<jobRuns, syncRuns, resumable, asks, cancelling, upsets>>

\* The job's own time limit.
RunTimesOut(n) ==
  /\ Upset
  /\ LiveRun(n) /\ runs[n].ctx = "live" /\ runs[n].pc # "begun"
  /\ runs' = [runs EXCEPT ![n].ctx = "expired"]
  /\ UNCHANGED <<running, handles, jobRuns, syncRuns, resumable, asks, cancelling>>

---------------------------------------------------------------------------
(* The manifest sync: pcgw_sync. *)

FirstOfSync(n) == IF runs[n].kind = "auto" THEN "backlog" ELSE "cycle"

\* A run that may resume takes over an interrupted or failed row that has a
\* checkpoint: a new row, running at once, noted as pcgwSyncRunID.
ResumeRun(n) ==
  /\ AtStep(n, "resume")
  /\ \/ /\ runs[n].kind # "fresh" /\ runs[n].ctx = "live" /\ Resumable
        /\ syncRuns' = [syncRuns EXCEPT ![n] = "running"]
        /\ handles' = [handles EXCEPT !["pcgw_sync"].sync = n]
        /\ runs' = [runs EXCEPT ![n] = [@ EXCEPT !.resumed = TRUE, !.pc = FirstOfSync(n)]]
     \/ /\ GoTo(n, FirstOfSync(n))
        /\ UNCHANGED <<syncRuns, handles>>
  /\ UNCHANGED <<running, jobRuns, resumable, asks, cancelling, upsets>>

\* Auto catch-up looks at the backlog first: with none it is done.
FirstBacklog(n) ==
  /\ AtStep(n, "backlog")
  /\ \E b \in 0 .. MaxBacklog :
       CASE runs[n].ctx # "live" -> EndsAs(n, Outcome(runs[n].ctx))
         [] runs[n].ctx = "live" /\ b = 0 -> EndsAs(n, "ended")
         [] OTHER -> runs' = [runs EXCEPT ![n] = [@ EXCEPT !.pc = "cycle", !.backlog = b]]
  /\ UNCHANGED <<running, handles, jobRuns, syncRuns, resumable, asks, cancelling, upsets>>

\* PCGWSyncEx: it refuses to crawl when the build or an unseeded mirror says
\* so, before it touches a row; otherwise it starts a row unless one was
\* resumed, through the job's context.
CycleBegins(n) ==
  /\ AtStep(n, "cycle")
  /\ \/ EndsAs(n, "ended") /\ UNCHANGED <<syncRuns, resumable>>
     \/ /\ runs[n].ctx # "live" /\ (runs[n].kind = "auto" \/ ~runs[n].resumed)
        /\ EndsAs(n, Outcome(runs[n].ctx))
        /\ UNCHANGED <<syncRuns, resumable>>
     \/ /\ runs[n].ctx = "live" \/ (runs[n].kind # "auto" /\ runs[n].resumed)
        /\ syncRuns' = IF runs[n].resumed THEN syncRuns ELSE [syncRuns EXCEPT ![n] = "running"]
        /\ resumable' = (resumable \/ (~runs[n].resumed /\ syncRuns[n] = "resumable"))
        /\ runs' = [runs EXCEPT ![n] = [@ EXCEPT !.pc = "crawl", !.ran = TRUE]]
  /\ UNCHANGED <<running, handles, jobRuns, asks, cancelling, upsets>>

\* The cycle ends: done, its budget of pages spent (the row is "interrupted",
\* the cycle no error), failed, or stopped by its context.
CycleEnds(n) ==
  /\ AtStep(n, "crawl")
  /\ \E status \in {"ended", "resumable"} : syncRuns' = [syncRuns EXCEPT ![n] = status]
  /\ \/ EndsAs(n, Outcome(runs[n].ctx))
     \/ runs[n].ctx = "live" /\ runs[n].kind = "auto" /\ GoTo(n, "recheck")
  /\ UNCHANGED <<running, handles, jobRuns, resumable, asks, cancelling, upsets>>

\* Mutant: it goes on for as long as there is a backlog.
RecheckUnlimited(n) ==
  /\ AtStep(n, "recheck")
  /\ \E b \in 0 .. MaxBacklog :
       CASE runs[n].ctx # "live" -> EndsAs(n, Outcome(runs[n].ctx))
         [] runs[n].ctx = "live" /\ b = 0 -> EndsAs(n, "ended")
         [] OTHER -> runs' = [runs EXCEPT ![n] = [@ EXCEPT !.pc = "cycle", !.backlog = b]]
  /\ UNCHANGED <<running, handles, jobRuns, syncRuns, resumable, asks, cancelling, upsets>>

\* Mutant: one cycle more without progress than the limit.
RecheckOnceMore(n) ==
  /\ AtStep(n, "recheck")
  /\ \E b \in 0 .. MaxBacklog :
       LET streak == IF b < runs[n].backlog THEN 0 ELSE runs[n].streak + 1
       IN CASE runs[n].ctx # "live" -> EndsAs(n, Outcome(runs[n].ctx))
            [] runs[n].ctx = "live" /\ b = 0 -> EndsAs(n, "ended")
            [] runs[n].ctx = "live" /\ b > 0 /\ (streak > MaxStreak \/ runs[n].left = 1) -> EndsAs(n, "ended")
            [] OTHER -> runs' = [runs EXCEPT ![n] = [@ EXCEPT !.pc = "cycle", !.backlog = b,
                                                       !.streak = streak, !.left = runs[n].left - 1]]
  /\ UNCHANGED <<running, handles, jobRuns, syncRuns, resumable, asks, cancelling, upsets>>

\* After a cycle of auto catch-up: no backlog, no progress for MaxStreak
\* cycles, or MaxCycles cycles end it.
RecheckBacklog(n) ==
  /\ AtStep(n, "recheck")
  /\ \E b \in 0 .. MaxBacklog :
       LET streak == IF b < runs[n].backlog THEN 0 ELSE runs[n].streak + 1
       IN CASE runs[n].ctx # "live" -> EndsAs(n, Outcome(runs[n].ctx))
            [] runs[n].ctx = "live" /\ b = 0 -> EndsAs(n, "ended")
            [] runs[n].ctx = "live" /\ b > 0 /\ (streak = MaxStreak \/ runs[n].left = 1) -> EndsAs(n, "ended")
            [] OTHER -> runs' = [runs EXCEPT ![n] = [@ EXCEPT !.pc = "cycle", !.backlog = b,
                                                       !.streak = streak, !.left = runs[n].left - 1]]
  /\ UNCHANGED <<running, handles, jobRuns, syncRuns, resumable, asks, cancelling, upsets>>

---------------------------------------------------------------------------
(* The bundle fetch. *)

\* It records itself in the sync history too, through its context.
StartHistory(n) ==
  /\ AtStep(n, "history")
  /\ syncRuns' = IF runs[n].ctx = "live" THEN [syncRuns EXCEPT ![n] = "running"] ELSE syncRuns
  /\ GoTo(n, "fetch")
  /\ UNCHANGED <<running, handles, jobRuns, resumable, asks, cancelling, upsets>>

FetchEnds(n) ==
  /\ AtStep(n, "fetch")
  /\ \/ EndsAs(n, Outcome(runs[n].ctx))
     \/ runs[n].ctx = "live" /\ GoTo(n, "fallback")
  /\ UNCHANGED <<running, handles, jobRuns, syncRuns, resumable, asks, cancelling, upsets>>

\* The incremental fallback is asked for like any sync, inside the run.
FallbackAsks(n) ==
  /\ \/ /\ AtStep(n, "fallback")
        /\ GoTo(n, IF "pcgw_sync" \in running THEN "finish" ELSE "fallback_database")
     \/ /\ AtStep(n, "fallback_database")
        /\ GoTo(n, IF DatabaseBusy("pcgw_sync") THEN "finish" ELSE "fallback_start")
  /\ UNCHANGED <<running, handles, jobRuns, syncRuns, resumable, asks, cancelling, upsets>>

FallbackStarts(n) ==
  /\ AtStep(n, "fallback_start")
  /\ \/ /\ "pcgw_sync" \in running \/ \A m \in Runs : ~AtStep(m, "new")
        /\ GoTo(n, "finish") /\ UNCHANGED running
     \/ /\ "pcgw_sync" \notin running
        /\ \E m \in Runs :
             /\ AtStep(m, "new") /\ \A k \in Runs : AtStep(k, "new") => m <= k
             /\ running' = running \cup {"pcgw_sync"}
             /\ runs' = [runs EXCEPT ![n].pc = "finish",
                                     ![m] = [NoRun EXCEPT !.job = "pcgw_sync", !.kind = "incremental",
                                                          !.pc = "begun"]]
  /\ UNCHANGED <<handles, jobRuns, syncRuns, resumable, asks, cancelling, upsets>>

\* On a context of its own, when the row could be started.
FinishHistory(n) ==
  /\ AtStep(n, "finish_history")
  /\ syncRuns' = IF syncRuns[n] = "none" THEN syncRuns ELSE [syncRuns EXCEPT ![n] = "ended"]
  /\ GoTo(n, "cleanup")
  /\ UNCHANGED <<running, handles, jobRuns, resumable, asks, cancelling, upsets>>

---------------------------------------------------------------------------
(* Cancelling. *)

Cancelled(n) == runs' = [runs EXCEPT ![n].ctx = IF @ = "live" THEN "canceled" ELSE @]

\* CancelPCGWSync takes the cancel function and both ids under the mutex, and
\* calls the cancel function.
CancelSync ==
  LET h == handles["pcgw_sync"]
  IN /\ Upset
     /\ cancelling.pc = "idle" /\ h.cancel # 0
     /\ Cancelled(h.cancel)
     /\ cancelling' = [pc |-> "sync", sync |-> h.sync, row |-> h.row]
     /\ UNCHANGED <<running, handles, jobRuns, syncRuns, resumable, asks>>

\* It marks the row it knows, or every running row when it knows none ...
CancelMarksSync ==
  /\ cancelling.pc = "sync"
  /\ syncRuns' = [n \in Runs |-> IF n = cancelling.sync \/ (cancelling.sync = 0 /\ syncRuns[n] = "running")
                                   THEN "ended" ELSE syncRuns[n]]
  /\ cancelling' = [cancelling EXCEPT !.pc = "job"]
  /\ UNCHANGED <<running, handles, jobRuns, resumable, runs, asks, upsets>>

\* ... and the job's row.
CancelMarksJob ==
  /\ cancelling.pc = "job"
  /\ jobRuns' = IF cancelling.row = 0 THEN jobRuns ELSE [jobRuns EXCEPT ![cancelling.row] = "canceled"]
  /\ cancelling' = NoCancel
  /\ UNCHANGED <<running, handles, syncRuns, resumable, runs, asks, upsets>>

\* Shutdown: CancelAll cancels what has registered.
CancelAll ==
  /\ Upset
  /\ \E j \in Jobs : handles[j].cancel # 0
  /\ runs' = [n \in Runs |-> IF \E j \in Jobs : handles[j].cancel = n /\ runs[n].ctx = "live"
                               THEN [runs[n] EXCEPT !.ctx = "canceled"] ELSE runs[n]]
  /\ UNCHANGED <<running, handles, jobRuns, syncRuns, resumable, asks, cancelling>>

\* The process ends (a crash, or the drain that waits ten seconds at most) and
\* starts: the memory is new, rows left running are marked interrupted.
RestartServer ==
  /\ Upset
  /\ \E n \in Runs : LiveRun(n) \/ jobRuns[n] = "running" \/ syncRuns[n] = "running"
  /\ running' = {} /\ handles' = [j \in Jobs |-> NoHandle]
  /\ jobRuns' = [n \in Runs |-> IF jobRuns[n] = "running" THEN "ended" ELSE jobRuns[n]]
  /\ syncRuns' = [n \in Runs |-> IF syncRuns[n] # "running" THEN syncRuns[n]
                                ELSE IF runs[n].job = "pcgw_sync" THEN "resumable" ELSE "ended"]
  /\ runs' = [n \in Runs |-> IF LiveRun(n) THEN Ended(runs[n]) ELSE runs[n]]
  /\ asks' = {} /\ cancelling' = NoCancel
  /\ UNCHANGED resumable

RunStep(n) ==
  \/ RegisterCancel(n) \/ LogJobStart(n) \/ PlainWork(n)
  \/ ResumeRun(n) \/ FirstBacklog(n) \/ CycleBegins(n) \/ CycleEnds(n) \/ RecheckBacklog(n)
  \/ StartHistory(n) \/ FetchEnds(n) \/ FallbackAsks(n) \/ FallbackStarts(n) \/ FinishHistory(n)
  \/ FinishJobRun(n) \/ CleanupRun(n)

AskStep == \E j \in Jobs : AskFirst(j) \/ AskDatabase(j) \/ AskAgain(j)

CancelStep == CancelSync \/ CancelMarksSync \/ CancelMarksJob \/ CancelAll

JobNext ==
  \/ AskStep \/ CancelStep \/ RestartServer
  \/ \E n \in Runs : RunStep(n) \/ RunTimesOut(n)

\* Goroutines run on: every step a run can take is taken.
JobFairness == \A n \in Runs : WF_jobVars(RunStep(n))

JobSpec == JobInit /\ [][JobNext]_jobVars /\ JobFairness

---------------------------------------------------------------------------
(* Properties. *)

JobTypeOK ==
  /\ running \subseteq Jobs
  /\ handles \in [Jobs -> [cancel : 0 .. MaxRuns, row : 0 .. MaxRuns, sync : 0 .. MaxRuns]]
  /\ jobRuns \in [Runs -> JobStatuses] /\ syncRuns \in [Runs -> SyncStatuses]
  /\ resumable \in BOOLEAN /\ upsets \in 0 .. MaxUpsets
  /\ \A n \in Runs : /\ runs[n].job \in Jobs /\ runs[n].kind \in Kinds
                      /\ runs[n].left \in 0 .. MaxCycles /\ runs[n].streak \in 0 .. MaxStreak - 1
  /\ asks \subseteq {"database", "start"} \X Jobs

\* No two goroutines of one job, and the flag says exactly which jobs have one:
\* although the mutex is let go to ask the database, and a sync may be asked
\* for by a click, a cron entry and the end of a bundle fetch at once
\* (runner.go:241-267).
OneRunPerJob ==
  /\ \A j \in Jobs : j \in running <=> \E n \in Runs : LiveRun(n) /\ runs[n].job = j
  /\ \A m, n \in Runs : LiveRun(m) /\ LiveRun(n) /\ runs[m].job = runs[n].job => m = n

\* A job_runs row that says "running" has a goroutine that will still finish
\* it: otherwise HasRunningJob refuses every later run until a restart
\* (runner.go:22-28).  So has a pcgw_sync_runs row, but for one case the code
\* has: a resumed row is started before the crawl is allowed, so a run that is
\* refused (or finds no backlog, or is cancelled first) leaves it running with
\* nobody to end it.
RunningRowsAreOwned ==
  \A n \in Runs :
    LET working == LiveRun(n) /\ ~AtStep(n, "cleanup")
    IN /\ jobRuns[n] = "running" => working
       /\ syncRuns[n] = "running" => working \/ (runs[n].resumed /\ ~runs[n].ran)

\* A job that ends "canceled" was cancelled: the status an admin's cancel
\* writes late lands on the run it cancelled and on no later one
\* (runner.go:220-239).
CanceledWasAsked ==
  \A n \in Runs : jobRuns[n] = "canceled" => runs[n].ctx # "live" \/ runs[n].pc = "ended"

\* The statuses an admin reads are true of the runs, in spite of cancellations
\* and restarts.
JobRowsTellTruth == RunningRowsAreOwned /\ CanceledWasAsked

\* Every job ends: auto catch-up too, whatever the backlog does.
JobsEnd == \A n \in Runs : LiveRun(n) ~> ~LiveRun(n)
=============================================================================
