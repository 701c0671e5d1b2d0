--------------------------- MODULE ProgressProofs ---------------------------
(***************************************************************************)
(* What TLAPS proves of the components that must get somewhere - the job    *)
(* runner, the device's token, the catalogue and the manifest -, each for any*)
(* number of runs, requests, failures and restarts, and of the four together.*)
(***************************************************************************)
EXTENDS MCProgress, Integers, SequenceTheorems, FiniteSetTheorems, WellFoundedInduction,
        NaturalsInduction, TLAPS

---------------------------------------------------------------------------
(* The job runner: no job runs twice at once, and the statuses of the rows  *)
(* are true of the goroutines.                                              *)

Pcs == {"new", "begun", "log", "work", "resume", "backlog", "cycle", "crawl", "recheck",
        "history", "fetch", "fallback", "fallback_database", "fallback_start",
        "finish", "finish_history", "cleanup", "ended"}

\* The steps of a bundle fetch at which its own sync row may be running.
FetchSteps == {"fetch", "fallback", "fallback_database", "fallback_start", "finish", "finish_history"}

RunRecords ==
  [job : Jobs, kind : Kinds, pc : Pcs, ctx : {"live", "canceled", "expired"}, resumed : BOOLEAN,
   ran : BOOLEAN, left : Int, streak : Int, backlog : Int, out : {"ended", "canceled"}]

\* What neither the end of the work nor the next cycle changes.
SameRun(r, q) == r.job = q.job /\ r.ctx = q.ctx /\ r.resumed = q.resumed /\ r.ran = q.ran

RunTypes == runs \in [Runs -> RunRecords]
RowTypes == jobRuns \in [Runs -> JobStatuses] /\ syncRuns \in [Runs -> SyncStatuses]
HandleTypes == handles \in [Jobs -> [cancel : 0 .. MaxRuns, row : 0 .. MaxRuns, sync : 0 .. MaxRuns]]
CancelTypes == cancelling \in [pc : {"idle", "sync", "job"}, sync : 0 .. MaxRuns, row : 0 .. MaxRuns]

\* A job's handles are those of its goroutine, once that has registered.
HandleInv ==
  /\ \A j \in Jobs : handles[j].cancel # 0 =>
       LiveRun(handles[j].cancel) /\ runs[handles[j].cancel].job = j /\ ~AtStep(handles[j].cancel, "begun")
  /\ \A j \in Jobs : handles[j].row # 0 => handles[j].row = handles[j].cancel
  /\ \A n \in Runs : LiveRun(n) /\ ~AtStep(n, "begun") => handles[runs[n].job].cancel = n

\* The run was stopped, or is over.
Stopped(n) == AtStep(n, "ended") \/ (~AtStep(n, "new") /\ runs[n].ctx # "live")

JobRowInv ==
  \A n \in Runs :
    /\ jobRuns[n] = "running" => LiveRun(n) /\ ~AtStep(n, "finish_history") /\ ~AtStep(n, "cleanup")
    /\ jobRuns[n] = "canceled" => Stopped(n)
    /\ runs[n].out = "canceled" => runs[n].ctx # "live"

SyncRowInv ==
  \A n \in Runs :
    /\ syncRuns[n] = "running" =>
         /\ ~AtStep(n, "new")
         /\ \/ AtStep(n, "crawl")
            \/ runs[n].resumed /\ ~runs[n].ran
            \/ runs[n].job = "pcgw_bundle_fetch" /\ runs[n].pc \in FetchSteps
    /\ runs[n].pc \in (FetchSteps \ {"finish"}) \cup {"history"} => runs[n].job = "pcgw_bundle_fetch"
    /\ runs[n].pc \in {"begun", "log", "resume"} => ~runs[n].ran

\* A late write of the cancelling admin lands on a run that was stopped.
CancelInv == cancelling.row # 0 => Stopped(cancelling.row)

JobInv ==
  /\ RunTypes /\ RowTypes /\ HandleTypes /\ CancelTypes
  /\ OneRunPerJob /\ HandleInv /\ JobRowInv /\ SyncRowInv /\ CancelInv

\* What a row may say of a run that is at a step.
JobRowFits(status, r) ==
  /\ status = "running" => r.pc \notin {"new", "finish_history", "cleanup", "ended"}
  /\ status = "canceled" => r.ctx # "live"
SyncRowFits(status, r) ==
  /\ status = "running" =>
       \/ r.pc = "crawl"
       \/ r.resumed /\ ~r.ran
       \/ r.job = "pcgw_bundle_fetch" /\ r.pc \in FetchSteps
  /\ r.pc \in {"begun", "log", "resume"} => ~r.ran

\* What the invariant says of the rows of one run.
LEMMA RowsOf ==
  ASSUME JobInv, NEW n \in Runs
  PROVE  /\ runs[n] \in RunRecords /\ RowTypes
         /\ runs[n].out = "canceled" => runs[n].ctx # "live"
         /\ jobRuns[n] = "canceled" /\ LiveRun(n) => runs[n].ctx # "live"
         /\ jobRuns[n] = "running" => runs[n].pc \notin {"finish_history", "cleanup"}
         /\ SyncRowFits(syncRuns[n], runs[n])
         /\ runs[n].pc \in (FetchSteps \ {"finish"}) \cup {"history"} => runs[n].job = "pcgw_bundle_fetch"
  BY DEF JobInv, RunTypes, JobRowInv, SyncRowInv, SyncRowFits, Stopped, LiveRun, AtStep

LEMMA RunsArePositive == 0 \notin Runs /\ Runs \subseteq 0 .. MaxRuns
  BY JobBounds DEF Runs

---------------------------------------------------------------------------
\* A goroutine that goes on: it stays the one of its job.
LEMMA Moves ==
  ASSUME JobInv, NEW n \in Runs, NEW r \in RunRecords, LiveRun(n),
         r.job = runs[n].job, r.pc \notin {"new", "begun", "ended"},
         r.ctx = "live" => runs[n].ctx = "live",
         runs' = [runs EXCEPT ![n] = r], running' = running
  PROVE  /\ RunTypes' /\ OneRunPerJob'
         /\ runs'[n] = r /\ \A m \in Runs : m # n => runs'[m] = runs[m]
         /\ \A m \in Runs : LiveRun(m)' <=> LiveRun(m)
         /\ \A m \in Runs : runs'[m].job = runs[m].job
         /\ \A m \in Runs : Stopped(m) => Stopped(m)'
  <1>1. RunTypes /\ OneRunPerJob
    BY DEF JobInv
  <1>2. runs'[n] = r /\ \A m \in Runs : m # n => runs'[m] = runs[m]
    BY <1>1 DEF RunTypes
  <1>3. RunTypes'
    BY <1>1 DEF RunTypes, RunRecords
  <1>4. \A m \in Runs : LiveRun(m)' <=> LiveRun(m)
    BY <1>2 DEF LiveRun
  <1>5. \A m \in Runs : runs'[m].job = runs[m].job
    BY <1>2
  <1>6. \A m \in Runs : Stopped(m) => Stopped(m)'
    BY <1>2 DEF Stopped, AtStep, LiveRun
  <1>7. OneRunPerJob'
    BY <1>1, <1>4, <1>5 DEF OneRunPerJob
  <1> QED
    BY <1>2, <1>3, <1>4, <1>5, <1>6, <1>7

\* A step may note the row that goes with the registered function.
HandlesKeep ==
  /\ HandleTypes'
  /\ \A j \in Jobs : /\ handles'[j].cancel = handles[j].cancel
                     /\ handles'[j].row \in {handles[j].row, handles[j].cancel}

LEMMA HandlesUnchanged ==
  ASSUME JobInv, handles' = handles
  PROVE  HandlesKeep
  BY DEF JobInv, HandlesKeep, HandleTypes

\* Its job's handles are then still right.
LEMMA HandlesStay ==
  ASSUME JobInv, NEW n \in Runs, NEW r \in RunRecords, LiveRun(n), ~AtStep(n, "begun"),
         r.job = runs[n].job, r.pc \notin {"new", "begun", "ended"},
         r.ctx = "live" => runs[n].ctx = "live",
         runs' = [runs EXCEPT ![n] = r], running' = running,
         HandlesKeep, cancelling' = cancelling
  PROVE  HandleTypes' /\ CancelTypes' /\ HandleInv' /\ CancelInv'
  <1>1. HandleTypes /\ CancelTypes /\ HandleInv /\ CancelInv
    BY DEF JobInv
  <1>2. /\ runs'[n] = r /\ \A m \in Runs : m # n => runs'[m] = runs[m]
        /\ \A m \in Runs : LiveRun(m)' <=> LiveRun(m)
        /\ \A m \in Runs : runs'[m].job = runs[m].job
        /\ \A m \in Runs : Stopped(m) => Stopped(m)'
    BY Moves
  <1>3. \A m \in Runs : AtStep(m, "begun")' <=> AtStep(m, "begun")
    BY <1>2 DEF AtStep
  <1>4. HandleTypes' /\ CancelTypes'
    BY <1>1 DEF HandlesKeep, CancelTypes
  <1>5. \A j \in Jobs : handles[j].cancel # 0 => handles[j].cancel \in Runs
    BY <1>1, JobBounds DEF HandleTypes, Runs
  <1>6. HandleInv'
    <2>1. ASSUME NEW j \in Jobs, handles'[j].cancel # 0
          PROVE  \E k \in Runs : k = handles'[j].cancel /\ LiveRun(k)' /\ runs'[k].job = j /\ ~AtStep(k, "begun")'
      BY <2>1, <1>1, <1>2, <1>3, <1>5 DEF HandleInv, HandlesKeep
    <2>2. \A j \in Jobs : handles'[j].row # 0 => handles'[j].row = handles'[j].cancel
      BY <1>1 DEF HandleInv, HandlesKeep
    <2>3. \A m \in Runs : LiveRun(m)' /\ ~AtStep(m, "begun")' => handles'[runs'[m].job].cancel = m
      BY <1>1, <1>2, <1>3, RowsOf DEF HandleInv, HandlesKeep, RunRecords
    <2> QED
      BY <2>1, <2>2, <2>3 DEF HandleInv
  <1>7. cancelling.row # 0 => cancelling.row \in Runs
    BY <1>1, JobBounds DEF CancelTypes, Runs
  <1>8. CancelInv'
    BY <1>1, <1>2, <1>7 DEF CancelInv
  <1> QED
    BY <1>4, <1>6, <1>8

---------------------------------------------------------------------------
\* Other runs stay, or a bundle fetch leaves its fallback behind.
Onward(k) ==
  \/ runs'[k] = runs[k]
  \/ /\ AtStep(k, "fallback_start") /\ runs'[k].pc = "finish"
     /\ SameRun(runs'[k], runs[k]) /\ runs'[k].out = runs[k].out

\* A new goroutine, for a job that has none.
LEMMA Starts ==
  ASSUME JobInv, NEW m \in Runs, NEW r \in RunRecords, AtStep(m, "new"), r.pc = "begun", r.out = "ended", ~r.ran,
         r.job \notin running, running' = running \cup {r.job},
         RunTypes', runs'[m] = r, \A k \in Runs : k # m => Onward(k),
         UNCHANGED <<handles, jobRuns, syncRuns, cancelling>>
  PROVE  JobInv'
  <1>1. RunTypes /\ RowTypes /\ HandleTypes /\ CancelTypes /\ OneRunPerJob /\ HandleInv /\ JobRowInv
        /\ SyncRowInv /\ CancelInv
    BY DEF JobInv
  <1>2. \A k \in Runs : k # m => (LiveRun(k)' <=> LiveRun(k)) /\ (AtStep(k, "begun")' <=> AtStep(k, "begun"))
    BY DEF Onward, LiveRun, AtStep
  <1>3. LiveRun(m)' /\ ~LiveRun(m)
    BY DEF LiveRun, AtStep
  <1>j. \A k \in Runs : k # m => runs'[k].job = runs[k].job
    BY DEF Onward, SameRun
  <1>4. RowTypes' /\ HandleTypes' /\ CancelTypes'
    BY <1>1 DEF RowTypes, HandleTypes, CancelTypes
  <1>5. \A k \in Runs : LiveRun(k) => runs[k].job # r.job
    BY <1>1, r.job \in Jobs DEF OneRunPerJob, RunTypes, RunRecords
  <1>6. OneRunPerJob'
    <2>1. \A j \in Jobs : j \in running' <=> \E n \in Runs : LiveRun(n)' /\ runs'[n].job = j
      <3> SUFFICES ASSUME NEW j \in Jobs
                   PROVE  j \in running' <=> \E n \in Runs : LiveRun(n)' /\ runs'[n].job = j
        OBVIOUS
      <3>1. CASE j = r.job
        BY <3>1, <1>3
      <3>2. CASE j # r.job
        <4>1. j \in running' <=> j \in running
          BY <3>2
        <4>2. \A n \in Runs : LiveRun(n)' /\ runs'[n].job = j <=> LiveRun(n) /\ runs[n].job = j
          BY <3>2, <1>2, <1>3, <1>j
        <4> QED
          BY <4>1, <4>2, <1>1 DEF OneRunPerJob
      <3> QED
        BY <3>1, <3>2
    <2>2. \A n, k \in Runs : LiveRun(n)' /\ LiveRun(k)' /\ runs'[n].job = runs'[k].job => n = k
      BY <1>1, <1>2, <1>3, <1>5, <1>j DEF OneRunPerJob
    <2> QED
      BY <2>1, <2>2 DEF OneRunPerJob
  <1>7. \A j \in Jobs : handles[j].cancel # 0 => handles[j].cancel \in Runs /\ handles[j].cancel # m
    BY <1>1, <1>3, JobBounds DEF HandleTypes, HandleInv, Runs
  <1>8. HandleInv'
    <2>1. \A j \in Jobs : handles[j].cancel # 0 =>
            \E k \in Runs : k = handles[j].cancel /\ LiveRun(k)' /\ runs'[k].job = j /\ ~AtStep(k, "begun")'
      BY <1>1, <1>2, <1>7, <1>j DEF HandleInv
    <2>2. \A n \in Runs : LiveRun(n)' /\ ~AtStep(n, "begun")' => handles[runs'[n].job].cancel = n
      BY <1>1, <1>2, <1>j DEF HandleInv, AtStep
    <2> QED
      BY <2>1, <2>2, <1>1 DEF HandleInv
  <1>9. \A n \in Runs : Stopped(n) => n # m /\ Stopped(n)'
    BY DEF Stopped, AtStep, Onward, SameRun
  <1>10. JobRowInv'
    <2>1. \A n \in Runs : n # m => (jobRuns[n] = "running" => LiveRun(n)' /\ ~AtStep(n, "finish_history")' /\ ~AtStep(n, "cleanup")')
      BY <1>1 DEF JobRowInv, Onward, AtStep, LiveRun
    <2>2. \A n \in Runs : runs'[n].out = "canceled" => runs'[n].ctx # "live"
      BY <1>1 DEF JobRowInv, Onward, SameRun
    <2>3. jobRuns[m] # "running"
      BY <1>1, <1>3 DEF JobRowInv
    <2> QED
      BY <1>1, <1>9, <2>1, <2>2, <2>3 DEF JobRowInv
  <1>11. SyncRowInv'
    <2>1. ASSUME NEW n \in Runs, n # m, runs'[n] # runs[n]
          PROVE  /\ runs[n].job = "pcgw_bundle_fetch" /\ runs'[n].job = "pcgw_bundle_fetch"
                 /\ runs'[n].pc = "finish" /\ "finish" \in FetchSteps
      BY <2>1, <1>1 DEF SyncRowInv, Onward, AtStep, SameRun, FetchSteps
    <2>2. ASSUME NEW n \in Runs, n # m
          PROVE  /\ syncRuns[n] = "running" =>
                      /\ ~AtStep(n, "new")'
                      /\ \/ AtStep(n, "crawl")'
                         \/ runs'[n].resumed /\ ~runs'[n].ran
                         \/ runs'[n].job = "pcgw_bundle_fetch" /\ runs'[n].pc \in FetchSteps
                 /\ runs'[n].pc \in (FetchSteps \ {"finish"}) \cup {"history"} => runs'[n].job = "pcgw_bundle_fetch"
                 /\ runs'[n].pc \in {"begun", "log", "resume"} => ~runs'[n].ran
      <3>1. CASE runs'[n] = runs[n]
        BY <3>1, <1>1 DEF SyncRowInv, AtStep
      <3>2. CASE runs'[n] # runs[n]
        BY <3>2, <2>1, <2>2 DEF AtStep
      <3> QED
        BY <3>1, <3>2
    <2>3. syncRuns[m] # "running" /\ runs'[m].pc \notin FetchSteps \cup {"history"} /\ ~runs'[m].ran
      BY <1>1 DEF SyncRowInv, AtStep, FetchSteps
    <2>4. syncRuns' = syncRuns
      OBVIOUS
    <2>5. ASSUME NEW n \in Runs, n = m
          PROVE  /\ syncRuns[n] # "running"
                 /\ runs'[n].pc \notin (FetchSteps \ {"finish"}) \cup {"history"} /\ ~runs'[n].ran
      BY <2>3, <2>5
    <2>6. ASSUME NEW n \in Runs
          PROVE  /\ syncRuns'[n] = "running" =>
                      /\ ~AtStep(n, "new")'
                      /\ \/ AtStep(n, "crawl")'
                         \/ runs'[n].resumed /\ ~runs'[n].ran
                         \/ runs'[n].job = "pcgw_bundle_fetch" /\ runs'[n].pc \in FetchSteps
                 /\ runs'[n].pc \in (FetchSteps \ {"finish"}) \cup {"history"} => runs'[n].job = "pcgw_bundle_fetch"
                 /\ runs'[n].pc \in {"begun", "log", "resume"} => ~runs'[n].ran
      <3>1. CASE n = m
        BY <3>1, <2>4, <2>5
      <3>2. CASE n # m
        BY <3>2, <2>2, <2>4
      <3> QED
        BY <3>1, <3>2
    <2> QED
      BY <2>6 DEF SyncRowInv
  <1>12. CancelInv'
    BY <1>1, <1>9, JobBounds DEF CancelInv, CancelTypes, Runs
  <1> QED
    BY <1>4, <1>6, <1>8, <1>10, <1>11, <1>12 DEF JobInv

---------------------------------------------------------------------------
(* The steps of a run that has registered its cancel function. *)

\* One run moves, with its rows.
LEMMA StepAndNote ==
  ASSUME JobInv, NEW n \in Runs, NEW r \in RunRecords, LiveRun(n), ~AtStep(n, "begun"),
         r.job = runs[n].job, r.pc \notin {"new", "begun", "ended"},
         r.ctx = "live" => runs[n].ctx = "live",
         r.out = "canceled" => r.ctx # "live",
         r.pc \in (FetchSteps \ {"finish"}) \cup {"history"} => r.job = "pcgw_bundle_fetch",
         runs' = [runs EXCEPT ![n] = r],
         UNCHANGED <<running, cancelling>>, HandlesKeep, RowTypes',
         \A m \in Runs : m # n => jobRuns'[m] = jobRuns[m] /\ syncRuns'[m] = syncRuns[m],
         JobRowFits(jobRuns'[n], r), SyncRowFits(syncRuns'[n], r)
  PROVE  JobInv'
  <1>1. JobRowInv /\ SyncRowInv
    BY DEF JobInv
  <1>2. HandleTypes' /\ CancelTypes' /\ HandleInv' /\ CancelInv'
    BY HandlesStay
  <1>3. /\ RunTypes' /\ OneRunPerJob'
        /\ runs'[n] = r /\ \A m \in Runs : m # n => runs'[m] = runs[m]
        /\ \A m \in Runs : Stopped(m) => Stopped(m)'
    BY Moves
  <1>4. JobRowInv'
    <2>1. /\ jobRuns'[n] = "running" => LiveRun(n)' /\ ~AtStep(n, "finish_history")' /\ ~AtStep(n, "cleanup")'
          /\ jobRuns'[n] = "canceled" => Stopped(n)'
          /\ runs'[n].out = "canceled" => runs'[n].ctx # "live"
      BY <1>3 DEF JobRowFits, LiveRun, AtStep, Stopped
    <2> QED
      BY <1>1, <1>3, <2>1 DEF JobRowInv, LiveRun, AtStep
  <1>5. SyncRowInv'
    <2>1. /\ syncRuns'[n] = "running" =>
               /\ ~AtStep(n, "new")'
               /\ \/ AtStep(n, "crawl")'
                  \/ runs'[n].resumed /\ ~runs'[n].ran
                  \/ runs'[n].job = "pcgw_bundle_fetch" /\ runs'[n].pc \in FetchSteps
          /\ runs'[n].pc \in (FetchSteps \ {"finish"}) \cup {"history"} => runs'[n].job = "pcgw_bundle_fetch"
          /\ runs'[n].pc \in {"begun", "log", "resume"} => ~runs'[n].ran
      BY <1>3 DEF SyncRowFits, AtStep
    <2> QED
      BY <1>1, <1>3, <2>1 DEF SyncRowInv, AtStep
  <1> QED
    BY <1>2, <1>3, <1>4, <1>5 DEF JobInv

\* One run moves, and the handles stay.
LEMMA StepKeeps ==
  ASSUME JobInv, NEW n \in Runs, NEW r \in RunRecords, LiveRun(n), ~AtStep(n, "begun"),
         r.job = runs[n].job, r.pc \notin {"new", "begun", "ended"},
         r.ctx = "live" => runs[n].ctx = "live",
         r.out = "canceled" => r.ctx # "live",
         r.pc \in (FetchSteps \ {"finish"}) \cup {"history"} => r.job = "pcgw_bundle_fetch",
         runs' = [runs EXCEPT ![n] = r],
         UNCHANGED <<running, handles, cancelling>>, RowTypes',
         \A m \in Runs : m # n => jobRuns'[m] = jobRuns[m] /\ syncRuns'[m] = syncRuns[m],
         JobRowFits(jobRuns'[n], r), SyncRowFits(syncRuns'[n], r)
  PROVE  JobInv'
  BY HandlesUnchanged, StepAndNote

\* A run that only goes to another step.
LEMMA GoesOn ==
  ASSUME NEW q \in RunRecords, NEW pc \in Pcs, NEW r, r = [q EXCEPT !.pc = pc]
  PROVE  r \in RunRecords /\ SameRun(r, q) /\ r.pc = pc /\ r.out = q.out
  BY DEF RunRecords, SameRun

\* What is left of a run.
LEMMA EndedRecord ==
  ASSUME NEW q \in RunRecords
  PROVE  Ended(q) \in RunRecords /\ Ended(q).pc = "ended" /\ Ended(q).out = "ended" /\ SameRun(Ended(q), q)
  <1> DEFINE r1 == [NoRun EXCEPT !.job = q.job, !.pc = "ended", !.ctx = q.ctx]
             r2 == [r1 EXCEPT !.resumed = q.resumed]
             r3 == [r2 EXCEPT !.ran = q.ran]
  <1>1. NoRun \in RunRecords /\ NoRun.out = "ended"
    BY DEF NoRun, RunRecords, Jobs, Kinds, Pcs
  <1>2. "ended" \in Pcs
    BY DEF Pcs
  <1>3. r1 \in RunRecords /\ r1.pc = "ended" /\ r1.out = "ended" /\ r1.job = q.job /\ r1.ctx = q.ctx
    BY <1>1, <1>2 DEF RunRecords
  <1>4. Ended(q) = r3
    BY DEF Ended
  <1> HIDE DEF r1
  <1>5. /\ r2 \in RunRecords /\ r2.pc = "ended" /\ r2.out = "ended" /\ r2.job = q.job /\ r2.ctx = q.ctx
        /\ r2.resumed = q.resumed
    BY <1>3 DEF RunRecords
  <1> HIDE DEF r2
  <1>6. /\ r3 \in RunRecords /\ r3.pc = "ended" /\ r3.out = "ended" /\ r3.job = q.job /\ r3.ctx = q.ctx
        /\ r3.resumed = q.resumed /\ r3.ran = q.ran
    BY <1>5 DEF RunRecords
  <1> QED
    BY <1>4, <1>6 DEF SameRun

\* A run whose work ends.
LEMMA WorkEnds ==
  ASSUME NEW q \in RunRecords, NEW out \in {"ended", "canceled"}, NEW r,
         r = [q EXCEPT !.pc = "finish", !.out = out, !.kind = "fresh",
                       !.left = 0, !.streak = 0, !.backlog = 0]
  PROVE  r \in RunRecords /\ SameRun(r, q) /\ r.pc = "finish" /\ r.out = out
  <1> DEFINE r1 == [q EXCEPT !.pc = "finish", !.out = out, !.kind = "fresh"]
             r2 == [r1 EXCEPT !.left = 0]
             r3 == [r2 EXCEPT !.streak = 0]
  <1>1. q \in RunRecords /\ "fresh" \in Kinds /\ "finish" \in Pcs
    BY DEF Kinds, Pcs
  <1>2. r1 \in RunRecords /\ r1.pc = "finish" /\ r1.out = out /\ SameRun(r1, q)
    BY <1>1 DEF RunRecords, SameRun
  <1>3. r = [r3 EXCEPT !.backlog = 0]
    OBVIOUS
  <1> HIDE DEF r1
  <1>4. r2 \in RunRecords /\ r2.pc = "finish" /\ r2.out = out /\ SameRun(r2, q)
    BY <1>2 DEF RunRecords, SameRun
  <1> HIDE DEF r2
  <1>5. r3 \in RunRecords /\ r3.pc = "finish" /\ r3.out = out /\ SameRun(r3, q)
    BY <1>4 DEF RunRecords, SameRun
  <1> HIDE DEF r3
  <1>6. r \in RunRecords /\ r.pc = "finish" /\ r.out = out /\ SameRun(r, q)
    BY <1>3, <1>5 DEF RunRecords, SameRun
  <1> QED
    BY <1>6

\* It goes to another step with its rows as they are.
LEMMA GoingKeeps ==
  ASSUME JobInv, NEW n \in Runs, LiveRun(n), ~AtStep(n, "begun"),
         NEW pc \in Pcs \ {"new", "begun", "log", "resume", "finish_history", "cleanup", "ended"}, GoTo(n, pc),
         pc \in (FetchSteps \ {"finish"}) \cup {"history"} => runs[n].job = "pcgw_bundle_fetch",
         runs[n].pc \in FetchSteps => pc \in FetchSteps, ~AtStep(n, "crawl"),
         UNCHANGED <<running, handles, cancelling, jobRuns, syncRuns>>
  PROVE  JobInv'
  <1> DEFINE r == [runs[n] EXCEPT !.pc = pc]
  <1>1. r \in RunRecords /\ SameRun(r, runs[n]) /\ r.pc = pc /\ r.out = runs[n].out
    BY RowsOf, GoesOn
  <1>2. runs' = [runs EXCEPT ![n] = r]
    BY DEF GoTo
  <1> HIDE DEF r
  <1>3. /\ RowTypes' /\ JobRowFits(jobRuns'[n], r) /\ SyncRowFits(syncRuns'[n], r)
        /\ r.out = "canceled" => r.ctx # "live"
    BY <1>1, RowsOf DEF RowTypes, JobRowFits, SyncRowFits, SameRun, AtStep
  <1> QED
    BY <1>1, <1>2, <1>3, StepKeeps DEF SameRun

\* Its work ends.
LEMMA EndingKeeps ==
  ASSUME JobInv, NEW n \in Runs, LiveRun(n), ~AtStep(n, "begun"),
         EndsAs(n, "ended") \/ EndsAs(n, Outcome(runs[n].ctx)),
         UNCHANGED <<running, handles, cancelling, jobRuns>>, RowTypes',
         \A m \in Runs : m # n => syncRuns'[m] = syncRuns[m],
         \/ syncRuns' = syncRuns /\ ~AtStep(n, "crawl")
         \/ syncRuns'[n] # "running",
         runs[n].pc \notin {"cleanup", "finish_history"}
  PROVE  JobInv'
  <1>1. PICK out \in {"ended", "canceled"} : EndsAs(n, out) /\ (out = "canceled" => runs[n].ctx # "live")
    BY DEF Outcome
  <1> DEFINE r == [runs[n] EXCEPT !.pc = "finish", !.out = out, !.kind = "fresh",
                                  !.left = 0, !.streak = 0, !.backlog = 0]
  <1>2. runs' = [runs EXCEPT ![n] = r]
    BY <1>1 DEF EndsAs
  <1>r. r = [runs[n] EXCEPT !.pc = "finish", !.out = out, !.kind = "fresh",
                            !.left = 0, !.streak = 0, !.backlog = 0]
    OBVIOUS
  <1> HIDE DEF r
  <1>q. runs[n] \in RunRecords
    BY RowsOf
  <1>3. r \in RunRecords /\ SameRun(r, runs[n]) /\ r.pc = "finish" /\ r.out = out
    BY <1>r, <1>q, WorkEnds, Zenon
  <1>4. /\ JobRowFits(jobRuns'[n], r)
        /\ r.out = "canceled" => r.ctx # "live"
    BY <1>1, <1>3, RowsOf DEF JobRowFits, SameRun
  <1>5. SyncRowFits(syncRuns'[n], r)
    BY <1>3, RowsOf DEF SyncRowFits, SameRun, AtStep, FetchSteps
  <1>6. r.pc \notin {"new", "begun", "ended"} /\ r.pc \notin (FetchSteps \ {"finish"}) \cup {"history"}
    BY <1>3
  <1>7. /\ UNCHANGED <<running, handles, cancelling>>
        /\ \A m \in Runs : m # n => jobRuns'[m] = jobRuns[m] /\ syncRuns'[m] = syncRuns[m]
    OBVIOUS
  <1> QED
    BY <1>2, <1>3, <1>4, <1>5, <1>6, <1>7, StepKeeps DEF SameRun

---------------------------------------------------------------------------
(* What every job does. *)

LEMMA PlainWorkKeeps ==
  ASSUME JobInv, NEW n \in Runs, PlainWork(n)
  PROVE  JobInv'
  <1>1. RowTypes'
    BY DEF PlainWork, JobInv, RowTypes
  <1> QED
    BY <1>1, EndingKeeps DEF PlainWork, AtStep, LiveRun

LEMMA FinishJobRunKeeps ==
  ASSUME JobInv, NEW n \in Runs, FinishJobRun(n)
  PROVE  JobInv'
  <1> DEFINE pc == IF runs[n].job = "pcgw_bundle_fetch" THEN "finish_history" ELSE "cleanup"
             r == [runs[n] EXCEPT !.pc = pc]
  <1>1. /\ runs[n].pc = "finish" /\ runs' = [runs EXCEPT ![n] = r]
        /\ UNCHANGED <<running, handles, syncRuns, cancelling>>
        /\ jobRuns' = IF jobRuns[n] = "none" THEN jobRuns ELSE [jobRuns EXCEPT ![n] = runs[n].out]
    BY DEF FinishJobRun, AtStep, GoTo
  <1>0. \/ pc = "finish_history" /\ runs[n].job = "pcgw_bundle_fetch"
        \/ pc = "cleanup" /\ runs[n].job # "pcgw_bundle_fetch"
    OBVIOUS
  <1> HIDE DEF pc
  <1>2. r = [runs[n] EXCEPT !.pc = pc]
    OBVIOUS
  <1> HIDE DEF r
  <1>3. pc \in Pcs
    BY <1>0 DEF Pcs
  <1>4. r \in RunRecords /\ SameRun(r, runs[n]) /\ r.pc = pc /\ r.out = runs[n].out
    BY <1>2, <1>3, RowsOf, GoesOn
  <1>5. runs[n].out \in {"ended", "canceled"} /\ RowTypes
    BY RowsOf DEF RunRecords
  <1>6. RowTypes'
    BY <1>1, <1>5 DEF RowTypes, JobStatuses
  <1>7. /\ jobRuns'[n] \in {"none", "ended", "canceled"}
        /\ jobRuns'[n] = "canceled" => runs[n].out = "canceled"
        /\ \A m \in Runs : m # n => jobRuns'[m] = jobRuns[m] /\ syncRuns'[m] = syncRuns[m]
    BY <1>1, <1>5 DEF RowTypes
  <1>8. /\ JobRowFits(jobRuns'[n], r)
        /\ r.out = "canceled" => r.ctx # "live"
    BY <1>4, <1>7, RowsOf DEF JobRowFits, SameRun
  <1>9. SyncRowFits(syncRuns'[n], r)
    BY <1>0, <1>1, <1>4, RowsOf DEF SyncRowFits, SameRun, FetchSteps
  <1>10. LiveRun(n) /\ ~AtStep(n, "begun") /\ r.pc \notin {"new", "begun", "ended"}
    BY <1>0, <1>1, <1>4 DEF LiveRun, AtStep
  <1>11. r.pc \in (FetchSteps \ {"finish"}) \cup {"history"} => r.job = "pcgw_bundle_fetch"
    BY <1>0, <1>1, <1>4 DEF FetchSteps, SameRun
  <1> QED
    BY <1>1, <1>4, <1>6, <1>7, <1>8, <1>9, <1>10, <1>11, StepKeeps DEF SameRun

LEMMA FinishHistoryKeeps ==
  ASSUME JobInv, NEW n \in Runs, FinishHistory(n)
  PROVE  JobInv'
  <1> DEFINE r == [runs[n] EXCEPT !.pc = "cleanup"]
  <1>1. /\ runs[n].pc = "finish_history" /\ runs' = [runs EXCEPT ![n] = r]
        /\ UNCHANGED <<running, handles, jobRuns, cancelling>>
        /\ syncRuns' = IF syncRuns[n] = "none" THEN syncRuns ELSE [syncRuns EXCEPT ![n] = "ended"]
    BY DEF FinishHistory, AtStep, GoTo
  <1>2. r = [runs[n] EXCEPT !.pc = "cleanup"]
    OBVIOUS
  <1> HIDE DEF r
  <1>3. r \in RunRecords /\ SameRun(r, runs[n]) /\ r.pc = "cleanup" /\ r.out = runs[n].out
    BY <1>2, RowsOf, GoesOn DEF Pcs
  <1>4. RowTypes'
    BY <1>1, RowsOf DEF RowTypes, SyncStatuses
  <1>5. /\ syncRuns'[n] # "running"
        /\ \A m \in Runs : m # n => jobRuns'[m] = jobRuns[m] /\ syncRuns'[m] = syncRuns[m]
    BY <1>1, RowsOf DEF RowTypes
  <1>6. LiveRun(n) /\ ~AtStep(n, "begun") /\ r.pc \notin {"new", "begun", "ended"}
    BY <1>1, <1>3 DEF LiveRun, AtStep
  <1>7. /\ JobRowFits(jobRuns'[n], r)
        /\ r.out = "canceled" => r.ctx # "live"
    BY <1>1, <1>3, <1>6, RowsOf DEF JobRowFits, SameRun
  <1>8. SyncRowFits(syncRuns'[n], r) /\ r.pc \notin (FetchSteps \ {"finish"}) \cup {"history"}
    BY <1>3, <1>5 DEF SyncRowFits, FetchSteps
  <1> QED
    BY <1>1, <1>3, <1>4, <1>5, <1>6, <1>7, <1>8, StepKeeps DEF SameRun

\* The handles of the job become those of the run that registers.
LEMMA RegisterCancelKeeps ==
  ASSUME JobInv, NEW n \in Runs, RegisterCancel(n)
  PROVE  JobInv'
  <1> DEFINE r == [runs[n] EXCEPT !.pc = "log"]
             j == runs[n].job
  <1>1. /\ runs[n].pc = "begun" /\ runs' = [runs EXCEPT ![n] = r]
        /\ handles' = [handles EXCEPT ![j].cancel = n]
        /\ UNCHANGED <<running, jobRuns, syncRuns, cancelling>>
    BY DEF RegisterCancel, AtStep, GoTo
  <1>2. r = [runs[n] EXCEPT !.pc = "log"]
    OBVIOUS
  <1> HIDE DEF r
  <1>3. r \in RunRecords /\ SameRun(r, runs[n]) /\ r.pc = "log" /\ r.out = runs[n].out
    BY <1>2, RowsOf, GoesOn DEF Pcs
  <1>4. j \in Jobs /\ LiveRun(n)
    BY <1>1, RowsOf DEF RunRecords, LiveRun, AtStep
  <1>5. /\ RunTypes' /\ OneRunPerJob'
        /\ runs'[n] = r /\ \A m \in Runs : m # n => runs'[m] = runs[m]
        /\ \A m \in Runs : LiveRun(m)' <=> LiveRun(m)
        /\ \A m \in Runs : runs'[m].job = runs[m].job
        /\ \A m \in Runs : Stopped(m) => Stopped(m)'
    BY <1>1, <1>3, <1>4, Moves DEF SameRun
  <1>6. /\ RowTypes /\ HandleTypes /\ CancelTypes /\ HandleInv /\ JobRowInv /\ SyncRowInv /\ CancelInv
        /\ OneRunPerJob
    BY DEF JobInv
  <1>7. n \in 0 .. MaxRuns /\ n # 0
    BY RunsArePositive
  <1>8. HandleTypes' /\ RowTypes' /\ CancelTypes'
    BY <1>1, <1>6, <1>7 DEF HandleTypes, RowTypes, CancelTypes
  <1>9. /\ handles'[j].cancel = n /\ handles'[j].row = handles[j].row
        /\ \A i \in Jobs : i # j => handles'[i] = handles[i]
    BY <1>1, <1>4, <1>6 DEF HandleTypes
  <1>10. \A i \in Jobs : handles[i].cancel # 0 => handles[i].cancel \in Runs
    BY <1>6, JobBounds DEF HandleTypes, Runs
  <1>11. handles[j].cancel = 0 /\ handles[j].row = 0
    BY <1>1, <1>4, <1>6, <1>10 DEF HandleInv, OneRunPerJob, AtStep
  <1>12. HandleInv'
    <2>1. ASSUME NEW i \in Jobs, handles'[i].cancel # 0
          PROVE  \E k \in Runs : k = handles'[i].cancel /\ LiveRun(k)' /\ runs'[k].job = i /\ ~AtStep(k, "begun")'
      <3>1. CASE i = j
        BY <3>1, <1>3, <1>4, <1>5, <1>9 DEF AtStep
      <3>2. CASE i # j
        <4>1. PICK k \in Runs : k = handles[i].cancel
          BY <2>1, <3>2, <1>9, <1>10
        <4>2. LiveRun(k) /\ runs[k].job = i /\ ~AtStep(k, "begun")
          BY <2>1, <3>2, <4>1, <1>6, <1>9 DEF HandleInv
        <4>3. runs'[k] = runs[k]
          BY <4>2, <1>1, <1>5 DEF AtStep
        <4> QED
          BY <3>2, <4>1, <4>2, <4>3, <1>5, <1>9 DEF AtStep
      <3> QED
        BY <3>1, <3>2
    <2>2. \A i \in Jobs : handles'[i].row # 0 => handles'[i].row = handles'[i].cancel
      BY <1>6, <1>9, <1>11 DEF HandleInv
    <2>3. \A m \in Runs : LiveRun(m)' /\ ~AtStep(m, "begun")' => handles'[runs'[m].job].cancel = m
      <3> SUFFICES ASSUME NEW m \in Runs, m # n, LiveRun(m), ~AtStep(m, "begun")
                   PROVE  handles'[runs[m].job].cancel = m
        BY <1>5, <1>9 DEF AtStep
      <3>1. runs[m].job \in Jobs /\ runs[m].job # j
        BY <1>4, <1>6, RowsOf DEF OneRunPerJob, RunRecords
      <3> QED
        BY <3>1, <1>6, <1>9 DEF HandleInv
    <2> QED
      BY <2>1, <2>2, <2>3 DEF HandleInv
  <1>13. JobRowInv'
    BY <1>1, <1>3, <1>5, <1>6 DEF JobRowInv, SameRun, LiveRun, AtStep
  <1>14. SyncRowInv'
    BY <1>1, <1>3, <1>5, <1>6 DEF SyncRowInv, SameRun, AtStep, FetchSteps
  <1>15. CancelInv'
    BY <1>1, <1>5, <1>6, JobBounds DEF CancelInv, CancelTypes, Runs
  <1> QED
    BY <1>5, <1>8, <1>12, <1>13, <1>14, <1>15 DEF JobInv

\* The run's row is inserted and noted.
LEMMA LogJobStartKeeps ==
  ASSUME JobInv, NEW n \in Runs, LogJobStart(n)
  PROVE  JobInv'
  <1> DEFINE j == runs[n].job
             pc == CASE j = "pcgw_sync" -> "resume" [] j = "pcgw_bundle_fetch" -> "history" [] OTHER -> "work"
             r == [runs[n] EXCEPT !.pc = pc]
  <1>1. /\ runs[n].pc = "log" /\ runs' = [runs EXCEPT ![n] = r]
        /\ UNCHANGED <<running, syncRuns, cancelling>>
    BY DEF LogJobStart, AtStep, GoTo
  <1>2. /\ pc \in {"resume", "history", "work"}
        /\ pc = "history" => j = "pcgw_bundle_fetch"
    OBVIOUS
  <1>3. \/ /\ runs[n].ctx = "live" /\ jobRuns' = [jobRuns EXCEPT ![n] = "running"]
           /\ handles' = [handles EXCEPT ![j].row = n]
        \/ UNCHANGED <<jobRuns, handles>>
    BY DEF LogJobStart
  <1> HIDE DEF pc
  <1>4. r = [runs[n] EXCEPT !.pc = pc]
    OBVIOUS
  <1> HIDE DEF r
  <1>5. r \in RunRecords /\ SameRun(r, runs[n]) /\ r.pc = pc /\ r.out = runs[n].out
    BY <1>2, <1>4, RowsOf, GoesOn DEF Pcs
  <1>6. j \in Jobs /\ LiveRun(n) /\ ~AtStep(n, "begun")
    BY <1>1, RowsOf DEF RunRecords, LiveRun, AtStep
  <1>7. handles[j].cancel = n /\ HandleTypes /\ RowTypes
    BY <1>6 DEF JobInv, HandleInv
  <1>8. n \in 0 .. MaxRuns
    BY RunsArePositive
  <1>9. HandlesKeep
    <2>1. CASE UNCHANGED handles
      BY <2>1, HandlesUnchanged
    <2>2. CASE handles' = [handles EXCEPT ![j].row = n]
      <3>1. HandleTypes'
        BY <2>2, <1>7, <1>8 DEF HandleTypes
      <3>2. /\ handles'[j].cancel = handles[j].cancel /\ handles'[j].row = n
            /\ \A i \in Jobs : i # j => handles'[i] = handles[i]
        BY <2>2, <1>6, <1>7 DEF HandleTypes
      <3> QED
        BY <3>1, <3>2, <1>7 DEF HandlesKeep
    <2> QED
      BY <2>1, <2>2, <1>3
  <1>10. RowTypes'
    BY <1>1, <1>3, <1>7 DEF RowTypes, JobStatuses
  <1>11. /\ \A m \in Runs : m # n => jobRuns'[m] = jobRuns[m] /\ syncRuns'[m] = syncRuns[m]
         /\ jobRuns'[n] \in {jobRuns[n], "running"}
    BY <1>1, <1>3, <1>7 DEF RowTypes
  <1>12. /\ JobRowFits(jobRuns'[n], r)
         /\ r.out = "canceled" => r.ctx # "live"
    BY <1>2, <1>5, <1>6, <1>11, RowsOf DEF JobRowFits, SameRun
  <1>13. SyncRowFits(syncRuns'[n], r)
    BY <1>1, <1>5, RowsOf DEF SyncRowFits, SameRun, FetchSteps
  <1>14. /\ r.pc \notin {"new", "begun", "ended"}
         /\ r.pc \in (FetchSteps \ {"finish"}) \cup {"history"} => r.job = "pcgw_bundle_fetch"
    BY <1>2, <1>5 DEF FetchSteps, SameRun
  <1>15. UNCHANGED <<running, cancelling>>
    BY <1>1
  <1> QED
    BY <1>1, <1>5, <1>6, <1>9, <1>10, <1>11, <1>12, <1>13, <1>14, <1>15, StepAndNote DEF SameRun

\* The job's time limit.
LEMMA RunTimesOutKeeps ==
  ASSUME JobInv, NEW n \in Runs, RunTimesOut(n)
  PROVE  JobInv'
  <1> DEFINE r == [runs[n] EXCEPT !.ctx = "expired"]
  <1>1. /\ LiveRun(n) /\ ~AtStep(n, "begun") /\ runs[n].ctx = "live" /\ runs' = [runs EXCEPT ![n] = r]
        /\ UNCHANGED <<running, handles, jobRuns, syncRuns, cancelling>>
    BY DEF RunTimesOut, AtStep
  <1>2. /\ r \in RunRecords /\ r.job = runs[n].job /\ r.pc = runs[n].pc /\ r.ctx = "expired"
        /\ r.resumed = runs[n].resumed /\ r.ran = runs[n].ran
    BY RowsOf DEF RunRecords
  <1> HIDE DEF r
  <1>3. RowTypes' /\ r.pc \notin {"new", "begun", "ended"}
    BY <1>1, <1>2, RowsOf DEF RowTypes, LiveRun, AtStep
  <1>4. JobRowFits(jobRuns'[n], r) /\ SyncRowFits(syncRuns'[n], r)
    BY <1>1, <1>2, <1>3, RowsOf DEF JobRowFits, SyncRowFits
  <1>5. \A m \in Runs : m # n => jobRuns'[m] = jobRuns[m] /\ syncRuns'[m] = syncRuns[m]
    BY <1>1
  <1>6. r.pc \in (FetchSteps \ {"finish"}) \cup {"history"} => r.job = "pcgw_bundle_fetch"
    BY <1>2, RowsOf
  <1> QED
    BY <1>1, <1>2, <1>3, <1>4, <1>5, <1>6, StepKeeps

\* The flag and the handles go, and the goroutine.
LEMMA CleanupRunKeeps ==
  ASSUME JobInv, NEW n \in Runs, CleanupRun(n)
  PROVE  JobInv'
  <1> DEFINE r == Ended(runs[n])
             j == runs[n].job
  <1>1. /\ runs[n].pc = "cleanup" /\ runs' = [runs EXCEPT ![n] = r]
        /\ handles' = [handles EXCEPT ![j] = NoHandle] /\ running' = running \ {j}
        /\ UNCHANGED <<jobRuns, syncRuns, cancelling>>
    BY DEF CleanupRun, AtStep
  <1>2. /\ r \in RunRecords /\ r.pc = "ended" /\ r.out = "ended" /\ SameRun(r, runs[n])
    BY RowsOf, EndedRecord
  <1>3. j \in Jobs /\ LiveRun(n) /\ ~AtStep(n, "begun")
    BY <1>1, RowsOf DEF RunRecords, LiveRun, AtStep
  <1> HIDE DEF r
  <1>4. /\ RunTypes /\ RowTypes /\ HandleTypes /\ CancelTypes /\ OneRunPerJob /\ HandleInv
        /\ JobRowInv /\ SyncRowInv /\ CancelInv
    BY DEF JobInv
  <1>5. runs'[n] = r /\ \A m \in Runs : m # n => runs'[m] = runs[m]
    BY <1>1, <1>4 DEF RunTypes
  <1>6. ~LiveRun(n)' /\ \A m \in Runs : m # n => (LiveRun(m)' <=> LiveRun(m))
    BY <1>2, <1>5 DEF LiveRun
  <1>7. RunTypes' /\ RowTypes' /\ CancelTypes'
    BY <1>1, <1>2, <1>4 DEF RunTypes, RowTypes, CancelTypes
  <1>8. \A m \in Runs : m # n /\ LiveRun(m) => runs[m].job # j
    BY <1>3, <1>4 DEF OneRunPerJob
  <1>9. OneRunPerJob'
    <2>1. \A i \in Jobs : i \in running' <=> \E m \in Runs : LiveRun(m)' /\ runs'[m].job = i
      <3> SUFFICES ASSUME NEW i \in Jobs
                   PROVE  i \in running' <=> \E m \in Runs : LiveRun(m)' /\ runs'[m].job = i
        OBVIOUS
      <3>1. CASE i = j
        BY <3>1, <1>1, <1>5, <1>6, <1>8
      <3>2. CASE i # j
        <4>1. i \in running' <=> i \in running
          BY <3>2, <1>1
        <4>2. \A m \in Runs : LiveRun(m)' /\ runs'[m].job = i <=> LiveRun(m) /\ runs[m].job = i
          BY <3>2, <1>5, <1>6
        <4> QED
          BY <4>1, <4>2, <1>4 DEF OneRunPerJob
      <3> QED
        BY <3>1, <3>2
    <2>2. \A m, k \in Runs : LiveRun(m)' /\ LiveRun(k)' /\ runs'[m].job = runs'[k].job => m = k
      BY <1>4, <1>5, <1>6 DEF OneRunPerJob
    <2> QED
      BY <2>1, <2>2 DEF OneRunPerJob
  <1>10. NoHandle \in [cancel : 0 .. MaxRuns, row : 0 .. MaxRuns, sync : 0 .. MaxRuns]
    BY JobBounds DEF NoHandle
  <1>11. HandleTypes'
    BY <1>1, <1>4, <1>10 DEF HandleTypes
  <1>12. /\ handles'[j].cancel = 0 /\ handles'[j].row = 0
         /\ \A i \in Jobs : i # j => handles'[i] = handles[i]
    BY <1>1, <1>3, <1>4 DEF HandleTypes, NoHandle
  <1>13. HandleInv'
    <2>1. ASSUME NEW i \in Jobs, handles'[i].cancel # 0
          PROVE  \E k \in Runs : k = handles'[i].cancel /\ LiveRun(k)' /\ runs'[k].job = i /\ ~AtStep(k, "begun")'
      <3>1. i # j /\ handles'[i] = handles[i]
        BY <2>1, <1>12
      <3>2. PICK k \in Runs : k = handles[i].cancel
        BY <2>1, <3>1, <1>4, JobBounds DEF HandleTypes, Runs
      <3>3. LiveRun(k) /\ runs[k].job = i /\ ~AtStep(k, "begun")
        BY <2>1, <3>1, <3>2, <1>4 DEF HandleInv
      <3>4. runs'[k] = runs[k] /\ k # n
        BY <3>1, <3>3, <1>5
      <3> QED
        BY <3>1, <3>2, <3>3, <3>4, <1>6 DEF AtStep
    <2>2. \A i \in Jobs : handles'[i].row # 0 => handles'[i].row = handles'[i].cancel
      BY <1>4, <1>12 DEF HandleInv
    <2>3. \A m \in Runs : LiveRun(m)' /\ ~AtStep(m, "begun")' => handles'[runs'[m].job].cancel = m
      BY <1>4, <1>5, <1>6, <1>8, <1>12, RowsOf DEF HandleInv, AtStep, RunRecords
    <2> QED
      BY <2>1, <2>2, <2>3 DEF HandleInv
  <1>14. \A m \in Runs : Stopped(m) => Stopped(m)'
    BY <1>2, <1>5 DEF Stopped, AtStep
  <1>15. JobRowInv'
    BY <1>1, <1>2, <1>4, <1>5, <1>14 DEF JobRowInv, LiveRun, AtStep
  <1>16. SyncRowInv'
    <2>1. syncRuns[n] = "running" => runs[n].resumed /\ ~runs[n].ran
      BY <1>1, <1>4 DEF SyncRowInv, AtStep, FetchSteps
    <2> QED
      BY <2>1, <1>1, <1>2, <1>4, <1>5 DEF SyncRowInv, AtStep, FetchSteps, SameRun
  <1>17. CancelInv'
    BY <1>1, <1>4, <1>14, JobBounds DEF CancelInv, CancelTypes, Runs
  <1> QED
    BY <1>7, <1>9, <1>11, <1>13, <1>15, <1>16, <1>17 DEF JobInv

---------------------------------------------------------------------------
(* The manifest sync. *)

LEMMA ResumeRunKeeps ==
  ASSUME JobInv, NEW n \in Runs, ResumeRun(n)
  PROVE  JobInv'
  <1>1. /\ runs[n].pc = "resume" /\ FirstOfSync(n) \in {"backlog", "cycle"}
        /\ UNCHANGED <<running, jobRuns, cancelling>>
    BY DEF ResumeRun, AtStep, FirstOfSync
  <1>2. LiveRun(n) /\ ~AtStep(n, "begun") /\ ~AtStep(n, "crawl")
    BY <1>1 DEF LiveRun, AtStep
  <1>3. CASE GoTo(n, FirstOfSync(n)) /\ UNCHANGED <<syncRuns, handles>>
    BY <1>1, <1>2, <1>3, GoingKeeps DEF Pcs, FetchSteps
  <1>4. CASE /\ syncRuns' = [syncRuns EXCEPT ![n] = "running"]
             /\ handles' = [handles EXCEPT !["pcgw_sync"].sync = n]
             /\ runs' = [runs EXCEPT ![n] = [@ EXCEPT !.resumed = TRUE, !.pc = FirstOfSync(n)]]
    <2> DEFINE pc == FirstOfSync(n)
               q == [runs[n] EXCEPT !.pc = pc]
               r == [q EXCEPT !.resumed = TRUE]
    <2>1. runs' = [runs EXCEPT ![n] = r]
      BY <1>4
    <2> HIDE DEF pc
    <2>2. q = [runs[n] EXCEPT !.pc = pc]
      OBVIOUS
    <2> HIDE DEF q
    <2>3. q \in RunRecords /\ SameRun(q, runs[n]) /\ q.pc = pc /\ q.out = runs[n].out /\ pc \in {"backlog", "cycle"}
      BY <1>1, <2>2, RowsOf, GoesOn DEF Pcs, pc
    <2>4. /\ r \in RunRecords /\ r.job = runs[n].job /\ r.ctx = runs[n].ctx /\ r.pc = pc /\ r.out = runs[n].out
          /\ r.resumed /\ r.ran = runs[n].ran
      BY <2>3 DEF RunRecords, SameRun
    <2> HIDE DEF r
    <2>5. ~r.ran
      BY <2>4, <1>1, RowsOf DEF SyncRowFits
    <2>6. RowTypes' /\ \A m \in Runs : m # n => jobRuns'[m] = jobRuns[m] /\ syncRuns'[m] = syncRuns[m]
      BY <1>1, <1>4, RowsOf DEF RowTypes, SyncStatuses
    <2>7. HandlesKeep
      BY <1>4, RunsArePositive DEF JobInv, HandleTypes, HandlesKeep
    <2>8. SyncRowFits(syncRuns'[n], r)
      BY <2>3, <2>4, <2>5 DEF SyncRowFits
    <2>9. /\ JobRowFits(jobRuns'[n], r)
          /\ r.out = "canceled" => r.ctx # "live"
      BY <1>1, <1>2, <2>3, <2>4, RowsOf DEF JobRowFits
    <2>10. r.pc \notin {"new", "begun", "ended"} /\ r.pc \notin FetchSteps \cup {"history"}
      BY <2>3, <2>4 DEF FetchSteps
    <2>11. UNCHANGED <<running, cancelling>>
      BY <1>1
    <2> QED
      BY <1>2, <2>1, <2>4, <2>6, <2>7, <2>8, <2>9, <2>10, <2>11, StepAndNote
  <1> QED
    BY <1>3, <1>4 DEF ResumeRun

\* The next cycle of auto catch-up.
LEMMA CyclesOn ==
  ASSUME NEW q \in RunRecords, NEW b \in Int, NEW r, r = [q EXCEPT !.pc = "cycle", !.backlog = b]
  PROVE  r \in RunRecords /\ SameRun(r, q) /\ r.pc = "cycle" /\ r.out = q.out
  <1> DEFINE r1 == [q EXCEPT !.pc = "cycle"]
             r2 == [r1 EXCEPT !.backlog = b]
  <1>1. r = r2
    OBVIOUS
  <1>2. r1 \in RunRecords /\ SameRun(r1, q) /\ r1.pc = "cycle" /\ r1.out = q.out
    BY DEF RunRecords, SameRun, Pcs
  <1> HIDE DEF r1
  <1>3. r2 \in RunRecords /\ SameRun(r2, q) /\ r2.pc = "cycle" /\ r2.out = q.out
    BY <1>2 DEF RunRecords, SameRun
  <1> HIDE DEF r2
  <1> QED
    BY <1>1, <1>3

LEMMA CyclingKeeps ==
  ASSUME JobInv, NEW n \in Runs, runs[n].pc \in {"backlog", "recheck"}, NEW r \in RunRecords,
         runs' = [runs EXCEPT ![n] = r], SameRun(r, runs[n]), r.pc = "cycle", r.out = runs[n].out,
         UNCHANGED <<running, handles, jobRuns, syncRuns, cancelling>>
  PROVE  JobInv'
  <1>1. LiveRun(n) /\ ~AtStep(n, "begun") /\ RowTypes'
    BY RowsOf DEF LiveRun, AtStep, RowTypes
  <1>2. /\ JobRowFits(jobRuns'[n], r) /\ SyncRowFits(syncRuns'[n], r)
        /\ r.out = "canceled" => r.ctx # "live"
    BY <1>1, RowsOf DEF JobRowFits, SyncRowFits, SameRun, FetchSteps
  <1>3. r.pc \notin {"new", "begun", "ended"} /\ r.pc \notin FetchSteps \cup {"history"}
    BY DEF FetchSteps
  <1> QED
    BY <1>1, <1>2, <1>3, StepKeeps DEF SameRun

LEMMA FirstBacklogKeeps ==
  ASSUME JobInv, NEW n \in Runs, FirstBacklog(n)
  PROVE  JobInv'
  <1>1. runs[n].pc = "backlog" /\ UNCHANGED <<running, handles, jobRuns, syncRuns, cancelling>>
    BY DEF FirstBacklog, AtStep
  <1>2. PICK b \in 0 .. MaxBacklog :
          \/ EndsAs(n, "ended")
          \/ EndsAs(n, Outcome(runs[n].ctx))
          \/ runs' = [runs EXCEPT ![n] = [@ EXCEPT !.pc = "cycle", !.backlog = b]]
    BY DEF FirstBacklog
  <1>3. CASE EndsAs(n, "ended") \/ EndsAs(n, Outcome(runs[n].ctx))
    <2>1. LiveRun(n) /\ ~AtStep(n, "begun") /\ ~AtStep(n, "crawl") /\ RowTypes'
      BY <1>1, RowsOf DEF LiveRun, AtStep, RowTypes
    <2> QED
      BY <1>1, <1>3, <2>1, EndingKeeps
  <1>4. CASE runs' = [runs EXCEPT ![n] = [@ EXCEPT !.pc = "cycle", !.backlog = b]]
    <2> DEFINE r == [runs[n] EXCEPT !.pc = "cycle", !.backlog = b]
    <2>1. runs' = [runs EXCEPT ![n] = r] /\ runs[n] \in RunRecords /\ b \in Int
      BY <1>4, RowsOf, JobBounds
    <2>2. r = [runs[n] EXCEPT !.pc = "cycle", !.backlog = b]
      OBVIOUS
    <2> HIDE DEF r
    <2>3. r \in RunRecords /\ SameRun(r, runs[n]) /\ r.pc = "cycle" /\ r.out = runs[n].out
      BY <2>1, <2>2, CyclesOn, Zenon
    <2> QED
      BY <1>1, <2>1, <2>3, CyclingKeeps
  <1> QED
    BY <1>2, <1>3, <1>4

LEMMA RecheckBacklogKeeps ==
  ASSUME JobInv, NEW n \in Runs, RecheckBacklog(n)
  PROVE  JobInv'
  <1>1. runs[n].pc = "recheck" /\ UNCHANGED <<running, handles, jobRuns, syncRuns, cancelling>>
    BY DEF RecheckBacklog, AtStep
  <1>2. PICK b \in 0 .. MaxBacklog :
          LET streak == IF b < runs[n].backlog THEN 0 ELSE runs[n].streak + 1
          IN \/ EndsAs(n, "ended")
             \/ EndsAs(n, Outcome(runs[n].ctx))
             \/ runs' = [runs EXCEPT ![n] = [@ EXCEPT !.pc = "cycle", !.backlog = b, !.streak = streak, !.left = runs[n].left - 1]]
    BY DEF RecheckBacklog
  <1>3. CASE EndsAs(n, "ended") \/ EndsAs(n, Outcome(runs[n].ctx))
    <2>1. LiveRun(n) /\ ~AtStep(n, "begun") /\ ~AtStep(n, "crawl") /\ RowTypes'
      BY <1>1, RowsOf DEF LiveRun, AtStep, RowTypes
    <2> QED
      BY <1>1, <1>3, <2>1, EndingKeeps
  <1> DEFINE streak == IF b < runs[n].backlog THEN 0 ELSE runs[n].streak + 1
             left == runs[n].left - 1
  <1>4. CASE runs' = [runs EXCEPT ![n] = [@ EXCEPT !.pc = "cycle", !.backlog = b, !.streak = streak, !.left = runs[n].left - 1]]
    <2> DEFINE r1 == [runs[n] EXCEPT !.pc = "cycle", !.backlog = b]
               r2 == [r1 EXCEPT !.streak = streak]
               r == [r2 EXCEPT !.left = left]
    <2>1. runs[n] \in RunRecords /\ b \in Int
      BY RowsOf, JobBounds
    <2>2. streak \in Int /\ left \in Int
      BY <2>1 DEF RunRecords
    <2>3. runs' = [runs EXCEPT ![n] = r]
      BY <1>4
    <2> HIDE DEF streak, left
    <2>4. r1 = [runs[n] EXCEPT !.pc = "cycle", !.backlog = b]
      OBVIOUS
    <2> HIDE DEF r1
    <2>5. r1 \in RunRecords /\ SameRun(r1, runs[n]) /\ r1.pc = "cycle" /\ r1.out = runs[n].out
      BY <2>1, <2>4, CyclesOn, Zenon
    <2>6. r2 \in RunRecords /\ SameRun(r2, runs[n]) /\ r2.pc = "cycle" /\ r2.out = runs[n].out
      BY <2>2, <2>5 DEF RunRecords, SameRun
    <2> HIDE DEF r2
    <2>7. r \in RunRecords /\ SameRun(r, runs[n]) /\ r.pc = "cycle" /\ r.out = runs[n].out
      BY <2>2, <2>6 DEF RunRecords, SameRun
    <2> HIDE DEF r
    <2> QED
      BY <1>1, <2>3, <2>7, CyclingKeeps
  <1> QED
    BY <1>2, <1>3, <1>4

LEMMA CycleBeginsKeeps ==
  ASSUME JobInv, NEW n \in Runs, CycleBegins(n)
  PROVE  JobInv'
  <1>1. runs[n].pc = "cycle" /\ UNCHANGED <<running, handles, jobRuns, cancelling>>
    BY DEF CycleBegins, AtStep
  <1>2. LiveRun(n) /\ ~AtStep(n, "begun") /\ ~AtStep(n, "crawl")
    BY <1>1 DEF LiveRun, AtStep
  <1>3. CASE (EndsAs(n, "ended") \/ EndsAs(n, Outcome(runs[n].ctx))) /\ syncRuns' = syncRuns
    <2>1. RowTypes'
      BY <1>1, <1>3, RowsOf DEF RowTypes
    <2> QED
      BY <1>1, <1>2, <1>3, <2>1, EndingKeeps
  <1>4. CASE /\ syncRuns' = IF runs[n].resumed THEN syncRuns ELSE [syncRuns EXCEPT ![n] = "running"]
             /\ runs' = [runs EXCEPT ![n] = [@ EXCEPT !.pc = "crawl", !.ran = TRUE]]
    <2> DEFINE q == [runs[n] EXCEPT !.pc = "crawl"]
               r == [q EXCEPT !.ran = TRUE]
    <2>1. runs' = [runs EXCEPT ![n] = r]
      BY <1>4
    <2>2. q = [runs[n] EXCEPT !.pc = "crawl"]
      OBVIOUS
    <2> HIDE DEF q
    <2>3. q \in RunRecords /\ SameRun(q, runs[n]) /\ q.pc = "crawl" /\ q.out = runs[n].out
      BY <2>2, RowsOf, GoesOn DEF Pcs
    <2>4. r \in RunRecords /\ r.job = runs[n].job /\ r.ctx = runs[n].ctx /\ r.pc = "crawl" /\ r.out = runs[n].out
      BY <2>3 DEF RunRecords, SameRun
    <2> HIDE DEF r
    <2>5. RowTypes'
      BY <1>1, <1>4, RowsOf DEF RowTypes, SyncStatuses
    <2>6. \A m \in Runs : m # n => jobRuns'[m] = jobRuns[m] /\ syncRuns'[m] = syncRuns[m]
      BY <1>1, <1>4, RowsOf DEF RowTypes
    <2>7. /\ JobRowFits(jobRuns'[n], r) /\ SyncRowFits(syncRuns'[n], r)
          /\ r.out = "canceled" => r.ctx # "live"
      BY <1>1, <1>2, <2>4, RowsOf DEF JobRowFits, SyncRowFits
    <2>8. r.pc \notin {"new", "begun", "ended"} /\ r.pc \notin FetchSteps \cup {"history"}
      BY <2>4 DEF FetchSteps
    <2>9. UNCHANGED <<running, handles, cancelling>>
      BY <1>1
    <2> QED
      BY <1>2, <2>1, <2>4, <2>5, <2>6, <2>7, <2>8, <2>9, StepKeeps
  <1> QED
    BY <1>3, <1>4 DEF CycleBegins

LEMMA CycleEndsKeeps ==
  ASSUME JobInv, NEW n \in Runs, CycleEnds(n)
  PROVE  JobInv'
  <1>1. runs[n].pc = "crawl" /\ UNCHANGED <<running, handles, jobRuns, cancelling>>
    BY DEF CycleEnds, AtStep
  <1>2. PICK status \in {"ended", "resumable"} : syncRuns' = [syncRuns EXCEPT ![n] = status]
    BY DEF CycleEnds
  <1>3. LiveRun(n) /\ ~AtStep(n, "begun")
    BY <1>1 DEF LiveRun, AtStep
  <1>4. RowTypes' /\ syncRuns'[n] # "running" /\ \A m \in Runs : m # n => syncRuns'[m] = syncRuns[m]
    BY <1>1, <1>2, RowsOf DEF RowTypes, SyncStatuses
  <1>5. CASE EndsAs(n, Outcome(runs[n].ctx))
    BY <1>1, <1>3, <1>4, <1>5, EndingKeeps
  <1>6. CASE GoTo(n, "recheck")
    <2> DEFINE r == [runs[n] EXCEPT !.pc = "recheck"]
    <2>1. runs' = [runs EXCEPT ![n] = r]
      BY <1>6 DEF GoTo
    <2>2. r = [runs[n] EXCEPT !.pc = "recheck"]
      OBVIOUS
    <2> HIDE DEF r
    <2>3. r \in RunRecords /\ SameRun(r, runs[n]) /\ r.pc = "recheck" /\ r.out = runs[n].out
      BY <2>2, RowsOf, GoesOn DEF Pcs
    <2>4. /\ JobRowFits(jobRuns'[n], r) /\ SyncRowFits(syncRuns'[n], r)
          /\ r.out = "canceled" => r.ctx # "live"
      BY <1>1, <1>3, <1>4, <2>3, RowsOf DEF JobRowFits, SyncRowFits, SameRun
    <2>5. r.pc \notin {"new", "begun", "ended"} /\ r.pc \notin FetchSteps \cup {"history"}
      BY <2>3 DEF FetchSteps
    <2>6. /\ UNCHANGED <<running, handles, cancelling>>
          /\ \A m \in Runs : m # n => jobRuns'[m] = jobRuns[m] /\ syncRuns'[m] = syncRuns[m]
      BY <1>1, <1>4
    <2> QED
      BY <1>3, <1>4, <2>1, <2>3, <2>4, <2>5, <2>6, StepKeeps DEF SameRun
  <1> QED
    BY <1>5, <1>6 DEF CycleEnds

---------------------------------------------------------------------------
(* The bundle fetch. *)

LEMMA StartHistoryKeeps ==
  ASSUME JobInv, NEW n \in Runs, StartHistory(n)
  PROVE  JobInv'
  <1> DEFINE r == [runs[n] EXCEPT !.pc = "fetch"]
  <1>1. /\ runs[n].pc = "history" /\ runs' = [runs EXCEPT ![n] = r]
        /\ UNCHANGED <<running, handles, jobRuns, cancelling>>
    BY DEF StartHistory, AtStep, GoTo
  <1>2. r = [runs[n] EXCEPT !.pc = "fetch"]
    OBVIOUS
  <1> HIDE DEF r
  <1>3. r \in RunRecords /\ SameRun(r, runs[n]) /\ r.pc = "fetch" /\ r.out = runs[n].out
    BY <1>2, RowsOf, GoesOn DEF Pcs
  <1>4. syncRuns' = syncRuns \/ syncRuns' = [syncRuns EXCEPT ![n] = "running"]
    BY DEF StartHistory
  <1>5. RowTypes'
    BY <1>1, <1>4, RowsOf DEF RowTypes, SyncStatuses
  <1>6. \A m \in Runs : m # n => jobRuns'[m] = jobRuns[m] /\ syncRuns'[m] = syncRuns[m]
    BY <1>1, <1>4, RowsOf DEF RowTypes
  <1>7. LiveRun(n) /\ ~AtStep(n, "begun") /\ r.pc \notin {"new", "begun", "ended"}
    BY <1>1, <1>3 DEF LiveRun, AtStep
  <1>8. r.job = "pcgw_bundle_fetch" /\ r.pc \in FetchSteps
    BY <1>1, <1>3, RowsOf DEF SameRun, FetchSteps
  <1>9. /\ JobRowFits(jobRuns'[n], r) /\ SyncRowFits(syncRuns'[n], r)
        /\ r.out = "canceled" => r.ctx # "live"
    BY <1>1, <1>3, <1>7, <1>8, RowsOf DEF JobRowFits, SyncRowFits, SameRun
  <1> QED
    BY <1>1, <1>3, <1>5, <1>6, <1>7, <1>8, <1>9, StepKeeps DEF SameRun

LEMMA FetchEndsKeeps ==
  ASSUME JobInv, NEW n \in Runs, FetchEnds(n)
  PROVE  JobInv'
  <1>1. runs[n].pc = "fetch" /\ UNCHANGED <<running, handles, jobRuns, syncRuns, cancelling>>
    BY DEF FetchEnds, AtStep
  <1>2. LiveRun(n) /\ ~AtStep(n, "begun") /\ ~AtStep(n, "crawl") /\ RowTypes'
    BY <1>1, RowsOf DEF LiveRun, AtStep, RowTypes
  <1>3. CASE EndsAs(n, Outcome(runs[n].ctx))
    BY <1>1, <1>2, <1>3, EndingKeeps
  <1>4. CASE GoTo(n, "fallback")
    <2>1. runs[n].job = "pcgw_bundle_fetch"
      BY <1>1, RowsOf DEF FetchSteps
    <2> QED
      BY <1>1, <1>2, <1>4, <2>1, GoingKeeps DEF Pcs, FetchSteps
  <1> QED
    BY <1>3, <1>4 DEF FetchEnds

LEMMA FallbackAsksKeeps ==
  ASSUME JobInv, NEW n \in Runs, FallbackAsks(n)
  PROVE  JobInv'
  <1>1. /\ runs[n].pc \in {"fallback", "fallback_database"}
        /\ UNCHANGED <<running, handles, jobRuns, syncRuns, cancelling>>
    BY DEF FallbackAsks, AtStep
  <1>2. PICK pc \in {"finish", "fallback_database", "fallback_start"} : GoTo(n, pc)
    BY DEF FallbackAsks
  <1>3. LiveRun(n) /\ ~AtStep(n, "begun") /\ ~AtStep(n, "crawl") /\ runs[n].job = "pcgw_bundle_fetch"
    BY <1>1, RowsOf DEF LiveRun, AtStep, FetchSteps
  <1> QED
    BY <1>1, <1>2, <1>3, GoingKeeps DEF Pcs, FetchSteps

---------------------------------------------------------------------------
(* New goroutines. *)

\* Nothing the invariant speaks of changes.
LEMMA NothingMoves ==
  ASSUME JobInv, UNCHANGED <<running, runs, handles, jobRuns, syncRuns, cancelling>>
  PROVE  JobInv'
  BY DEF JobInv, RunTypes, RowTypes, HandleTypes, CancelTypes, OneRunPerJob, HandleInv, JobRowInv,
         SyncRowInv, CancelInv, LiveRun, AtStep, Stopped

LEMMA StartRunKeeps ==
  ASSUME JobInv, NEW j \in Jobs, j \notin running, StartRun(j),
         UNCHANGED <<handles, jobRuns, syncRuns, cancelling>>
  PROVE  JobInv'
  <1>1. PICK n \in Runs, kind \in Kinds :
          /\ AtStep(n, "new") /\ running' = running \cup {j}
          /\ runs' = [runs EXCEPT ![n] = [NoRun EXCEPT !.job = j, !.kind = kind, !.pc = "begun",
                                       !.left = IF kind = "auto" THEN MaxCycles ELSE 0]]
    BY DEF StartRun
  <1> DEFINE left == IF kind = "auto" THEN MaxCycles ELSE 0
  <1>2. left \in Int
    BY JobBounds
  <1> DEFINE r1 == [NoRun EXCEPT !.job = j, !.kind = kind, !.pc = "begun"]
             r == [r1 EXCEPT !.left = left]
  <1>3. runs' = [runs EXCEPT ![n] = r]
    BY <1>1
  <1> HIDE DEF left
  <1>4. r1 \in RunRecords /\ r1.job = j /\ r1.pc = "begun" /\ r1.out = "ended" /\ ~r1.ran
    <2>1. NoRun \in RunRecords /\ NoRun.out = "ended" /\ ~NoRun.ran /\ "begun" \in Pcs
      BY DEF NoRun, RunRecords, Jobs, Kinds, Pcs
    <2> QED
      BY <2>1 DEF RunRecords
  <1> HIDE DEF r1
  <1>5. r \in RunRecords /\ r.job = j /\ r.pc = "begun" /\ r.out = "ended" /\ ~r.ran
    BY <1>2, <1>4 DEF RunRecords
  <1> HIDE DEF r
  <1>6. RunTypes' /\ runs'[n] = r /\ \A k \in Runs : k # n => Onward(k)
    BY <1>3, <1>5 DEF JobInv, RunTypes, Onward
  <1> QED
    BY <1>1, <1>5, <1>6, Starts

LEMMA FallbackStartsKeeps ==
  ASSUME JobInv, NEW n \in Runs, FallbackStarts(n)
  PROVE  JobInv'
  <1>1. runs[n].pc = "fallback_start" /\ UNCHANGED <<handles, jobRuns, syncRuns, cancelling>>
    BY DEF FallbackStarts, AtStep
  <1>2. LiveRun(n) /\ ~AtStep(n, "begun") /\ ~AtStep(n, "crawl")
    BY <1>1 DEF LiveRun, AtStep
  <1>3. CASE GoTo(n, "finish") /\ UNCHANGED running
    BY <1>1, <1>2, <1>3, GoingKeeps DEF Pcs, FetchSteps
  <1>4. ASSUME NEW m \in Runs, AtStep(m, "new"), "pcgw_sync" \notin running,
               running' = running \cup {"pcgw_sync"},
               runs' = [runs EXCEPT ![n].pc = "finish",
                                    ![m] = [NoRun EXCEPT !.job = "pcgw_sync", !.kind = "incremental",
                                                         !.pc = "begun"]]
        PROVE  JobInv'
    <2> DEFINE q == [runs[n] EXCEPT !.pc = "finish"]
               r == [NoRun EXCEPT !.job = "pcgw_sync", !.kind = "incremental", !.pc = "begun"]
    <2>1. q = [runs[n] EXCEPT !.pc = "finish"] /\ "finish" \in Pcs
      BY DEF Pcs
    <2>2. /\ r \in RunRecords /\ r.job = "pcgw_sync" /\ r.pc = "begun" /\ r.out = "ended" /\ ~r.ran
      <3>1. NoRun \in RunRecords /\ NoRun.out = "ended" /\ ~NoRun.ran
        BY DEF NoRun, RunRecords, Jobs, Kinds, Pcs
      <3>2. "pcgw_sync" \in Jobs /\ "incremental" \in Kinds /\ "begun" \in Pcs
        BY DEF Jobs, Kinds, Pcs
      <3> QED
        BY <3>1, <3>2 DEF RunRecords
    <2>3. m # n
      BY <1>1, <1>4 DEF AtStep
    <2>4. runs' = [[runs EXCEPT ![n] = q] EXCEPT ![m] = r]
      BY <1>4
    <2> HIDE DEF q, r
    <2>5. q \in RunRecords /\ SameRun(q, runs[n]) /\ q.pc = "finish" /\ q.out = runs[n].out
      BY <2>1, RowsOf, GoesOn
    <2>6. /\ RunTypes' /\ runs'[m] = r /\ runs'[n] = q
          /\ \A k \in Runs : k # m /\ k # n => runs'[k] = runs[k]
      BY <2>2, <2>3, <2>4, <2>5 DEF JobInv, RunTypes
    <2>7. \A k \in Runs : k # m => Onward(k)
      BY <1>1, <2>5, <2>6 DEF Onward, AtStep
    <2> QED
      BY <1>1, <1>4, <2>2, <2>6, <2>7, Starts
  <1> QED
    BY <1>3, <1>4 DEF FallbackStarts

LEMMA AskStepKeeps ==
  ASSUME JobInv, AskStep
  PROVE  JobInv'
  <1>1. PICK j \in Jobs : AskFirst(j) \/ AskDatabase(j) \/ AskAgain(j)
    BY DEF AskStep
  <1>2. UNCHANGED <<handles, jobRuns, syncRuns, cancelling>>
    BY <1>1 DEF AskFirst, AskDatabase, AskAgain
  <1>3. CASE UNCHANGED <<running, runs>>
    BY <1>2, <1>3, NothingMoves
  <1>4. CASE j \notin running /\ StartRun(j)
    BY <1>2, <1>4, StartRunKeeps
  <1> QED
    BY <1>1, <1>3, <1>4 DEF AskFirst, AskDatabase, AskAgain

---------------------------------------------------------------------------
(* Cancelling and restarting. *)

\* Contexts end; the goroutines go on.
LEMMA ContextsEnd ==
  ASSUME JobInv, RunTypes', CancelTypes', CancelInv', RowTypes', UNCHANGED <<running, handles>>,
         \A n \in Runs :
           /\ runs'[n] = runs[n] \/ (LiveRun(n) /\ runs'[n] = [runs[n] EXCEPT !.ctx = "canceled"])
           /\ jobRuns'[n] = jobRuns[n] \/ (jobRuns'[n] = "canceled" /\ Stopped(n))
           /\ syncRuns'[n] = syncRuns[n] \/ syncRuns'[n] = "ended"
  PROVE  JobInv'
  <1>1. /\ RunTypes /\ RowTypes /\ HandleTypes /\ CancelTypes /\ OneRunPerJob /\ HandleInv
        /\ JobRowInv /\ SyncRowInv
    BY DEF JobInv
  <1>2. \A n \in Runs :
          /\ runs'[n].job = runs[n].job /\ runs'[n].pc = runs[n].pc /\ runs'[n].out = runs[n].out
          /\ runs'[n].resumed = runs[n].resumed /\ runs'[n].ran = runs[n].ran
          /\ runs'[n].ctx = "live" => runs[n].ctx = "live"
    <2> SUFFICES ASSUME NEW n \in Runs, runs'[n] = [runs[n] EXCEPT !.ctx = "canceled"]
                 PROVE  /\ runs'[n].job = runs[n].job /\ runs'[n].pc = runs[n].pc /\ runs'[n].out = runs[n].out
                        /\ runs'[n].resumed = runs[n].resumed /\ runs'[n].ran = runs[n].ran
                        /\ runs'[n].ctx = "live" => runs[n].ctx = "live"
      OBVIOUS
    <2>1. runs[n] \in RunRecords
      BY RowsOf
    <2> QED
      BY <2>1 DEF RunRecords
  <1>3. \A n \in Runs : (LiveRun(n)' <=> LiveRun(n)) /\ (AtStep(n, "begun")' <=> AtStep(n, "begun"))
    BY <1>2 DEF LiveRun, AtStep
  <1>4. \A n \in Runs : Stopped(n) => Stopped(n)'
    BY <1>2 DEF Stopped, AtStep
  <1>5. HandleTypes'
    BY <1>1 DEF HandleTypes
  <1>6. OneRunPerJob'
    BY <1>1, <1>2, <1>3 DEF OneRunPerJob
  <1>7. HandleInv'
    <2>1. \A j \in Jobs : handles[j].cancel # 0 => handles[j].cancel \in Runs
      BY <1>1, JobBounds DEF HandleTypes, Runs
    <2> QED
      BY <1>1, <1>2, <1>3, <2>1 DEF HandleInv
  <1>8. JobRowInv'
    <2>1. \A n \in Runs : /\ jobRuns'[n] = "running" => jobRuns[n] = "running"
                          /\ jobRuns'[n] = "canceled" => Stopped(n)
      BY <1>1 DEF JobRowInv
    <2>2. \A n \in Runs : runs'[n].out = "canceled" => runs'[n].ctx # "live"
      BY <1>1, <1>2 DEF JobRowInv
    <2>3. \A n \in Runs : jobRuns[n] = "running" =>
            LiveRun(n)' /\ runs'[n].pc # "finish_history" /\ runs'[n].pc # "cleanup"
      BY <1>1, <1>2, <1>3 DEF JobRowInv, AtStep
    <2>4. \A n \in Runs : jobRuns'[n] = "canceled" => Stopped(n)'
      BY <1>4, <2>1
    <2> QED
      BY <2>1, <2>2, <2>3, <2>4 DEF JobRowInv, AtStep
  <1>9. SyncRowInv'
    <2>1. \A n \in Runs : syncRuns'[n] = "running" => syncRuns[n] = "running"
      OBVIOUS
    <2> QED
      BY <1>1, <1>2, <2>1 DEF SyncRowInv, AtStep
  <1> QED
    BY <1>5, <1>6, <1>7, <1>8, <1>9 DEF JobInv

\* A handle's function is that of a goroutine, which the call stops.
LEMMA HandleOf ==
  ASSUME JobInv, NEW j \in Jobs, handles[j].cancel # 0
  PROVE  handles[j].cancel \in Runs /\ LiveRun(handles[j].cancel) /\ handles[j].row \in {0, handles[j].cancel}
  BY JobBounds DEF JobInv, HandleTypes, HandleInv, Runs

LEMMA CancelSyncKeeps ==
  ASSUME JobInv, CancelSync
  PROVE  JobInv'
  <1> DEFINE h == handles["pcgw_sync"]
             n == h.cancel
  <1>1. /\ h.cancel # 0 /\ runs' = [runs EXCEPT ![n].ctx = IF @ = "live" THEN "canceled" ELSE @]
        /\ cancelling' = [pc |-> "sync", sync |-> h.sync, row |-> h.row]
        /\ UNCHANGED <<running, handles, jobRuns, syncRuns>>
    BY DEF CancelSync, Cancelled
  <1>2. "pcgw_sync" \in Jobs
    BY DEF Jobs
  <1>3. n \in Runs /\ LiveRun(n) /\ h.row \in {0, n}
    BY <1>1, <1>2, HandleOf
  <1>4. h \in [cancel : 0 .. MaxRuns, row : 0 .. MaxRuns, sync : 0 .. MaxRuns]
    BY <1>2 DEF JobInv, HandleTypes
  <1>5. CancelTypes'
    BY <1>1, <1>4 DEF CancelTypes
  <1> HIDE DEF n
  <1>6. \A m \in Runs :
          runs'[m] = runs[m] \/ (LiveRun(m) /\ runs'[m] = [runs[m] EXCEPT !.ctx = "canceled"])
    BY <1>1, <1>3 DEF JobInv, RunTypes, RunRecords
  <1>7. RunTypes'
    BY <1>1, <1>3 DEF JobInv, RunTypes, RunRecords
  <1>8. runs'[n].ctx # "live" /\ runs'[n].pc = runs[n].pc
    BY <1>1, <1>3 DEF JobInv, RunTypes, RunRecords
  <1>9. CancelInv'
    BY <1>1, <1>3, <1>8 DEF CancelInv, Stopped, AtStep, LiveRun
  <1>10. RowTypes'
    BY <1>1 DEF JobInv, RowTypes
  <1> QED
    BY <1>1, <1>5, <1>6, <1>7, <1>9, <1>10, ContextsEnd

LEMMA CancelMarksSyncKeeps ==
  ASSUME JobInv, CancelMarksSync
  PROVE  JobInv'
  <1>1. /\ syncRuns' = [n \in Runs |-> IF n = cancelling.sync \/ (cancelling.sync = 0 /\ syncRuns[n] = "running")
                                         THEN "ended" ELSE syncRuns[n]]
        /\ cancelling' = [cancelling EXCEPT !.pc = "job"]
        /\ UNCHANGED <<running, handles, jobRuns, runs>>
    BY DEF CancelMarksSync
  <1>2. RunTypes' /\ RowTypes'
    BY <1>1 DEF JobInv, RunTypes, RowTypes, SyncStatuses
  <1>3. CancelTypes' /\ cancelling'.row = cancelling.row
    BY <1>1 DEF JobInv, CancelTypes
  <1>4. CancelInv'
    BY <1>1, <1>3 DEF JobInv, CancelInv, Stopped, AtStep
  <1> QED
    BY <1>1, <1>2, <1>3, <1>4, ContextsEnd

LEMMA CancelMarksJobKeeps ==
  ASSUME JobInv, CancelMarksJob
  PROVE  JobInv'
  <1>1. /\ jobRuns' = IF cancelling.row = 0 THEN jobRuns ELSE [jobRuns EXCEPT ![cancelling.row] = "canceled"]
        /\ cancelling' = NoCancel
        /\ UNCHANGED <<running, handles, syncRuns, runs>>
    BY DEF CancelMarksJob
  <1>2. RunTypes' /\ RowTypes'
    BY <1>1 DEF JobInv, RunTypes, RowTypes, JobStatuses
  <1>3. CancelTypes' /\ CancelInv'
    BY <1>1, JobBounds DEF CancelTypes, CancelInv, NoCancel
  <1>4. \A n \in Runs : jobRuns'[n] = jobRuns[n] \/ (jobRuns'[n] = "canceled" /\ Stopped(n))
    BY <1>1, RunsArePositive DEF JobInv, RowTypes, CancelInv
  <1> QED
    BY <1>1, <1>2, <1>3, <1>4, ContextsEnd

LEMMA CancelAllKeeps ==
  ASSUME JobInv, CancelAll
  PROVE  JobInv'
  <1>1. /\ runs' = [n \in Runs |-> IF \E j \in Jobs : handles[j].cancel = n /\ runs[n].ctx = "live"
                                     THEN [runs[n] EXCEPT !.ctx = "canceled"] ELSE runs[n]]
        /\ UNCHANGED <<running, handles, jobRuns, syncRuns, cancelling>>
    BY DEF CancelAll
  <1>2. \A n \in Runs :
          runs'[n] = runs[n] \/ (LiveRun(n) /\ runs'[n] = [runs[n] EXCEPT !.ctx = "canceled"])
    BY <1>1, HandleOf, RunsArePositive
  <1>3. RunTypes' /\ RowTypes' /\ CancelTypes'
    BY <1>1 DEF JobInv, RunTypes, RunRecords, RowTypes, CancelTypes
  <1>4. \A n \in Runs : Stopped(n) => Stopped(n)'
    BY <1>2, RowsOf DEF Stopped, AtStep, RunRecords
  <1>5. CancelInv'
    BY <1>1, <1>4, JobBounds DEF JobInv, CancelInv, CancelTypes, Runs
  <1> QED
    BY <1>1, <1>2, <1>3, <1>5, ContextsEnd

LEMMA RestartServerKeeps ==
  ASSUME JobInv, RestartServer
  PROVE  JobInv'
  <1>1. /\ running' = {} /\ handles' = [j \in Jobs |-> NoHandle]
        /\ jobRuns' = [n \in Runs |-> IF jobRuns[n] = "running" THEN "ended" ELSE jobRuns[n]]
        /\ syncRuns' = [n \in Runs |-> IF syncRuns[n] # "running" THEN syncRuns[n]
                                        ELSE IF runs[n].job = "pcgw_sync" THEN "resumable" ELSE "ended"]
        /\ runs' = [n \in Runs |-> IF LiveRun(n) THEN Ended(runs[n]) ELSE runs[n]]
        /\ cancelling' = NoCancel
    BY DEF RestartServer
  <1>2. \A n \in Runs : /\ Ended(runs[n]) \in RunRecords
                        /\ Ended(runs[n]).pc = "ended" /\ Ended(runs[n]).out = "ended"
    BY RowsOf, EndedRecord
  <1>3. \A n \in Runs : runs'[n] = IF LiveRun(n) THEN Ended(runs[n]) ELSE runs[n]
    BY <1>1
  <1>4. RunTypes'
    BY <1>1, <1>2, RowsOf DEF RunTypes
  <1>5. RowTypes' /\ \A n \in Runs : jobRuns'[n] # "running" /\ syncRuns'[n] # "running"
    BY <1>1 DEF JobInv, RowTypes, JobStatuses, SyncStatuses
  <1>6. \A j \in Jobs : handles'[j].cancel = 0 /\ handles'[j].row = 0
    BY <1>1 DEF NoHandle
  <1>7. HandleTypes' /\ CancelTypes' /\ CancelInv'
    BY <1>1, JobBounds DEF HandleTypes, NoHandle, CancelTypes, CancelInv, NoCancel
  <1>8. \A n \in Runs : ~LiveRun(n)' /\ runs'[n].pc \in {"new", "ended"}
    BY <1>2, <1>3 DEF LiveRun
  <1>9. OneRunPerJob' /\ HandleInv'
    BY <1>1, <1>6, <1>8 DEF OneRunPerJob, HandleInv
  <1>10. \A n \in Runs : Stopped(n) => Stopped(n)'
    BY <1>2, <1>3 DEF Stopped, AtStep, LiveRun
  <1>11. \A n \in Runs : jobRuns'[n] = "canceled" => jobRuns[n] = "canceled"
    BY <1>1
  <1>12. \A n \in Runs : runs'[n].out = "canceled" => runs'[n].ctx # "live"
    BY <1>2, <1>3, RowsOf
  <1>13. JobRowInv'
    BY <1>5, <1>10, <1>11, <1>12 DEF JobInv, JobRowInv
  <1>14. SyncRowInv'
    BY <1>5, <1>8 DEF SyncRowInv, FetchSteps
  <1> QED
    BY <1>4, <1>5, <1>7, <1>9, <1>13, <1>14 DEF JobInv

---------------------------------------------------------------------------
LEMMA JobInvHolds == JobInit => JobInv
  <1> SUFFICES ASSUME JobInit PROVE JobInv
    OBVIOUS
  <1>1. NoRun \in RunRecords /\ NoRun.pc = "new" /\ NoRun.out = "ended"
    BY DEF NoRun, RunRecords, Jobs, Kinds, Pcs
  <1>2. RunTypes /\ RowTypes /\ HandleTypes /\ CancelTypes
    BY <1>1, JobBounds DEF JobInit, RunTypes, RowTypes, HandleTypes, CancelTypes, NoHandle, NoCancel,
       JobStatuses, SyncStatuses
  <1>3. \A n \in Runs : runs[n].pc = "new" /\ runs[n].out = "ended" /\ ~LiveRun(n)
    BY <1>1 DEF JobInit, LiveRun
  <1>4. OneRunPerJob /\ HandleInv /\ JobRowInv /\ SyncRowInv /\ CancelInv
    BY <1>3 DEF JobInit, OneRunPerJob, HandleInv, JobRowInv, SyncRowInv, CancelInv, NoHandle, NoCancel, FetchSteps
  <1> QED
    BY <1>2, <1>4 DEF JobInv

LEMMA JobStepKeeps ==
  ASSUME JobInv, [JobNext]_jobVars
  PROVE  JobInv'
  <1>1. ASSUME NEW n \in Runs, RunStep(n)
        PROVE  JobInv'
    BY <1>1, RegisterCancelKeeps, LogJobStartKeeps, PlainWorkKeeps, ResumeRunKeeps, FirstBacklogKeeps,
       CycleBeginsKeeps, CycleEndsKeeps, RecheckBacklogKeeps, StartHistoryKeeps, FetchEndsKeeps,
       FallbackAsksKeeps, FallbackStartsKeeps, FinishHistoryKeeps, FinishJobRunKeeps, CleanupRunKeeps
       DEF RunStep
  <1>2. CASE CancelStep
    BY <1>2, CancelSyncKeeps, CancelMarksSyncKeeps, CancelMarksJobKeeps, CancelAllKeeps DEF CancelStep
  <1>3. CASE UNCHANGED jobVars
    BY <1>3, NothingMoves DEF jobVars
  <1> QED
    BY <1>1, <1>2, <1>3, AskStepKeeps, RestartServerKeeps, RunTimesOutKeeps DEF JobNext

\* The invariant holds in every reachable state.
THEOREM JobInvariance == JobSpec => []JobInv
  BY JobInvHolds, JobStepKeeps, PTL DEF JobSpec

\* No job ever has two goroutines, and the flags say exactly which have one
\* (tryRunPCGWSync and its like, CleanupRun's deferred function).
THEOREM OneRunPerJobHolds == JobSpec => []OneRunPerJob
  <1>1. JobInv => OneRunPerJob
    BY DEF JobInv
  <1> QED
    BY <1>1, JobInvariance, PTL

\* What the invariant says of the rows.
LEMMA RowsTold == JobInv => JobRowsTellTruth
  <1> SUFFICES ASSUME JobInv PROVE JobRowsTellTruth
    OBVIOUS
  <1>1. CanceledWasAsked
    BY DEF JobInv, JobRowInv, CanceledWasAsked, Stopped, AtStep
  <1>2. RunningRowsAreOwned
    <2> SUFFICES ASSUME NEW n \in Runs
                 PROVE  LET working == LiveRun(n) /\ ~AtStep(n, "cleanup")
                        IN /\ jobRuns[n] = "running" => working
                           /\ syncRuns[n] = "running" => working \/ (runs[n].resumed /\ ~runs[n].ran)
      BY DEF RunningRowsAreOwned
    <2> QED
      BY DEF JobInv, JobRowInv, SyncRowInv, LiveRun, AtStep, FetchSteps
  <1> QED
    BY <1>1, <1>2 DEF JobRowsTellTruth

\* The rows an admin reads are true of the goroutines: one that says "running"
\* will be finished, one that says "canceled" was cancelled (finishJobRun,
\* CancelPCGWSync, the startup's reset of stale rows).
THEOREM JobRowsTellTruthHolds == JobSpec => []JobRowsTellTruth
  BY RowsTold, JobInvariance, PTL

---------------------------------------------------------------------------
(* The bounds of the job runner. *)

\* A run in auto catch-up has cycles left, and has made no more cycles without
\* progress than the limit; only such a run looks at the backlog again.
Cycling(r) ==
  /\ r.left \in 0 .. MaxCycles /\ r.streak \in 0 .. MaxStreak - 1
  /\ r.kind = "auto" => r.left > 0
  /\ r.pc = "recheck" => r.kind = "auto"
RunsCycle == \A n \in Runs : Cycling(runs[n])
CallersAre ==
  /\ running \subseteq Jobs /\ asks \subseteq {"database", "start"} \X Jobs
  /\ resumable \in BOOLEAN /\ upsets \in 0 .. MaxUpsets
JobSmall == RunsCycle /\ CallersAre

LEMMA NewRunCycles ==
  /\ Cycling(NoRun) /\ NoRun \in RunRecords
  /\ \A j \in Jobs, kind \in Kinds :
       Cycling([NoRun EXCEPT !.job = j, !.kind = kind, !.pc = "begun", !.left = IF kind = "auto" THEN MaxCycles ELSE 0])
  /\ Cycling([NoRun EXCEPT !.job = "pcgw_sync", !.kind = "incremental", !.pc = "begun"])
  <1>1. 0 \in 0 .. MaxCycles /\ MaxCycles \in 0 .. MaxCycles /\ MaxCycles > 0 /\ 0 \in 0 .. MaxStreak - 1
    BY JobBounds
  <1>2. Cycling(NoRun) /\ NoRun \in RunRecords
    BY <1>1 DEF Cycling, NoRun, RunRecords, Jobs, Kinds, Pcs
  <1>3. ASSUME NEW j \in Jobs, NEW kind \in Kinds
        PROVE  Cycling([NoRun EXCEPT !.job = j, !.kind = kind, !.pc = "begun", !.left = IF kind = "auto" THEN MaxCycles ELSE 0])
    BY <1>1 DEF Cycling, NoRun
  <1>4. Cycling([NoRun EXCEPT !.job = "pcgw_sync", !.kind = "incremental", !.pc = "begun"])
    BY <1>1 DEF Cycling, NoRun
  <1> QED
    BY <1>2, <1>3, <1>4

LEMMA OneRunCycles ==
  ASSUME RunTypes, RunsCycle, NEW n \in Runs, NEW r, Cycling(r), runs' = [runs EXCEPT ![n] = r]
  PROVE  RunsCycle'
  <1>1. \A m \in Runs : runs'[m] = IF m = n THEN r ELSE runs[m]
    BY DEF RunTypes
  <1> QED
    BY <1>1 DEF RunsCycle, Cycling

LEMMA GoingCycles ==
  ASSUME RunTypes, RunsCycle, NEW n \in Runs, NEW pc, GoTo(n, pc), pc # "recheck" \/ runs[n].kind = "auto"
  PROVE  RunsCycle'
  <1> DEFINE r == [runs[n] EXCEPT !.pc = pc]
  <1>1. runs[n] \in RunRecords /\ Cycling(runs[n])
    BY DEF RunTypes, RunsCycle
  <1>2. r.left = runs[n].left /\ r.streak = runs[n].streak /\ r.kind = runs[n].kind /\ r.pc = pc
    BY <1>1 DEF RunRecords
  <1>3. runs' = [runs EXCEPT ![n] = r]
    BY DEF GoTo, RunTypes
  <1> HIDE DEF r
  <1>4. Cycling(r)
    BY <1>1, <1>2 DEF Cycling
  <1> QED
    BY <1>3, <1>4, OneRunCycles

LEMMA EndingCycles ==
  ASSUME RunTypes, RunsCycle, NEW n \in Runs, NEW out, EndsAs(n, out)
  PROVE  RunsCycle'
  <1> DEFINE r == [runs[n] EXCEPT !.pc = "finish", !.out = out, !.kind = "fresh", !.left = 0, !.streak = 0, !.backlog = 0]
  <1>1. runs[n] \in RunRecords
    BY DEF RunTypes
  <1>2. r.left = 0 /\ r.streak = 0 /\ r.kind = "fresh" /\ r.pc = "finish"
    BY <1>1 DEF RunRecords
  <1>3. runs' = [runs EXCEPT ![n] = r]
    BY DEF EndsAs, RunTypes
  <1> HIDE DEF r
  <1>4. Cycling(r)
    BY <1>2, JobBounds DEF Cycling
  <1> QED
    BY <1>3, <1>4, OneRunCycles

\* Only the context of a run, or what was asked of it, changes.
LEMMA SameCycles ==
  ASSUME RunsCycle, \A m \in Runs : /\ runs'[m].left = runs[m].left /\ runs'[m].streak = runs[m].streak
                                    /\ runs'[m].kind = runs[m].kind /\ runs'[m].pc \in {runs[m].pc, "cycle", "crawl"}
  PROVE  RunsCycle'
  BY DEF RunsCycle, Cycling

LEMMA StartCycles ==
  ASSUME RunTypes, RunsCycle, NEW j \in Jobs, StartRun(j)
  PROVE  RunsCycle'
  <1>1. PICK n \in Runs, kind \in Kinds :
          runs' = [runs EXCEPT ![n] = [NoRun EXCEPT !.job = j, !.kind = kind, !.pc = "begun",
                                         !.left = IF kind = "auto" THEN MaxCycles ELSE 0]]
    BY DEF StartRun
  <1> QED
    BY <1>1, NewRunCycles, OneRunCycles

LEMMA RecheckCycles ==
  ASSUME RunTypes, RunsCycle, NEW n \in Runs, RecheckBacklog(n)
  PROVE  RunsCycle'
  <1>1. runs[n] \in RunRecords /\ Cycling(runs[n]) /\ runs[n].pc = "recheck"
    BY DEF RunTypes, RunsCycle, RecheckBacklog, AtStep
  <1>2. PICK b \in 0 .. MaxBacklog :
       LET streak == IF b < runs[n].backlog THEN 0 ELSE runs[n].streak + 1
       IN CASE runs[n].ctx # "live" -> EndsAs(n, Outcome(runs[n].ctx))
            [] runs[n].ctx = "live" /\ b = 0 -> EndsAs(n, "ended")
            [] runs[n].ctx = "live" /\ b > 0 /\ (streak = MaxStreak \/ runs[n].left = 1) -> EndsAs(n, "ended")
            [] OTHER -> runs' = [runs EXCEPT ![n] = [@ EXCEPT !.pc = "cycle", !.backlog = b,
                                                       !.streak = streak, !.left = runs[n].left - 1]]
    BY DEF RecheckBacklog
  <1> DEFINE streak == IF b < runs[n].backlog THEN 0 ELSE runs[n].streak + 1
  <1>3. CASE runs[n].ctx # "live"
    BY <1>2, <1>3, EndingCycles
  <1>4. CASE runs[n].ctx = "live" /\ (b = 0 \/ streak = MaxStreak \/ runs[n].left = 1)
    <2>1. EndsAs(n, "ended")
      BY <1>2, <1>4, JobBounds
    <2> QED
      BY <2>1, EndingCycles
  <1>5. CASE runs[n].ctx = "live" /\ ~(b = 0 \/ streak = MaxStreak \/ runs[n].left = 1)
    <2> DEFINE r == [runs[n] EXCEPT !.pc = "cycle", !.backlog = b, !.streak = streak, !.left = runs[n].left - 1]
    <2>1. runs' = [runs EXCEPT ![n] = [@ EXCEPT !.pc = "cycle", !.backlog = b, !.streak = streak, !.left = runs[n].left - 1]]
      BY <1>2, <1>5
    <2>2. runs' = [runs EXCEPT ![n] = r]
      BY <2>1 DEF RunTypes
    <2>3. r.left = runs[n].left - 1 /\ r.streak = streak /\ r.kind = runs[n].kind /\ r.pc = "cycle"
      BY <1>1 DEF RunRecords
    <2> HIDE DEF r
    <2>4. Cycling(r)
      <3>1. r.left \in 1 .. MaxCycles
        BY <1>1, <1>5, <2>3, JobBounds DEF Cycling
      <3>2. r.streak \in 0 .. MaxStreak - 1
        BY <1>1, <1>5, <2>3, JobBounds DEF Cycling
      <3> QED
        BY <2>3, <3>1, <3>2, JobBounds DEF Cycling
    <2> QED
      BY <2>2, <2>4, OneRunCycles
  <1> QED
    BY <1>3, <1>4, <1>5

LEMMA SyncCycles ==
  ASSUME RunTypes, RunsCycle, NEW n \in Runs,
         ResumeRun(n) \/ FirstBacklog(n) \/ CycleBegins(n) \/ CycleEnds(n)
  PROVE  RunsCycle'
  <1>1. runs[n] \in RunRecords
    BY DEF RunTypes
  <1>2. ASSUME NEW r, runs' = [runs EXCEPT ![n] = r], r.left = runs[n].left, r.streak = runs[n].streak,
               r.kind = runs[n].kind, r.pc # "recheck"
        PROVE  RunsCycle'
    <2>1. Cycling(r)
      BY <1>2 DEF RunsCycle, Cycling
    <2> QED
      BY <1>2, <2>1, OneRunCycles
  <1>3. CASE ResumeRun(n)
    <2>1. FirstOfSync(n) # "recheck"
      BY DEF FirstOfSync
    <2>2. CASE GoTo(n, FirstOfSync(n))
      BY <2>1, <2>2, GoingCycles
    <2>3. CASE runs' = [runs EXCEPT ![n] = [@ EXCEPT !.resumed = TRUE, !.pc = FirstOfSync(n)]]
      <3> DEFINE r == [runs[n] EXCEPT !.resumed = TRUE, !.pc = FirstOfSync(n)]
      <3>1. runs' = [runs EXCEPT ![n] = r]
        BY <2>3 DEF RunTypes
      <3>2. r.left = runs[n].left /\ r.streak = runs[n].streak /\ r.kind = runs[n].kind /\ r.pc # "recheck"
        BY <1>1, <2>1 DEF RunRecords
      <3> HIDE DEF r
      <3> QED
        BY <1>2, <3>1, <3>2
    <2> QED
      BY <1>3, <2>2, <2>3 DEF ResumeRun
  <1>4. CASE FirstBacklog(n)
    <2>1. PICK b \in 0 .. MaxBacklog :
            CASE runs[n].ctx # "live" -> EndsAs(n, Outcome(runs[n].ctx))
              [] runs[n].ctx = "live" /\ b = 0 -> EndsAs(n, "ended")
              [] OTHER -> runs' = [runs EXCEPT ![n] = [@ EXCEPT !.pc = "cycle", !.backlog = b]]
      BY <1>4 DEF FirstBacklog
    <2>2. CASE runs[n].ctx # "live"
      BY <2>1, <2>2, EndingCycles
    <2>3. CASE runs[n].ctx = "live" /\ b = 0
      BY <2>1, <2>3, EndingCycles
    <2>4. CASE runs[n].ctx = "live" /\ b # 0
      <3> DEFINE r == [runs[n] EXCEPT !.pc = "cycle", !.backlog = b]
      <3>1. runs' = [runs EXCEPT ![n] = r]
        BY <2>1, <2>4 DEF RunTypes
      <3>2. r.left = runs[n].left /\ r.streak = runs[n].streak /\ r.kind = runs[n].kind /\ r.pc # "recheck"
        BY <1>1 DEF RunRecords
      <3> HIDE DEF r
      <3> QED
        BY <1>2, <3>1, <3>2
    <2> QED
      BY <2>2, <2>3, <2>4
  <1>5. CASE CycleBegins(n)
    <2>1. CASE runs' = [runs EXCEPT ![n] = [@ EXCEPT !.pc = "crawl", !.ran = TRUE]]
      <3> DEFINE r == [runs[n] EXCEPT !.pc = "crawl", !.ran = TRUE]
      <3>1. runs' = [runs EXCEPT ![n] = r]
        BY <2>1 DEF RunTypes
      <3>2. r.left = runs[n].left /\ r.streak = runs[n].streak /\ r.kind = runs[n].kind /\ r.pc # "recheck"
        BY <1>1 DEF RunRecords
      <3> HIDE DEF r
      <3> QED
        BY <1>2, <3>1, <3>2
    <2> QED
      BY <1>5, <2>1, EndingCycles DEF CycleBegins
  <1>6. CASE CycleEnds(n)
    BY <1>6, EndingCycles, GoingCycles DEF CycleEnds
  <1> QED
    BY <1>3, <1>4, <1>5, <1>6

LEMMA FetchCycles ==
  ASSUME RunTypes, RunsCycle, NEW n \in Runs,
         StartHistory(n) \/ FetchEnds(n) \/ FallbackAsks(n) \/ FallbackStarts(n) \/ FinishHistory(n)
  PROVE  RunsCycle'
  <1>1. CASE StartHistory(n)
    BY <1>1, GoingCycles DEF StartHistory
  <1>2. CASE FetchEnds(n)
    BY <1>2, EndingCycles, GoingCycles DEF FetchEnds
  <1>3. CASE FallbackAsks(n)
    <2>1. GoTo(n, "finish") \/ GoTo(n, "fallback_database") \/ GoTo(n, "fallback_start")
      BY <1>3 DEF FallbackAsks
    <2> QED
      BY <2>1, GoingCycles
  <1>4. CASE FallbackStarts(n)
    <2>1. CASE GoTo(n, "finish")
      BY <2>1, GoingCycles
    <2>2. CASE ~GoTo(n, "finish")
      <3> DEFINE q == [NoRun EXCEPT !.job = "pcgw_sync", !.kind = "incremental", !.pc = "begun"]
      <3>1. PICK m \in Runs : runs' = [runs EXCEPT ![n].pc = "finish", ![m] = q]
        BY <1>4, <2>2 DEF FallbackStarts
      <3>2. Cycling(q)
        BY NewRunCycles
      <3> HIDE DEF q
      <3>3. runs[n] \in RunRecords
        BY DEF RunTypes
      <3>4. \A k \in Runs : runs'[k] = IF k = m THEN q ELSE IF k = n THEN [runs[n] EXCEPT !.pc = "finish"] ELSE runs[k]
        BY <3>1 DEF RunTypes
      <3>5. Cycling([runs[n] EXCEPT !.pc = "finish"])
        BY <3>3 DEF RunsCycle, Cycling, RunRecords
      <3> QED
        BY <3>2, <3>4, <3>5 DEF RunsCycle, Cycling
    <2> QED
      BY <2>1, <2>2
  <1>5. CASE FinishHistory(n)
    BY <1>5, GoingCycles DEF FinishHistory
  <1> QED
    BY <1>1, <1>2, <1>3, <1>4, <1>5

LEMMA AnyRunCycles ==
  ASSUME RunTypes, RunsCycle, NEW n \in Runs,
         RegisterCancel(n) \/ LogJobStart(n) \/ PlainWork(n) \/ FinishJobRun(n) \/ CleanupRun(n) \/ RunTimesOut(n)
  PROVE  RunsCycle'
  <1>1. runs[n] \in RunRecords
    BY DEF RunTypes
  <1>2. CASE RegisterCancel(n)
    BY <1>2, GoingCycles DEF RegisterCancel
  <1>3. CASE LogJobStart(n)
    <2>1. GoTo(n, "resume") \/ GoTo(n, "history") \/ GoTo(n, "work")
      BY <1>3 DEF LogJobStart
    <2> QED
      BY <2>1, GoingCycles
  <1>4. CASE PlainWork(n)
    BY <1>4, EndingCycles DEF PlainWork
  <1>5. CASE FinishJobRun(n)
    <2>1. GoTo(n, "finish_history") \/ GoTo(n, "cleanup")
      BY <1>5 DEF FinishJobRun
    <2> QED
      BY <2>1, GoingCycles
  <1>6. CASE CleanupRun(n)
    <2>1. runs' = [runs EXCEPT ![n] = Ended(runs[n])]
      BY <1>6 DEF CleanupRun, RunTypes
    <2>2. Cycling(Ended(runs[n]))
      BY JobBounds DEF Ended, NoRun, Cycling
    <2> QED
      BY <2>1, <2>2, OneRunCycles
  <1>7. CASE RunTimesOut(n)
    <2> DEFINE r == [runs[n] EXCEPT !.ctx = "expired"]
    <2>1. runs' = [runs EXCEPT ![n] = r]
      BY <1>7 DEF RunTimesOut, RunTypes
    <2>2. Cycling(r)
      BY <1>1 DEF RunsCycle, Cycling, RunRecords
    <2> HIDE DEF r
    <2> QED
      BY <2>1, <2>2, OneRunCycles
  <1> QED
    BY <1>2, <1>3, <1>4, <1>5, <1>6, <1>7

LEMMA StoppingCycles ==
  ASSUME JobInv, RunsCycle, CancelStep \/ RestartServer
  PROVE  RunsCycle'
  <1>1. RunTypes /\ HandleTypes
    BY DEF JobInv
  <1>2. CASE CancelSync
    <2> DEFINE c == handles["pcgw_sync"].cancel
    <2>1. runs' = [runs EXCEPT ![c].ctx = IF @ = "live" THEN "canceled" ELSE @]
      BY <1>2 DEF CancelSync, Cancelled
    <2>2. \A m \in Runs : runs'[m] \in {runs[m], [runs[m] EXCEPT !.ctx = "canceled"]}
      <3>1. ASSUME NEW m \in Runs
            PROVE  runs'[m] = IF m = c THEN [runs[c] EXCEPT !.ctx = IF runs[c].ctx = "live" THEN "canceled" ELSE runs[c].ctx]
                              ELSE runs[m]
        BY <1>1, <2>1 DEF RunTypes
      <3>2. ASSUME NEW m \in Runs, runs[m].ctx # "live" PROVE [runs[m] EXCEPT !.ctx = runs[m].ctx] = runs[m]
        BY <1>1 DEF RunTypes, RunRecords
      <3> QED
        BY <3>1, <3>2
    <2>3. \A m \in Runs : /\ runs'[m].left = runs[m].left /\ runs'[m].streak = runs[m].streak
                          /\ runs'[m].kind = runs[m].kind /\ runs'[m].pc = runs[m].pc
      BY <1>1, <2>2 DEF RunTypes, RunRecords
    <2> QED
      BY <2>3, SameCycles
  <1>3. CASE CancelMarksSync \/ CancelMarksJob
    BY <1>3 DEF CancelMarksSync, CancelMarksJob, RunsCycle, Cycling
  <1>4. CASE CancelAll
    <2>1. \A m \in Runs : runs'[m] \in {runs[m], [runs[m] EXCEPT !.ctx = "canceled"]}
      BY <1>4 DEF CancelAll
    <2>2. \A m \in Runs : /\ runs'[m].left = runs[m].left /\ runs'[m].streak = runs[m].streak
                          /\ runs'[m].kind = runs[m].kind /\ runs'[m].pc = runs[m].pc
      BY <1>1, <2>1 DEF RunTypes, RunRecords
    <2> QED
      BY <2>2, SameCycles
  <1>5. CASE RestartServer
    <2>1. \A m \in Runs : runs'[m] \in {runs[m], Ended(runs[m])}
      BY <1>5 DEF RestartServer
    <2>2. \A m \in Runs : Cycling(Ended(runs[m]))
      BY JobBounds DEF Ended, NoRun, Cycling
    <2>3. \A m \in Runs : Cycling(runs'[m])
      BY <2>1, <2>2 DEF RunsCycle
    <2> QED
      BY <2>3 DEF RunsCycle, Cycling
  <1> QED
    BY <1>2, <1>3, <1>4, <1>5 DEF CancelStep

LEMMA CallersStay ==
  ASSUME JobInv, CallersAre, [JobNext]_jobVars
  PROVE  CallersAre'
  <1>1. upsets' \in 0 .. MaxUpsets
    <2>1. upsets' = upsets \/ Upset
      BY DEF JobNext, AskStep, CancelStep, RunStep, AskFirst, AskDatabase, AskAgain, CancelSync, CancelMarksSync,
             CancelMarksJob, CancelAll, RestartServer, RunTimesOut, RegisterCancel, LogJobStart, PlainWork, ResumeRun,
             FirstBacklog, CycleBegins, CycleEnds, RecheckBacklog, StartHistory, FetchEnds, FallbackAsks,
             FallbackStarts, FinishHistory, FinishJobRun, CleanupRun, jobVars
    <2> QED
      BY <2>1, JobBounds DEF Upset, CallersAre
  <1>2. asks' \subseteq {"database", "start"} \X Jobs
    <2>1. asks' \subseteq asks \/ \E j \in Jobs : asks' \subseteq asks \cup {<<"database", j>>, <<"start", j>>}
      BY DEF JobNext, AskStep, CancelStep, RunStep, AskFirst, AskDatabase, AskAgain, CancelSync, CancelMarksSync,
             CancelMarksJob, CancelAll, RestartServer, RunTimesOut, RegisterCancel, LogJobStart, PlainWork, ResumeRun,
             FirstBacklog, CycleBegins, CycleEnds, RecheckBacklog, StartHistory, FetchEnds, FallbackAsks,
             FallbackStarts, FinishHistory, FinishJobRun, CleanupRun, jobVars
    <2> QED
      BY <2>1 DEF CallersAre
  <1>3. resumable' \in BOOLEAN
    BY DEF JobNext, AskStep, CancelStep, RunStep, AskFirst, AskDatabase, AskAgain, CancelSync, CancelMarksSync,
           CancelMarksJob, CancelAll, RestartServer, RunTimesOut, RegisterCancel, LogJobStart, PlainWork, ResumeRun,
           FirstBacklog, CycleBegins, CycleEnds, RecheckBacklog, StartHistory, FetchEnds, FallbackAsks,
           FallbackStarts, FinishHistory, FinishJobRun, CleanupRun, jobVars, CallersAre
  <1>4. running' \subseteq Jobs
    <2>1. running' \subseteq running \/ \E j \in Jobs : running' = running \cup {j}
      BY DEF JobNext, AskStep, CancelStep, RunStep, AskFirst, AskDatabase, AskAgain, CancelSync, CancelMarksSync,
             CancelMarksJob, CancelAll, RestartServer, RunTimesOut, RegisterCancel, LogJobStart, PlainWork, ResumeRun,
             FirstBacklog, CycleBegins, CycleEnds, RecheckBacklog, StartHistory, FetchEnds, FallbackAsks,
             FallbackStarts, FinishHistory, FinishJobRun, CleanupRun, StartRun, Jobs, jobVars
    <2> QED
      BY <2>1 DEF CallersAre
  <1> QED
    BY <1>1, <1>2, <1>3, <1>4 DEF CallersAre

\* The bounds hold, beside JobInv.
LEMMA JobSmallHolds == JobInit /\ [][JobNext]_jobVars => [](JobInv /\ JobSmall)
  <1>1. JobInit => JobSmall
    <2> SUFFICES ASSUME JobInit PROVE JobSmall
      OBVIOUS
    <2>1. \A n \in Runs : runs[n] = NoRun
      BY DEF JobInit
    <2>2. RunsCycle
      BY <2>1, NewRunCycles DEF RunsCycle
    <2>3. running = {} /\ asks = {} /\ resumable = FALSE /\ upsets = 0 /\ MaxUpsets \in Nat
      BY JobBounds DEF JobInit
    <2>4. running \subseteq Jobs /\ asks \subseteq {"database", "start"} \X Jobs
      BY <2>3
    <2>5. resumable \in BOOLEAN
      BY <2>3
    <2>6. upsets \in 0 .. MaxUpsets
      BY <2>3
    <2> QED
      BY <2>2, <2>4, <2>5, <2>6 DEF JobSmall, CallersAre
  <1>2. JobInv /\ JobSmall /\ [JobNext]_jobVars => JobSmall'
    <2> SUFFICES ASSUME JobInv, JobSmall, [JobNext]_jobVars PROVE RunsCycle'
      BY CallersStay DEF JobSmall
    <2>1. RunTypes /\ RunsCycle
      BY DEF JobInv, JobSmall
    <2>2. CASE \E n \in Runs : RunStep(n) \/ RunTimesOut(n)
      BY <2>1, <2>2, RecheckCycles, SyncCycles, FetchCycles, AnyRunCycles DEF RunStep
    <2>3. CASE CancelStep \/ RestartServer
      BY <2>1, <2>3, StoppingCycles
    <2>4. CASE AskStep
      <3>1. UNCHANGED runs \/ \E j \in Jobs : StartRun(j)
        BY <2>4 DEF AskStep, AskFirst, AskDatabase, AskAgain
      <3>2. UNCHANGED runs => RunsCycle'
        BY <2>1 DEF RunsCycle, Cycling
      <3> QED
        BY <2>1, <3>1, <3>2, StartCycles
    <2>5. CASE UNCHANGED jobVars
      BY <2>1, <2>5 DEF RunsCycle, Cycling, jobVars
    <2> QED
      BY <2>2, <2>3, <2>4, <2>5 DEF JobNext
  <1> QED
    BY <1>1, <1>2, JobInvHolds, JobStepKeeps, PTL

\* No run of auto catch-up makes more cycles than the limit, or more without
\* progress, and every handle and row is of a run there is.
LEMMA JobTyped == JobInit /\ [][JobNext]_jobVars => []JobTypeOK
  <1>1. JobInv /\ JobSmall => JobTypeOK
    <2> SUFFICES ASSUME JobInv, JobSmall PROVE JobTypeOK
      OBVIOUS
    <2>1. \A n \in Runs : /\ runs[n].job \in Jobs /\ runs[n].kind \in Kinds
                          /\ runs[n].left \in 0 .. MaxCycles /\ runs[n].streak \in 0 .. MaxStreak - 1
      BY DEF JobInv, RunTypes, RunRecords, JobSmall, RunsCycle, Cycling
    <2> QED
      BY <2>1 DEF JobInv, HandleTypes, RowTypes, JobSmall, CallersAre, JobTypeOK
  <1> QED
    BY <1>1, JobSmallHolds, PTL

---------------------------------------------------------------------------
(* A run has an end: how far it is from it, at most. *)

\* The steps from a place to the end, were there no further cycle.
Remaining(pc) ==
  CASE pc = "begun" -> 14 [] pc = "log" -> 13 [] pc \in {"resume", "history", "work"} -> 12
    [] pc \in {"backlog", "fetch"} -> 11 [] pc \in {"cycle", "fallback"} -> 10
    [] pc \in {"crawl", "fallback_database"} -> 9 [] pc \in {"recheck", "fallback_start"} -> 8
    [] pc = "finish" -> 7 [] pc = "finish_history" -> 6 [] pc = "cleanup" -> 5 [] OTHER -> 0

\* A cycle of auto catch-up is three steps: it begins, it ends, the backlog is looked at.
ToGo(r) == 3 * r.left + Remaining(r.pc)

\* One run gets nearer to its end, and the others that are under way stay.
Nearer(n) ==
  /\ ToGo(runs'[n]) \in Nat /\ ToGo(runs'[n]) < ToGo(runs[n])
  /\ \A m \in Runs \ {n} : LiveRun(m) => runs'[m] = runs[m]

LEMMA OneNearer ==
  ASSUME RunTypes, RunsCycle, NEW n \in Runs, NEW r, runs' = [runs EXCEPT ![n] = r], r.left \in Nat,
         \/ r.left = runs[n].left /\ Remaining(r.pc) < Remaining(runs[n].pc)
         \/ r.left = 0 /\ Remaining(r.pc) < Remaining(runs[n].pc)
         \/ r.left = runs[n].left - 1 /\ Remaining(r.pc) < Remaining(runs[n].pc) + 3
  PROVE  Nearer(n)
  <1>1. runs'[n] = r /\ \A m \in Runs \ {n} : runs'[m] = runs[m]
    BY DEF RunTypes
  <1>2. runs[n].left \in Nat
    BY JobBounds DEF RunsCycle, Cycling
  <1>3. Remaining(r.pc) \in Nat /\ Remaining(runs[n].pc) \in Nat
    BY DEF Remaining
  <1>4. ToGo(r) \in Nat /\ ToGo(r) < ToGo(runs[n])
    BY <1>2, <1>3 DEF ToGo
  <1> QED
    BY <1>1, <1>4 DEF Nearer

LEMMA GoingIsNearer ==
  ASSUME RunTypes, RunsCycle, NEW n \in Runs, NEW pc, GoTo(n, pc), Remaining(pc) < Remaining(runs[n].pc)
  PROVE  Nearer(n)
  <1> DEFINE r == [runs[n] EXCEPT !.pc = pc]
  <1>1. runs[n] \in RunRecords /\ runs[n].left \in Nat
    BY JobBounds DEF RunTypes, RunsCycle, Cycling
  <1>2. r.left = runs[n].left /\ r.pc = pc
    BY <1>1 DEF RunRecords
  <1>3. runs' = [runs EXCEPT ![n] = r]
    BY DEF GoTo, RunTypes
  <1> HIDE DEF r
  <1> QED
    BY <1>1, <1>2, <1>3, OneNearer

LEMMA EndingIsNearer ==
  ASSUME RunTypes, RunsCycle, NEW n \in Runs, NEW out, EndsAs(n, out), Remaining("finish") < Remaining(runs[n].pc)
  PROVE  Nearer(n)
  <1> DEFINE r == [runs[n] EXCEPT !.pc = "finish", !.out = out, !.kind = "fresh", !.left = 0, !.streak = 0, !.backlog = 0]
  <1>1. runs[n] \in RunRecords
    BY DEF RunTypes
  <1>2. r.left = 0 /\ r.pc = "finish"
    BY <1>1 DEF RunRecords
  <1>3. runs' = [runs EXCEPT ![n] = r]
    BY DEF EndsAs, RunTypes
  <1> HIDE DEF r
  <1>4. r.left \in Nat /\ Remaining(r.pc) < Remaining(runs[n].pc)
    BY <1>2
  <1> QED
    BY <1>2, <1>3, <1>4, OneNearer

LEMMA SyncIsNearer ==
  ASSUME RunTypes, RunsCycle, NEW n \in Runs,
         ResumeRun(n) \/ FirstBacklog(n) \/ CycleBegins(n) \/ CycleEnds(n)
  PROVE  Nearer(n)
  <1>1. runs[n] \in RunRecords /\ runs[n].left \in Nat
    BY JobBounds DEF RunTypes, RunsCycle, Cycling
  <1>2. ASSUME NEW r, runs' = [runs EXCEPT ![n] = r], r.left = runs[n].left,
               Remaining(r.pc) < Remaining(runs[n].pc)
        PROVE  Nearer(n)
    BY <1>1, <1>2, OneNearer
  <1>3. CASE ResumeRun(n)
    <2>1. Remaining(FirstOfSync(n)) < Remaining(runs[n].pc)
      BY <1>3 DEF FirstOfSync, Remaining, ResumeRun, AtStep
    <2>2. CASE GoTo(n, FirstOfSync(n))
      BY <2>1, <2>2, GoingIsNearer
    <2>3. CASE runs' = [runs EXCEPT ![n] = [@ EXCEPT !.resumed = TRUE, !.pc = FirstOfSync(n)]]
      <3> DEFINE r == [runs[n] EXCEPT !.resumed = TRUE, !.pc = FirstOfSync(n)]
      <3>1. runs' = [runs EXCEPT ![n] = r]
        BY <2>3 DEF RunTypes
      <3>2. r.left = runs[n].left /\ r.pc = FirstOfSync(n)
        BY <1>1 DEF RunRecords
      <3> HIDE DEF r
      <3> QED
        BY <1>2, <2>1, <3>1, <3>2
    <2> QED
      BY <1>3, <2>2, <2>3 DEF ResumeRun
  <1>4. CASE FirstBacklog(n)
    <2>1. PICK b \in 0 .. MaxBacklog :
            CASE runs[n].ctx # "live" -> EndsAs(n, Outcome(runs[n].ctx))
              [] runs[n].ctx = "live" /\ b = 0 -> EndsAs(n, "ended")
              [] OTHER -> runs' = [runs EXCEPT ![n] = [@ EXCEPT !.pc = "cycle", !.backlog = b]]
      BY <1>4 DEF FirstBacklog
    <2>2. /\ Remaining("finish") < Remaining(runs[n].pc)
          /\ Remaining("cycle") < Remaining(runs[n].pc)
      <3>1. runs[n].pc = "backlog"
        BY <1>4 DEF FirstBacklog, AtStep
      <3> QED
        BY <3>1 DEF Remaining
    <2>3. CASE runs[n].ctx # "live" \/ b = 0
      <3>1. EndsAs(n, Outcome(runs[n].ctx)) \/ EndsAs(n, "ended")
        BY <2>1, <2>3
      <3> QED
        BY <2>2, <3>1, EndingIsNearer
    <2>4. CASE runs[n].ctx = "live" /\ b # 0
      <3> DEFINE r == [runs[n] EXCEPT !.pc = "cycle", !.backlog = b]
      <3>1. runs' = [runs EXCEPT ![n] = r]
        BY <2>1, <2>4 DEF RunTypes
      <3>2. r.left = runs[n].left /\ r.pc = "cycle"
        BY <1>1 DEF RunRecords
      <3> HIDE DEF r
      <3> QED
        BY <1>2, <2>2, <3>1, <3>2
    <2> QED
      BY <2>3, <2>4
  <1>5. CASE CycleBegins(n)
    <2>1. /\ Remaining("finish") < Remaining(runs[n].pc)
          /\ Remaining("crawl") < Remaining(runs[n].pc)
      BY <1>5 DEF CycleBegins, AtStep, Remaining
    <2>2. CASE runs' = [runs EXCEPT ![n] = [@ EXCEPT !.pc = "crawl", !.ran = TRUE]]
      <3> DEFINE r == [runs[n] EXCEPT !.pc = "crawl", !.ran = TRUE]
      <3>1. runs' = [runs EXCEPT ![n] = r]
        BY <2>2 DEF RunTypes
      <3>2. r.left = runs[n].left /\ r.pc = "crawl"
        BY <1>1 DEF RunRecords
      <3> HIDE DEF r
      <3> QED
        BY <1>2, <2>1, <3>1, <3>2
    <2> QED
      BY <1>5, <2>1, <2>2, EndingIsNearer DEF CycleBegins
  <1>6. CASE CycleEnds(n)
    <2>1. /\ Remaining("finish") < Remaining(runs[n].pc)
          /\ Remaining("recheck") < Remaining(runs[n].pc)
      BY <1>6 DEF CycleEnds, AtStep, Remaining
    <2> QED
      BY <1>6, <2>1, EndingIsNearer, GoingIsNearer DEF CycleEnds
  <1> QED
    BY <1>3, <1>4, <1>5, <1>6

\* Another cycle costs one of those that are left.
LEMMA RecheckIsNearer ==
  ASSUME RunTypes, RunsCycle, NEW n \in Runs, RecheckBacklog(n)
  PROVE  Nearer(n)
  <1>1. runs[n] \in RunRecords /\ Cycling(runs[n]) /\ runs[n].pc = "recheck"
    BY DEF RunTypes, RunsCycle, RecheckBacklog, AtStep
  <1>2. PICK b \in 0 .. MaxBacklog :
       LET streak == IF b < runs[n].backlog THEN 0 ELSE runs[n].streak + 1
       IN CASE runs[n].ctx # "live" -> EndsAs(n, Outcome(runs[n].ctx))
            [] runs[n].ctx = "live" /\ b = 0 -> EndsAs(n, "ended")
            [] runs[n].ctx = "live" /\ b > 0 /\ (streak = MaxStreak \/ runs[n].left = 1) -> EndsAs(n, "ended")
            [] OTHER -> runs' = [runs EXCEPT ![n] = [@ EXCEPT !.pc = "cycle", !.backlog = b,
                                                       !.streak = streak, !.left = runs[n].left - 1]]
    BY DEF RecheckBacklog
  <1> DEFINE streak == IF b < runs[n].backlog THEN 0 ELSE runs[n].streak + 1
             r == [runs[n] EXCEPT !.pc = "cycle", !.backlog = b, !.streak = streak, !.left = runs[n].left - 1]
  <1>3. /\ Remaining("finish") < Remaining(runs[n].pc)
        /\ Remaining("cycle") < Remaining(runs[n].pc) + 3
    BY <1>1 DEF Remaining
  <1>4. \/ EndsAs(n, Outcome(runs[n].ctx)) \/ EndsAs(n, "ended")
        \/ runs' = [runs EXCEPT ![n] = [@ EXCEPT !.pc = "cycle", !.backlog = b, !.streak = streak, !.left = runs[n].left - 1]]
    BY <1>2
  <1>5. CASE runs' = [runs EXCEPT ![n] = [@ EXCEPT !.pc = "cycle", !.backlog = b, !.streak = streak, !.left = runs[n].left - 1]]
    <2>1. runs' = [runs EXCEPT ![n] = r]
      BY <1>5 DEF RunTypes
    <2>2. r.left = runs[n].left - 1 /\ r.pc = "cycle"
      BY <1>1 DEF RunRecords
    <2>3. runs[n].left - 1 \in Nat
      BY <1>1, JobBounds DEF Cycling
    <2> HIDE DEF r
    <2> QED
      BY <1>3, <2>1, <2>2, <2>3, OneNearer
  <1> QED
    BY <1>3, <1>4, <1>5, EndingIsNearer

LEMMA FetchIsNearer ==
  ASSUME RunTypes, RunsCycle, NEW n \in Runs,
         StartHistory(n) \/ FetchEnds(n) \/ FallbackAsks(n) \/ FallbackStarts(n) \/ FinishHistory(n)
  PROVE  Nearer(n)
  <1>1. CASE StartHistory(n)
    <2>1. Remaining("fetch") < Remaining(runs[n].pc)
      BY <1>1 DEF StartHistory, AtStep, Remaining
    <2> QED
      BY <1>1, <2>1, GoingIsNearer DEF StartHistory
  <1>2. CASE FetchEnds(n)
    <2>1. Remaining("finish") < Remaining(runs[n].pc) /\ Remaining("fallback") < Remaining(runs[n].pc)
      BY <1>2 DEF FetchEnds, AtStep, Remaining
    <2> QED
      BY <1>2, <2>1, EndingIsNearer, GoingIsNearer DEF FetchEnds
  <1>3. CASE FallbackAsks(n)
    <2>1. PICK pc : GoTo(n, pc) /\ Remaining(pc) < Remaining(runs[n].pc)
      <3>1. CASE AtStep(n, "fallback") /\ (GoTo(n, "finish") \/ GoTo(n, "fallback_database"))
        BY <3>1 DEF AtStep, Remaining
      <3>2. CASE AtStep(n, "fallback_database") /\ (GoTo(n, "finish") \/ GoTo(n, "fallback_start"))
        BY <3>2 DEF AtStep, Remaining
      <3> QED
        BY <1>3, <3>1, <3>2 DEF FallbackAsks
    <2> QED
      BY <2>1, GoingIsNearer
  <1>4. CASE FallbackStarts(n)
    <2>1. Remaining("finish") < Remaining(runs[n].pc) /\ Remaining(runs[n].pc) = 8 /\ Remaining("finish") = 7
      BY <1>4 DEF FallbackStarts, AtStep, Remaining
    <2>2. CASE GoTo(n, "finish")
      BY <2>1, <2>2, GoingIsNearer
    <2>3. CASE ~GoTo(n, "finish")
      <3> DEFINE q == [NoRun EXCEPT !.job = "pcgw_sync", !.kind = "incremental", !.pc = "begun"]
      <3>1. PICK m \in Runs : AtStep(m, "new") /\ runs' = [runs EXCEPT ![n].pc = "finish", ![m] = q]
        BY <1>4, <2>3 DEF FallbackStarts
      <3>2. m # n
        BY <1>4, <3>1 DEF FallbackStarts, AtStep
      <3> HIDE DEF q
      <3>3. runs[n] \in RunRecords /\ runs[n].left \in Nat
        BY JobBounds DEF RunTypes, RunsCycle, Cycling
      <3>4. \A k \in Runs : runs'[k] = IF k = m THEN q ELSE IF k = n THEN [runs[n] EXCEPT !.pc = "finish"] ELSE runs[k]
        BY <3>1, <3>2 DEF RunTypes
      <3>5. runs'[n].pc = "finish" /\ runs'[n].left = runs[n].left
        BY <3>2, <3>3, <3>4 DEF RunRecords
      <3>6. ToGo(runs'[n]) \in Nat /\ ToGo(runs'[n]) < ToGo(runs[n])
        BY <2>1, <3>3, <3>5 DEF ToGo
      <3>7. \A k \in Runs \ {n} : LiveRun(k) => runs'[k] = runs[k]
        BY <3>1, <3>4 DEF LiveRun, AtStep
      <3> QED
        BY <3>6, <3>7 DEF Nearer
    <2> QED
      BY <2>2, <2>3
  <1>5. CASE FinishHistory(n)
    <2>1. Remaining("cleanup") < Remaining(runs[n].pc)
      BY <1>5 DEF FinishHistory, AtStep, Remaining
    <2> QED
      BY <1>5, <2>1, GoingIsNearer DEF FinishHistory
  <1> QED
    BY <1>1, <1>2, <1>3, <1>4, <1>5

LEMMA AnyRunIsNearer ==
  ASSUME RunTypes, RunsCycle, NEW n \in Runs,
         RegisterCancel(n) \/ LogJobStart(n) \/ PlainWork(n) \/ FinishJobRun(n) \/ CleanupRun(n)
  PROVE  Nearer(n)
  <1>1. CASE RegisterCancel(n)
    <2>1. Remaining("log") < Remaining(runs[n].pc)
      BY <1>1 DEF RegisterCancel, AtStep, Remaining
    <2> QED
      BY <1>1, <2>1, GoingIsNearer DEF RegisterCancel
  <1>2. CASE LogJobStart(n)
    <2>1. \A pc \in {"resume", "history", "work"} : Remaining(pc) < Remaining(runs[n].pc)
      BY <1>2 DEF LogJobStart, AtStep, Remaining
    <2>2. PICK pc \in {"resume", "history", "work"} : GoTo(n, pc)
      BY <1>2 DEF LogJobStart
    <2> QED
      BY <2>1, <2>2, GoingIsNearer
  <1>3. CASE PlainWork(n)
    <2>1. Remaining("finish") < Remaining(runs[n].pc)
      BY <1>3 DEF PlainWork, AtStep, Remaining
    <2> QED
      BY <1>3, <2>1, EndingIsNearer DEF PlainWork
  <1>4. CASE FinishJobRun(n)
    <2>1. \A pc \in {"finish_history", "cleanup"} : Remaining(pc) < Remaining(runs[n].pc)
      BY <1>4 DEF FinishJobRun, AtStep, Remaining
    <2>2. PICK pc \in {"finish_history", "cleanup"} : GoTo(n, pc)
      BY <1>4 DEF FinishJobRun
    <2> QED
      BY <2>1, <2>2, GoingIsNearer
  <1>5. CASE CleanupRun(n)
    <2>1. runs' = [runs EXCEPT ![n] = Ended(runs[n])]
      BY <1>5 DEF CleanupRun, RunTypes
    <2>2. Ended(runs[n]).left = 0 /\ Ended(runs[n]).pc = "ended"
      BY DEF Ended, NoRun
    <2>3. Remaining("ended") < Remaining(runs[n].pc)
      BY <1>5 DEF CleanupRun, AtStep, Remaining
    <2> DEFINE r == Ended(runs[n])
    <2>4. runs' = [runs EXCEPT ![n] = r] /\ r.left = 0 /\ r.pc = "ended"
      BY <2>1, <2>2
    <2> HIDE DEF r
    <2>5. r.left \in Nat /\ Remaining(r.pc) < Remaining(runs[n].pc)
      BY <2>3, <2>4
    <2> QED
      BY <2>4, <2>5, OneNearer
  <1> QED
    BY <1>1, <1>2, <1>3, <1>4, <1>5

\* What is not a step of a run takes no live run further from its end.
LEMMA NothingGoesBack ==
  ASSUME JobInv, RunsCycle, NEW n \in Runs, LiveRun(n),
         \/ AskStep \/ CancelStep \/ RestartServer \/ UNCHANGED jobVars
         \/ \E m \in Runs : RunTimesOut(m)
  PROVE  ToGo(runs'[n]) <= ToGo(runs[n])
  <1>1. RunTypes /\ HandleTypes /\ runs[n] \in RunRecords /\ runs[n].left \in Nat
    BY JobBounds DEF JobInv, RunTypes, RunsCycle, Cycling
  <1>2. ASSUME runs'[n].left = runs[n].left, runs'[n].pc = runs[n].pc
        PROVE  ToGo(runs'[n]) <= ToGo(runs[n])
    <2>1. ToGo(runs[n]) \in Nat
      BY <1>1 DEF ToGo, Remaining
    <2> QED
      BY <1>2, <2>1 DEF ToGo
  <1>3. CASE AskStep
    <2>1. UNCHANGED runs \/ \E j \in Jobs : StartRun(j)
      BY <1>3 DEF AskStep, AskFirst, AskDatabase, AskAgain
    <2>2. runs'[n] = runs[n]
      BY <1>1, <2>1 DEF StartRun, AtStep, LiveRun, RunTypes
    <2> QED
      BY <1>2, <2>2
  <1>4. CASE CancelMarksSync \/ CancelMarksJob \/ UNCHANGED jobVars
    BY <1>2, <1>4 DEF CancelMarksSync, CancelMarksJob, jobVars
  <1>5. ASSUME NEW ctx, runs'[n] = [runs[n] EXCEPT !.ctx = ctx]
        PROVE  ToGo(runs'[n]) <= ToGo(runs[n])
    BY <1>1, <1>2, <1>5 DEF RunRecords
  <1>6. CASE CancelSync
    <2> DEFINE c == handles["pcgw_sync"].cancel
    <2>1. runs' = [runs EXCEPT ![c].ctx = IF @ = "live" THEN "canceled" ELSE @]
      BY <1>6 DEF CancelSync, Cancelled
    <2>2. runs'[n] = runs[n] \/ \E ctx : runs'[n] = [runs[n] EXCEPT !.ctx = ctx]
      BY <1>1, <2>1 DEF RunTypes
    <2> QED
      BY <1>2, <1>5, <2>2
  <1>7. CASE CancelAll
    <2>1. runs'[n] = runs[n] \/ runs'[n] = [runs[n] EXCEPT !.ctx = "canceled"]
      BY <1>7 DEF CancelAll
    <2> QED
      BY <1>2, <1>5, <2>1
  <1>8. CASE RestartServer
    <2>1. runs'[n] = Ended(runs[n])
      BY <1>8 DEF RestartServer
    <2>2. runs'[n].left = 0 /\ runs'[n].pc = "ended"
      BY <2>1 DEF Ended, NoRun
    <2> QED
      BY <1>1, <2>2 DEF ToGo, Remaining
  <1>9. CASE \E m \in Runs : RunTimesOut(m)
    <2>1. PICK m \in Runs : runs' = [runs EXCEPT ![m].ctx = "expired"]
      BY <1>9 DEF RunTimesOut
    <2>2. runs'[n] = runs[n] \/ runs'[n] = [runs[n] EXCEPT !.ctx = "expired"]
      BY <1>1, <2>1 DEF RunTypes
    <2> QED
      BY <1>2, <1>5, <2>2
  <1> QED
    BY <1>3, <1>4, <1>6, <1>7, <1>8, <1>9 DEF CancelStep

RunsDwindle ==
  \A n \in Runs : /\ RunStep(n) => ToGo(runs'[n]) < ToGo(runs[n])
                  /\ LiveRun(n) => ToGo(runs'[n]) <= ToGo(runs[n])

\* Why every job ends (JobsEnd): each step of a run takes it nearer to its end,
\* auto catch-up's next cycle too, and nothing anybody else does (another run, a
\* caller, a cancellation, a time limit, a restart) takes it further away.
THEOREM RunsGetNearer == JobSpec => [][RunsDwindle]_jobVars
  <1>1. JobInv /\ JobSmall /\ [JobNext]_jobVars => [RunsDwindle]_jobVars
    <2> SUFFICES ASSUME JobInv, JobSmall, [JobNext]_jobVars, NEW n \in Runs
                 PROVE  /\ RunStep(n) => ToGo(runs'[n]) < ToGo(runs[n])
                        /\ LiveRun(n) => ToGo(runs'[n]) <= ToGo(runs[n])
      BY DEF RunsDwindle
    <2>1. RunTypes /\ RunsCycle /\ runs[n].left \in Nat
      BY JobBounds DEF JobInv, JobSmall, RunsCycle, Cycling
    <2>2. ASSUME NEW m \in Runs, RunStep(m) PROVE Nearer(m)
      BY <2>1, <2>2, SyncIsNearer, RecheckIsNearer, FetchIsNearer, AnyRunIsNearer DEF RunStep
    <2>3. RunStep(n) => ToGo(runs'[n]) < ToGo(runs[n])
      BY <2>2 DEF Nearer
    <2>4. ASSUME LiveRun(n) PROVE ToGo(runs'[n]) <= ToGo(runs[n])
      <3>1. CASE \E m \in Runs : RunStep(m)
        <4>1. PICK m \in Runs : Nearer(m)
          BY <2>2, <3>1
        <4>2. (ToGo(runs'[n]) \in Nat /\ ToGo(runs'[n]) < ToGo(runs[n])) \/ runs'[n] = runs[n]
          BY <2>4, <4>1 DEF Nearer
        <4>3. ToGo(runs[n]) \in Nat /\ (runs'[n] = runs[n] => ToGo(runs'[n]) = ToGo(runs[n]))
          BY <2>1 DEF ToGo, Remaining
        <4>4. CASE runs'[n] = runs[n]
          BY <4>3, <4>4
        <4>5. CASE ToGo(runs'[n]) \in Nat /\ ToGo(runs'[n]) < ToGo(runs[n])
          BY <4>3, <4>5
        <4> QED
          BY <4>2, <4>4, <4>5
      <3>2. CASE AskStep \/ CancelStep \/ RestartServer \/ (\E m \in Runs : RunTimesOut(m)) \/ UNCHANGED jobVars
        BY <2>1, <2>4, <3>2, NothingGoesBack
      <3> QED
        BY <3>1, <3>2 DEF JobNext
    <2> QED
      BY <2>3, <2>4
  <1> QED
    BY <1>1, JobSmallHolds, PTL DEF JobSpec

---------------------------------------------------------------------------
(* The device's token: without a mishap, the one a device finds when it starts*)
(* is one the server accepts, whatever saves and loads overlap.             *)

Rotation == [pc : {"idle", "save", "set"}, new : Tokens]
Editor == [pc : {"idle", "editing"}, token : Tokens, unavailable : BOOLEAN]

Types ==
  /\ accepted \subseteq Tokens \ {0} /\ issued \in Tokens
  /\ ring \in Tokens /\ copy \in Tokens /\ cfgToken \in Tokens /\ login \in Tokens
  /\ ringUp \in BOOLEAN /\ mishap \in BOOLEAN
  /\ rotation \in Rotation /\ editor \in Editor

\* Nobody has a token the server has not issued, and nobody but the login has
\* the one it is about to save: no rotation takes it away.
IssuedInv ==
  /\ ring <= issued /\ copy <= issued /\ cfgToken <= issued /\ login <= issued
  /\ rotation.new <= issued /\ editor.token <= issued
  /\ login # 0 => login \notin {ring, copy, cfgToken, rotation.new, editor.token}

\* The two places agree, and so does the page that will save what it loaded.
StoreInv ==
  /\ Stored # 0
  /\ ring # 0 /\ copy # 0 => ring = copy
  /\ editor.pc = "editing" => editor.token = Stored \/ (editor.token = 0 /\ editor.unavailable)

\* What is stored, and what is about to be, the server accepts.
AcceptedInv ==
  /\ Stored \in accepted \/ rotation.pc = "save"
  /\ rotation.pc = "save" => rotation.new \in accepted
  /\ login # 0 => login \in accepted

TokenInv == Types /\ IssuedInv /\ (mishap \/ (StoreInv /\ AcceptedInv))

LEMMA InitTokenInv == TokenInit => TokenInv
  <1> SUFFICES ASSUME TokenInit PROVE TokenInv
    OBVIOUS
  <1>1. 0 \in Tokens /\ 1 \in Tokens
    BY TokenBounds DEF Tokens
  <1>2. rotation \in Rotation /\ editor \in Editor
    BY <1>1 DEF TokenInit, Rotation, Editor
  <1>3. Types
    <2>1. accepted \subseteq Tokens \ {0} /\ issued \in Tokens /\ {ring, copy, cfgToken, login} \subseteq Tokens
      BY <1>1 DEF TokenInit
    <2>2. ringUp \in BOOLEAN /\ mishap \in BOOLEAN
      BY DEF TokenInit
    <2> QED
      BY <1>2, <2>1, <2>2 DEF Types
  <1>4. IssuedInv /\ StoreInv /\ AcceptedInv
    BY DEF TokenInit, IssuedInv, StoreInv, AcceptedInv, Stored
  <1> QED
    BY <1>3, <1>4 DEF TokenInv

\* Saving a token writes it to one of the two places.
LEMMA SavedToken ==
  ASSUME Types, NEW t \in Tokens \ {0}, NEW u \in BOOLEAN, SaveToken(t, u)
  PROVE  /\ ring' \in Tokens /\ copy' \in Tokens
         /\ {ring', copy'} \subseteq {ring, copy, t}
         /\ ~CopiesDiffer => Stored' = t /\ (ring' # 0 /\ copy' # 0 => ring' = copy')
  BY DEF SaveToken, SecretSet, Types, CopiesDiffer, Stored

LEMMA RotationSteps ==
  ASSUME TokenInv,
         \/ \E arrives \in BOOLEAN : RotateAsk(arrives)
         \/ RotateSave \/ RotateSaveFails \/ RotateSet
  PROVE  TokenInv'
  <1> USE TokenBounds DEF TokenInv
  <1>1. ASSUME NEW arrives \in BOOLEAN, RotateAsk(arrives) PROVE TokenInv'
    <2> USE <1>1 DEF RotateAsk
    <2>1. CASE cfgToken \notin accepted
      BY <2>1 DEF Types, IssuedInv, StoreInv, AcceptedInv, Stored
    <2>2. CASE cfgToken \in accepted
      <3>1. issued + 1 \in Tokens \ {0}
        BY <2>2 DEF Tokens, Types
      <3>2. Types'
        BY <2>2, <3>1 DEF Types, Rotation
      <3>3. IssuedInv'
        BY <2>2, <3>1 DEF Types, Rotation, Editor, IssuedInv, Tokens
      <3>4. ASSUME ~mishap' PROVE StoreInv' /\ AcceptedInv'
        <4>1. arrives /\ ~mishap
          BY <2>2, <3>4 DEF Types
        <4>2. rotation' = [pc |-> "save", new |-> issued + 1]
          BY <2>2, <4>1
        <4>3. StoreInv'
          BY <4>1 DEF StoreInv, Stored
        <4>4. login # 0 => login # cfgToken
          BY DEF IssuedInv
        <4>5. AcceptedInv'
          BY <2>2, <4>1, <4>2, <4>4 DEF AcceptedInv
        <4> QED
          BY <4>3, <4>5
      <3> QED
        BY <3>2, <3>3, <3>4
    <2> QED
      BY <2>1, <2>2
  <1>2. CASE RotateSave
    <2> USE <1>2 DEF RotateSave
    <2>1. CASE rotation.new = 0
      BY <2>1 DEF SaveToken, SecretDelete, Types, Rotation, Editor, Tokens, IssuedInv, StoreInv, AcceptedInv
    <2>2. CASE rotation.new # 0
      <3>1. rotation.new \in Tokens \ {0}
        BY <2>2 DEF Types, Rotation
      <3>2. /\ ring' \in Tokens /\ copy' \in Tokens
            /\ {ring', copy'} \subseteq {ring, copy, rotation.new}
            /\ ~CopiesDiffer => Stored' = rotation.new /\ (ring' # 0 /\ copy' # 0 => ring' = copy')
        BY <3>1, SavedToken
      <3>3. Types'
        BY <3>1, <3>2 DEF Types, Rotation, Tokens, Overlaps, CopiesDiffer
      <3>4. IssuedInv'
        BY <3>1, <3>2 DEF Types, Rotation, Editor, IssuedInv, Tokens
      <3>5. ASSUME ~mishap' PROVE StoreInv' /\ AcceptedInv'
        BY <3>1, <3>2, <3>5 DEF Types, StoreInv, AcceptedInv, Overlaps
      <3> QED
        BY <3>3, <3>4, <3>5
    <2> QED
      BY <2>1, <2>2
  <1>3. CASE RotateSaveFails
    <2>1. rotation.new \in Tokens /\ mishap'
      BY <1>3 DEF RotateSaveFails, Types, Rotation
    <2>2. {ring', copy'} \subseteq {ring, copy, rotation.new}
      BY <1>3 DEF RotateSaveFails, SecretSet, secrets
    <2>3. rotation' \in Rotation /\ rotation'.new = 0
      BY <1>3 DEF RotateSaveFails, Rotation, Tokens
    <2>4. Types'
      BY <1>3, <2>1, <2>2, <2>3 DEF RotateSaveFails, Types
    <2>5. IssuedInv'
      BY <1>3, <2>1, <2>2, <2>3 DEF RotateSaveFails, IssuedInv, Types, Tokens
    <2> QED
      BY <2>1, <2>4, <2>5
  <1>4. CASE RotateSet
    BY <1>4 DEF RotateSet, Types, Rotation, Editor, Tokens, IssuedInv, StoreInv, AcceptedInv, Stored
  <1> QED
    BY <1>1, <1>2, <1>3, <1>4

LEMMA SavingSteps ==
  ASSUME TokenInv, EditorLoads \/ EditorSaves \/ LoginAnswered \/ LoginSaves
  PROVE  TokenInv'
  <1> USE TokenBounds DEF TokenInv
  <1>1. CASE EditorLoads
    BY <1>1 DEF EditorLoads, SecretGet, Unavailable, Types, Editor, Tokens, IssuedInv, StoreInv,
       AcceptedInv, Stored
  <1>2. CASE EditorSaves
    <2> USE <1>2 DEF EditorSaves
    <2>1. editor.token \in Tokens /\ editor.unavailable \in BOOLEAN
      BY DEF Types, Editor
    <2>2. CASE editor.token = 0
      <3>1. ring' \in {ring, 0} /\ copy' \in {copy, 0}
        BY <2>2 DEF SaveToken, SecretDelete, secrets
      <3>2. 0 \in Tokens /\ 0 <= issued
        BY DEF Tokens, Types
      <3>3. editor' \in Editor /\ editor'.token = 0 /\ editor'.pc = "idle"
        BY <3>2 DEF Editor
      <3>4. Types'
        BY <3>1, <3>2, <3>3 DEF Types, CopiesDiffer
      <3>5. IssuedInv'
        BY <3>1, <3>2, <3>3 DEF IssuedInv
      <3>6. ASSUME ~mishap' PROVE StoreInv' /\ AcceptedInv'
        <4>1. ~mishap
          BY <3>6
        <4>2. UNCHANGED secrets
          BY <2>2, <4>1 DEF StoreInv, SaveToken
        <4> QED
          BY <3>3, <4>1, <4>2 DEF secrets, StoreInv, AcceptedInv, Stored
      <3> QED
        BY <3>4, <3>5, <3>6
    <2>3. CASE editor.token # 0
      <3>1. /\ ring' \in Tokens /\ copy' \in Tokens
            /\ {ring', copy'} \subseteq {ring, copy, editor.token}
            /\ ~CopiesDiffer => Stored' = editor.token /\ (ring' # 0 /\ copy' # 0 => ring' = copy')
        BY <2>1, <2>3, SavedToken
      <3>2. Types'
        BY <3>1 DEF Types, Editor, Tokens, CopiesDiffer
      <3>3. IssuedInv'
        BY <2>1, <3>1 DEF Types, Rotation, Editor, IssuedInv, Tokens
      <3>4. ASSUME ~mishap' PROVE StoreInv' /\ AcceptedInv'
        BY <2>3, <3>1, <3>4 DEF Types, StoreInv, AcceptedInv
      <3> QED
        BY <3>2, <3>3, <3>4
    <2> QED
      BY <2>2, <2>3
  <1>3. CASE LoginAnswered
    <2>1. issued + 1 \in Tokens \ {0}
      BY <1>3 DEF LoginAnswered, Tokens, Types
    <2>2. Types'
      BY <1>3, <2>1 DEF LoginAnswered, Types
    <2>3. IssuedInv'
      BY <1>3, <2>1 DEF LoginAnswered, Types, Rotation, Editor, IssuedInv, Tokens
    <2>4. ASSUME ~mishap' PROVE StoreInv' /\ AcceptedInv'
      BY <1>3, <2>4 DEF LoginAnswered, Types, StoreInv, AcceptedInv, Stored
    <2> QED
      BY <2>2, <2>3, <2>4
  <1>4. CASE LoginSaves
    <2> USE <1>4 DEF LoginSaves
    <2>1. login \in Tokens \ {0}
      BY DEF Types
    <2>2. /\ ring' \in Tokens /\ copy' \in Tokens
          /\ {ring', copy'} \subseteq {ring, copy, login}
          /\ ~CopiesDiffer => Stored' = login /\ (ring' # 0 /\ copy' # 0 => ring' = copy')
      BY <2>1, SavedToken
    <2>3. Types'
      BY <2>1, <2>2 DEF Types, Tokens, Overlaps, CopiesDiffer
    <2>4. IssuedInv'
      BY <2>1, <2>2 DEF Types, Rotation, Editor, IssuedInv, Tokens
    <2>5. ASSUME ~mishap' PROVE StoreInv' /\ AcceptedInv'
      BY <2>1, <2>2, <2>5 DEF Types, StoreInv, AcceptedInv, Overlaps
    <2> QED
      BY <2>3, <2>4, <2>5
  <1> QED
    BY <1>1, <1>2, <1>3, <1>4

LEMMA OtherSteps ==
  ASSUME TokenInv,
         \/ \E r \in Requests : RequestStep(r)
         \/ SyncRestarts \/ KeyringChanges \/ Revoked
         \/ UNCHANGED tokenVars
  PROVE  TokenInv'
  <1> USE TokenBounds DEF TokenInv, IssuedInv, StoreInv, AcceptedInv, Stored
  <1>1. CASE \E r \in Requests : RequestStep(r)
    BY <1>1 DEF RequestStep, Send, Answered, Reload, Refused, Types
  <1>2. CASE SyncRestarts
    <2>1. 0 \in Tokens /\ SecretGet \in {ring, copy}
      BY DEF Tokens, SecretGet
    <2>2. /\ rotation' \in Rotation /\ rotation'.new = 0 /\ rotation'.pc = "idle"
          /\ editor' \in Editor /\ editor'.token = 0 /\ editor'.pc = "idle"
      BY <1>2, <2>1 DEF SyncRestarts, Rotation, Editor
    <2>3. Types'
      BY <1>2, <2>1, <2>2 DEF SyncRestarts, Types
    <2>4. IssuedInv'
      BY <1>2, <2>1, <2>2 DEF SyncRestarts, Types, Tokens
    <2>5. ASSUME ~mishap' PROVE StoreInv' /\ AcceptedInv'
      BY <1>2, <2>2, <2>5 DEF SyncRestarts
    <2> QED
      BY <2>3, <2>4, <2>5
  <1>3. CASE KeyringChanges
    BY <1>3 DEF KeyringChanges, Types
  <1>4. CASE Revoked
    BY <1>4 DEF Revoked, Types, Tokens
  <1>5. CASE UNCHANGED tokenVars
    BY <1>5 DEF tokenVars, Types
  <1> QED
    BY <1>1, <1>2, <1>3, <1>4, <1>5

\* Whatever overlaps - a rotation, a login, a page, restarts, an outage -,
\* copies, page and login hold what the server accepts, unless a mishap is
\* recorded (token_refresh.go, secrets.go, config.go).
THEOREM TokenInvariance == TokenSpec => []TokenInv
  <1>1. TokenInv /\ [TokenNext]_tokenVars => TokenInv'
    BY RotationSteps, SavingSteps, OtherSteps DEF TokenNext
  <1> QED
    BY InitTokenInv, <1>1, PTL DEF TokenSpec

\* The stored token is accepted except between the swap and the save, unless a
\* mishap is recorded (token_refresh.go:35).
THEOREM TokenKeptHolds == TokenSpec => []TokenKept
  <1>1. TokenInv => TokenKept
    BY DEF TokenInv, AcceptedInv, TokenKept
  <1> QED
    BY TokenInvariance, <1>1, PTL

---------------------------------------------------------------------------
(* The tokens there are. *)

RequestRecords == [pc : {"idle", "sent", "resent"}, token : Tokens]
\* A request carries a token the client had, and the client has one it loaded.
SentTypes == /\ liveToken \in Tokens /\ outages \in 0 .. MaxOutages
             /\ request \in [Requests -> RequestRecords]

LEMMA OneRequest ==
  ASSUME request \in [Requests -> RequestRecords], NEW r \in Requests, NEW q \in RequestRecords,
         request' = [request EXCEPT ![r] = q]
  PROVE  request' \in [Requests -> RequestRecords]
  OBVIOUS

LEMMA TokenSteps == TokenInv /\ [TokenNext]_tokenVars => TokenInv'
  BY RotationSteps, SavingSteps, OtherSteps DEF TokenNext

LEMMA RequestsTyped ==
  ASSUME Types, SentTypes, NEW r \in Requests, RequestStep(r)
  PROVE  SentTypes'
  <1>1. 0 \in Tokens /\ liveToken \in Tokens /\ SecretGet \in Tokens
    BY TokenBounds DEF SentTypes, Types, Tokens, SecretGet
  <1>2. liveToken' \in {liveToken, SecretGet} /\ outages' = outages
    BY DEF RequestStep, Send, Answered, Reload, Refused
  <1>3. \E q \in RequestRecords : request' = [request EXCEPT ![r] = q]
    <2>1. \A pc \in {"idle", "sent", "resent"}, t \in Tokens : [pc |-> pc, token |-> t] \in RequestRecords
      BY DEF RequestRecords
    <2>2. \/ request' = [request EXCEPT ![r] = [pc |-> "idle", token |-> 0]]
          \/ request' = [request EXCEPT ![r] = [pc |-> "sent", token |-> liveToken]]
          \/ request' = [request EXCEPT ![r] = [pc |-> "resent", token |-> SecretGet]]
      BY DEF RequestStep, Send, Answered, Reload, Refused
    <2> QED
      BY <1>1, <2>1, <2>2
  <1>4. request' \in [Requests -> RequestRecords]
    BY <1>3, OneRequest DEF SentTypes
  <1> QED
    BY <1>1, <1>2, <1>4 DEF SentTypes

\* Every token anywhere is one the server has issued, or none.
LEMMA TokenTyped == TokenInit /\ [][TokenNext]_tokenVars => []TokenTypeOK
  <1>1. TokenInit => SentTypes
    <2> SUFFICES ASSUME TokenInit PROVE SentTypes
      OBVIOUS
    <2>1. 0 \in Tokens /\ 1 \in Tokens /\ 0 \in 0 .. MaxOutages
      BY TokenBounds DEF Tokens
    <2>2. [pc |-> "idle", token |-> 0] \in RequestRecords
      BY <2>1 DEF RequestRecords
    <2> QED
      BY <2>1, <2>2 DEF TokenInit, SentTypes
  <1>2. TokenInv /\ SentTypes /\ [TokenNext]_tokenVars => SentTypes'
    <2> SUFFICES ASSUME TokenInv, SentTypes, [TokenNext]_tokenVars PROVE SentTypes'
      OBVIOUS
    <2>1. Types
      BY DEF TokenInv
    <2>2. CASE \E r \in Requests : RequestStep(r)
      BY <2>1, <2>2, RequestsTyped
    <2>3. CASE SyncRestarts
      <3>1. 0 \in Tokens /\ SecretGet \in Tokens
        BY <2>1, TokenBounds DEF Types, Tokens, SecretGet
      <3>2. [pc |-> "idle", token |-> 0] \in RequestRecords
        BY <3>1 DEF RequestRecords
      <3> QED
        BY <2>3, <3>1, <3>2 DEF SyncRestarts, SentTypes
    <2>4. CASE KeyringChanges
      <3>1. outages' \in 0 .. MaxOutages
        BY <2>1, <2>4, TokenBounds DEF KeyringChanges, SentTypes, Types
      <3> QED
        BY <2>4, <3>1 DEF KeyringChanges, SentTypes
    <2>5. CASE \/ \E arrives \in BOOLEAN : RotateAsk(arrives)
               \/ RotateSave \/ RotateSaveFails \/ RotateSet
               \/ EditorLoads \/ EditorSaves \/ LoginAnswered \/ LoginSaves \/ Revoked
               \/ UNCHANGED tokenVars
      <3>1. liveToken' \in {liveToken, cfgToken, login} /\ UNCHANGED <<outages, request>>
        BY <2>5 DEF RotateAsk, RotateSave, RotateSaveFails, RotateSet, EditorLoads, EditorSaves, LoginAnswered,
                    LoginSaves, Revoked, tokenVars
      <3> QED
        BY <2>1, <3>1 DEF Types, SentTypes
    <2> QED
      BY <2>2, <2>3, <2>4, <2>5 DEF TokenNext
  <1>3. TokenInv /\ SentTypes => TokenTypeOK
    BY DEF TokenInv, Types, SentTypes, Rotation, Editor, RequestRecords, TokenTypeOK
  <1> QED
    BY InitTokenInv, TokenSteps, <1>1, <1>2, <1>3, PTL

---------------------------------------------------------------------------
(* The mirror of the wiki.                                                  *)

---------------------------------------------------------------------------
(* The queue: sequences of pages. *)

\* A finite set of numbers can be put in order: every page has its rank.
LEMMA OrderExists ==
  ASSUME NEW S \in SUBSET Nat, IsFiniteSet(S)
  PROVE  \E s \in [1 .. Cardinality(S) -> S] : \A i, j \in DOMAIN s : i < j => s[i] < s[j]
  <1> DEFINE n == Cardinality(S)
             upTo(p) == {q \in S : q <= p}
             rank == [p \in S |-> Cardinality(upTo(p))]
             s == [i \in 1 .. n |-> CHOOSE p \in S : rank[p] = i]
  <1>1. n \in Nat
    BY FS_CardinalityType
  <1>2. \A p \in S : IsFiniteSet(upTo(p)) /\ Cardinality(upTo(p)) \in Nat /\ Cardinality(upTo(p)) <= n
    <2> TAKE p \in S
    <2>1. upTo(p) \in SUBSET S
      OBVIOUS
    <2> QED
      BY <2>1, FS_Subset, FS_CardinalityType
  <1>3. \A p, q \in S : p < q => rank[p] < rank[q]
    <2> SUFFICES ASSUME NEW p \in S, NEW q \in S, p < q PROVE rank[p] < rank[q]
      OBVIOUS
    <2>1. p \in Nat /\ q \in Nat /\ \A r \in S : r \in Nat /\ (r <= p => r <= q)
      OBVIOUS
    <2>3. q <= q /\ ~(q <= p)
      BY <2>1
    <2>4. upTo(p) \in SUBSET upTo(q) /\ q \in upTo(q) /\ q \notin upTo(p)
      BY <2>1, <2>3
    <2>2. Cardinality(upTo(p)) <= Cardinality(upTo(q)) /\ Cardinality(upTo(p)) # Cardinality(upTo(q))
      BY <2>4, <1>2, FS_Subset
    <2> QED
      BY <1>2, <2>2
  <1>4. rank \in [S -> 1 .. n]
    <2>1. ASSUME NEW p \in S PROVE Cardinality(upTo(p)) # 0
      <3>1. p \in upTo(p)
        OBVIOUS
      <3> QED
        BY <3>1, <1>2, FS_EmptySet
    <2> QED
      BY <1>1, <1>2, <2>1
  <1>5. \A p, q \in S : rank[p] = rank[q] => p = q
    BY <1>3, <1>4, <1>1
  <1>6. rank \in Injection(S, 1 .. n)
    BY <1>4, <1>5 DEF Injection, IsInjective
  <1>7. IsFiniteSet(1 .. n) /\ Cardinality(1 .. n) = n
    BY <1>1, FS_Interval
  <1>8. rank \in Surjection(S, 1 .. n)
    <2> HIDE DEF rank
    <2> QED
      BY <1>6, <1>7, FS_Injection
  <1>9. \A i \in 1 .. n : s[i] \in S /\ rank[s[i]] = i
    <2>1. \A i \in 1 .. n : \E p \in S : rank[p] = i
      BY <1>8 DEF Surjection
    <2> QED
      BY <2>1
  <1>10. \A i, j \in 1 .. n : i < j => s[i] < s[j]
    <2> SUFFICES ASSUME NEW i \in 1 .. n, NEW j \in 1 .. n, i < j PROVE s[i] < s[j]
      OBVIOUS
    <2>1. PICK a \in S : a = s[i] /\ rank[a] = i
      BY <1>9
    <2>2. PICK b \in S : b = s[j] /\ rank[b] = j
      BY <1>9
    <2> HIDE DEF s, rank, n
    <2>3. a \in Nat /\ b \in Nat /\ i \in Nat /\ j \in Nat
      BY <1>1
    <2>4. ~(b < a) /\ a # b
      BY <1>3, <2>1, <2>2, <2>3
    <2> QED
      BY <2>1, <2>2, <2>3, <2>4
  <1>11. s \in [1 .. n -> S] /\ DOMAIN s = 1 .. n
    BY <1>9
  <1> HIDE DEF s
  <1> QED
    BY <1>10, <1>11

LEMMA AscendingFacts ==
  ASSUME NEW S \in SUBSET Nat, IsFiniteSet(S)
  PROVE  Ascending(S) \in Seq(S) /\ Range(Ascending(S)) = S
  <1> DEFINE n == Cardinality(S)
             s == Ascending(S)
  <1>1. s \in [1 .. n -> S] /\ \A i, j \in DOMAIN s : i < j => s[i] < s[j]
    BY OrderExists DEF Ascending
  <1>2. n \in Nat
    BY FS_CardinalityType
  <1> HIDE DEF s
  <1>3. ASSUME NEW i \in 1 .. n, NEW j \in 1 .. n, s[i] = s[j] PROVE i = j
    <2>1. i < j \/ j < i \/ i = j
      BY <1>2
    <2>2. s[i] \in Nat /\ DOMAIN s = 1 .. n
      BY <1>1
    <2>3. ~(s[i] < s[i])
      BY <2>2
    <2> QED
      BY <1>1, <1>3, <2>1, <2>2, <2>3
  <1>4. s \in Injection(1 .. n, S)
    BY <1>1, <1>3 DEF Injection, IsInjective
  <1>5. Cardinality(1 .. n) = n
    BY <1>2, FS_Interval
  <1>6. s \in Surjection(1 .. n, S)
    <2>1. IsFiniteSet(S) /\ Cardinality(1 .. n) = Cardinality(S)
      BY <1>5
    <2> HIDE DEF n
    <2> QED
      BY <1>4, <2>1, FS_Injection
  <1>7. Range(s) = S
    BY <1>1, <1>6 DEF Surjection, Range
  <1> QED
    BY <1>1, <1>2, <1>7 DEF s

LEMMA QueueTail ==
  ASSUME NEW s \in Seq(Pages), s # <<>>
  PROVE  /\ Head(s) \in Pages /\ Head(s) \in Range(s) /\ Tail(s) \in Seq(Pages)
         /\ \A p \in Range(s) : p = Head(s) \/ p \in Range(Tail(s))
  <1>1. Len(s) \in Nat \ {0} /\ s \in [1 .. Len(s) -> Pages] /\ DOMAIN s = 1 .. Len(s) /\ Head(s) = s[1]
    BY EmptySeq, LenProperties
  <1>2. /\ Head(s) \in Pages /\ Tail(s) \in Seq(Pages) /\ Len(Tail(s)) = Len(s) - 1
        /\ \A i \in 1 .. Len(s) - 1 : Tail(s)[i] = s[i + 1]
    BY HeadTailProperties
  <1>3. DOMAIN Tail(s) = 1 .. Len(s) - 1
    BY <1>2, LenProperties
  <1>4. ASSUME NEW i \in 1 .. Len(s), i # 1
        PROVE  i - 1 \in DOMAIN Tail(s) /\ Tail(s)[i - 1] = s[i]
    BY <1>1, <1>2, <1>3, <1>4
  <1>5. ASSUME NEW p \in Range(s) PROVE p = Head(s) \/ p \in Range(Tail(s))
    <2>1. PICK i \in 1 .. Len(s) : s[i] = p
      BY <1>1 DEF Range
    <2>2. CASE i = 1
      BY <1>1, <2>1, <2>2
    <2>3. CASE i # 1
      BY <1>4, <2>1, <2>3 DEF Range
    <2> QED
      BY <2>2, <2>3
  <1>6. 1 \in DOMAIN s
    BY <1>1
  <1>7. Head(s) \in Range(s)
    BY <1>1, <1>6 DEF Range
  <1> QED
    BY <1>2, <1>5, <1>7

LEMMA QueueJoin ==
  ASSUME NEW s \in Seq(Pages), NEW t \in Seq(Pages), NEW u \in Seq(Pages)
  PROVE  s \o t \o u \in Seq(Pages) /\ Range(s) \cup Range(t) \cup Range(u) \subseteq Range(s \o t \o u)
  <1>1. ASSUME NEW a \in Seq(Pages), NEW b \in Seq(Pages)
        PROVE  a \o b \in Seq(Pages) /\ Range(a) \cup Range(b) \subseteq Range(a \o b)
    <2>1. /\ a \o b \in Seq(Pages) /\ Len(a \o b) = Len(a) + Len(b)
          /\ \A i \in 1 .. Len(a) + Len(b) : (a \o b)[i] = IF i <= Len(a) THEN a[i] ELSE b[i - Len(a)]
      BY ConcatProperties
    <2>2. /\ Len(a) \in Nat /\ DOMAIN a = 1 .. Len(a) /\ Len(b) \in Nat /\ DOMAIN b = 1 .. Len(b)
          /\ DOMAIN (a \o b) = 1 .. Len(a) + Len(b)
      BY <2>1, LenProperties
    <2>3. \A i \in 1 .. Len(a) : i \in 1 .. Len(a) + Len(b) /\ (a \o b)[i] = a[i]
      BY <2>1, <2>2
    <2>4. \A i \in 1 .. Len(b) : Len(a) + i \in 1 .. Len(a) + Len(b) /\ (a \o b)[Len(a) + i] = b[i]
      BY <2>1, <2>2
    <2>5. ASSUME NEW p \in Range(a) PROVE p \in Range(a \o b)
      <3>1. PICK i \in 1 .. Len(a) : a[i] = p
        BY <2>2 DEF Range
      <3> QED
        BY <2>2, <2>3, <3>1 DEF Range
    <2>6. ASSUME NEW p \in Range(b) PROVE p \in Range(a \o b)
      <3>1. PICK i \in 1 .. Len(b) : b[i] = p
        BY <2>2 DEF Range
      <3> QED
        BY <2>2, <2>4, <3>1 DEF Range
    <2> QED
      BY <2>1, <2>5, <2>6
  <1>2. s \o t \in Seq(Pages) /\ Range(s) \cup Range(t) \subseteq Range(s \o t)
    BY <1>1
  <1>3. (s \o t) \o u \in Seq(Pages) /\ Range(s \o t) \cup Range(u) \subseteq Range((s \o t) \o u)
    BY <1>1, <1>2
  <1> QED
    BY <1>2, <1>3

LEMMA PagesFinite ==
  ASSUME NEW S \in SUBSET Pages
  PROVE  /\ Ascending(S) \in Seq(Pages) /\ Range(Ascending(S)) = S
  <1>1. IsFiniteSet(Pages) /\ Pages \subseteq Nat
    BY CatalogBounds, FS_Interval DEF Pages
  <1>2. IsFiniteSet(S) /\ S \in SUBSET Nat
    BY <1>1, FS_Subset
  <1> QED
    BY <1>2, AscendingFacts, SeqMonotonic

---------------------------------------------------------------------------
(* The mirror: its inductive invariant. *)

Places == {"idle", "catalog", "verify", "queue", "ingest", "read", "row", "over"}
Run == [pc : Places, mode : Modes \cup {"none", "single"}, total : Nat, hash : SUBSET Pages, grew : BOOLEAN,
        queue : Seq(Pages), hint : [Pages -> Nat], done : Nat, failed : BOOLEAN, text : Nat, rev : Nat,
        canceled : BOOLEAN]

SyncTypes ==
  /\ wiki \in [Pages -> Nat] /\ catalog \subseteq Pages /\ window \subseteq Pages
  /\ gameRow \in [Pages -> [rev : Nat, status : {"none", "ok", "partial", "failed"}]]
  /\ paths \in [Pages -> Nat]
  /\ lastPhase1 \in [total : Nat, hash : SUBSET Pages] /\ resumeTotal \in Nat
  /\ syncRun \in Run

\* Before a run has filled its queue it has none; a page that is read heads it.
QueueInv ==
  /\ syncRun.pc \in {"idle", "catalog", "verify", "queue"} => syncRun.queue = <<>>
  /\ syncRun.pc \in {"read", "row"} => syncRun.queue # <<>>

\* A revision the check of the changes has seen is the page's, or the page was
\* touched since: the window was closed in that same step.
HintInv == \A p \in Pages : syncRun.hint[p] > 0 => syncRun.hint[p] = wiki[p] \/ p \in window

\* Between the two writes, the row has the revision in hand.
RowInv ==
  syncRun.pc = "row" => gameRow[Page].rev = syncRun.rev /\ (Stale(Page) => Page \in window)

\* What an admin has refreshed is not taken from the window.
SingleInv == Single => \A p \in Pages : Stale(p) => p \in window \cup dropped

SyncInv == SyncTypes /\ QueueInv /\ HintInv /\ RowInv /\ SingleInv /\ RowTellsTruth /\ NoForgottenChange

LEMMA NoSyncIsRun == NoSync \in Run /\ NoSync.queue = <<>> /\ \A p \in Pages : NoSync.hint[p] = 0
  BY CatalogBounds, EmptySeq DEF NoSync, Run, Places, Pages

LEMMA InitSyncInv == CatalogInit => SyncInv
  <1> SUFFICES ASSUME CatalogInit PROVE SyncInv
    OBVIOUS
  <1>1. 1 \in Pages /\ Pages \subseteq Nat
    BY CatalogBounds DEF Pages
  <1>2. SyncTypes
    BY <1>1, NoSyncIsRun DEF CatalogInit, SyncTypes, NoGame
  <1>3. QueueInv /\ HintInv /\ RowInv /\ SingleInv
    BY NoSyncIsRun DEF CatalogInit, NoSync, QueueInv, HintInv, RowInv, SingleInv, Single
  <1>4. RowTellsTruth /\ NoForgottenChange
    BY <1>1 DEF CatalogInit, RowTellsTruth, NoForgottenChange, NoGame, Stale
  <1> QED
    BY <1>2, <1>3, <1>4 DEF SyncInv

LEMMA PageIsOne ==
  ASSUME SyncTypes, syncRun.queue # <<>>
  PROVE  /\ Page \in Pages /\ Page \in Range(syncRun.queue) /\ Tail(syncRun.queue) \in Seq(Pages)
         /\ \A p \in Range(syncRun.queue) : p = Page \/ p \in Range(Tail(syncRun.queue))
  <1>1. syncRun.queue \in Seq(Pages)
    BY DEF SyncTypes, Run
  <1> QED
    BY <1>1, QueueTail DEF Page

\* The wiki moves on: a touched page is in the window.
LEMMA TouchKeeps ==
  ASSUME SyncInv, NEW q \in Pages, NEW rev \in Nat, TouchPage(q, rev)
  PROVE  SyncInv'
  <1> USE DEF TouchPage, SyncInv
  <1>1. SyncTypes'
    BY DEF SyncTypes
  <1>2. \A p \in Pages : Stale(p)' => Stale(p) \/ p = q
    BY DEF SyncTypes, Stale, Exists
  <1>3. QueueInv'
    BY DEF QueueInv
  <1>4. HintInv'
    BY DEF SyncTypes, HintInv
  <1>5. RowInv'
    BY PageIsOne DEF QueueInv, RowInv, Page, Stale, Exists
  <1>6. SingleInv' /\ NoForgottenChange'
    BY <1>2 DEF SingleInv, Single, NoForgottenChange
  <1>7. RowTellsTruth'
    BY DEF RowTellsTruth, Page
  <1> QED
    BY <1>1, <1>3, <1>4, <1>5, <1>6, <1>7

\* The steps that leave the tables and the wiki alone, and the queue that was.
LEMMA RunGoesOn ==
  ASSUME SyncInv, NEW r \in Run, syncRun' = r, catalog' \in SUBSET Pages,
         UNCHANGED <<wiki, window, gameRow, paths, lastPhase1, resumeTotal, dropped>>, torn \subseteq torn',
         r.queue = syncRun.queue, r.hint = syncRun.hint,
         r.pc \in {"idle", "catalog", "verify", "queue"} => r.queue = <<>>,
         r.pc \in {"read", "row"} => r.queue # <<>>,
         r.pc = "row" => syncRun.pc = "row" /\ r.rev = syncRun.rev,
         syncRun.pc = "row" => r.pc = "row" \/ Page \in torn',
         r.mode = "single" => Single
  PROVE  SyncInv'
  <1> USE DEF SyncInv
  <1>1. SyncTypes'
    BY DEF SyncTypes
  <1>2. Page' = Page /\ \A p \in Pages : Stale(p)' = Stale(p)
    BY DEF Page, Stale, Exists
  <1>3. QueueInv' /\ HintInv'
    BY DEF QueueInv, HintInv
  <1>4. RowInv'
    BY PageIsOne DEF QueueInv, RowInv, Page, Stale, Exists
  <1>5. SingleInv' /\ NoForgottenChange'
    BY <1>2 DEF SingleInv, Single, NoForgottenChange
  <1>6. RowTellsTruth'
    BY <1>2 DEF RowTellsTruth
  <1> QED
    BY <1>1, <1>3, <1>4, <1>5, <1>6

\* A run is over: what was still queued for it is given up.
LEMMA RunEnds ==
  ASSUME SyncInv, syncRun' = NoSync, catalog' = catalog, lastPhase1' \in [total : Nat, hash : SUBSET Pages],
         resumeTotal' \in Nat, UNCHANGED <<wiki, window, gameRow, paths>>, torn \subseteq torn',
         syncRun.pc = "row" => Page \in torn', dropped' = dropped \cup LeftBehind
  PROVE  SyncInv'
  <1> USE DEF SyncInv
  <1>1. SyncTypes'
    BY NoSyncIsRun DEF SyncTypes
  <1>2. \A p \in Pages : Stale(p)' = Stale(p)
    BY DEF Stale, Exists
  <1>3. QueueInv' /\ HintInv' /\ RowInv' /\ SingleInv'
    BY NoSyncIsRun DEF QueueInv, HintInv, RowInv, SingleInv, Single, NoSync
  <1>4. NoForgottenChange'
    BY <1>2 DEF NoForgottenChange, LeftBehind
  <1>5. RowTellsTruth'
    BY DEF RowTellsTruth
  <1> QED
    BY <1>1, <1>3, <1>4, <1>5

LEMMA WikiKeeps ==
  ASSUME SyncInv,
         (\E p \in Pages : WikiCreates(p) \/ WikiEdits(p) \/ WikiRemoves(p)) \/ WindowAges \/ ResetDeadLetter
  PROVE  SyncInv'
  <1>1. ASSUME NEW p \in Pages, WikiCreates(p) \/ WikiEdits(p) \/ WikiRemoves(p) PROVE SyncInv'
    <2>1. 1 \in Nat /\ wiki[p] + 1 \in Nat /\ Removed \in Nat
      BY CatalogBounds DEF SyncInv, SyncTypes, Removed
    <2> QED
      BY <1>1, <2>1, TouchKeeps DEF WikiCreates, WikiEdits, WikiRemoves
  <1>2. CASE WindowAges \/ ResetDeadLetter
    <2>1. UNCHANGED <<wiki, catalog, gameRow, paths, window, lastPhase1, resumeTotal, syncRun, torn, dropped>>
      BY <1>2 DEF WindowAges, ResetDeadLetter, wikiUnchanged
    <2>2. UNCHANGED Page /\ \A p \in Pages : UNCHANGED Stale(p)
      BY <2>1 DEF Page, Stale, Exists
    <2>3. SyncTypes' /\ QueueInv' /\ HintInv' /\ RowTellsTruth'
      BY <2>1, <2>2 DEF SyncInv, SyncTypes, QueueInv, HintInv, RowTellsTruth
    <2>4. SingleInv' /\ NoForgottenChange'
      BY <2>1, <2>2 DEF SyncInv, SingleInv, Single, NoForgottenChange
    <2>5. RowInv'
      BY <2>1, <2>2, PageIsOne DEF SyncInv, RowInv, QueueInv
    <2> QED
      BY <2>3, <2>4, <2>5 DEF SyncInv
  <1> QED
    BY <1>1, <1>2

\* Starting, and the listing: no page is queued yet.
LEMMA Counts ==
  ASSUME NEW S \in SUBSET Pages
  PROVE  Cardinality(S) \in Nat
  <1>1. IsFiniteSet(Pages)
    BY CatalogBounds, FS_Interval DEF Pages
  <1> QED
    BY <1>1, FS_Subset, FS_CardinalityType

LEMMA BeginKeeps ==
  ASSUME SyncInv, \E mode \in Modes : SyncBegins(mode)
  PROVE  SyncInv'
  <1>1. PICK mode \in Modes : SyncBegins(mode)
    OBVIOUS
  <1>2. /\ syncRun.pc = "idle" /\ syncRun' \in Run
        /\ syncRun'.queue = <<>> /\ syncRun'.pc \in {"queue", "verify", "catalog"} /\ syncRun'.mode = mode
        /\ \A p \in Pages : syncRun'.hint[p] = 0
    <2>1. PICK pc \in {"queue", "verify", "catalog"}, total \in Nat, hash \in SUBSET Pages :
            syncRun' = [NoSync EXCEPT !.mode = mode, !.pc = pc, !.total = total, !.hash = hash]
      <3> DEFINE resumed == mode = "incremental" /\ resumeTotal > 0 /\ Cardinality(catalog) >= resumeTotal
                 pc == IF mode \in {"retry", "missing"} THEN "queue" ELSE IF resumed THEN "verify" ELSE "catalog"
                 total == IF resumed THEN resumeTotal ELSE IF mode \in {"retry", "missing"} THEN lastPhase1.total ELSE 0
                 hash == IF mode \in {"retry", "missing"} THEN lastPhase1.hash ELSE {}
      <3>1. syncRun' = [NoSync EXCEPT !.mode = mode, !.pc = pc, !.total = total, !.hash = hash]
        BY <1>1 DEF SyncBegins
      <3>2. pc \in {"queue", "verify", "catalog"} /\ total \in Nat /\ hash \in SUBSET Pages
        BY DEF SyncInv, SyncTypes
      <3> HIDE DEF pc, total, hash
      <3> QED
        BY <3>1, <3>2
    <2>2. syncRun.pc = "idle"
      BY <1>1 DEF SyncBegins
    <2> QED
      BY <2>1, <2>2, NoSyncIsRun DEF Run, Places
  <1>3. UNCHANGED <<wiki, window, catalog, gameRow, paths, lastPhase1, resumeTotal, torn, dropped>>
    BY <1>1 DEF SyncBegins, wikiUnchanged
  <1>4. \A p \in Pages : UNCHANGED Stale(p)
    BY <1>3 DEF Stale, Exists
  <1>5. SyncTypes' /\ QueueInv' /\ HintInv' /\ RowInv' /\ RowTellsTruth'
    BY <1>2, <1>3 DEF SyncInv, SyncTypes, QueueInv, HintInv, RowInv, RowTellsTruth
  <1>6. SingleInv' /\ NoForgottenChange'
    BY <1>2, <1>3, <1>4 DEF SyncInv, SingleInv, Single, Modes, NoForgottenChange, QueueInv
  <1> QED
    BY <1>5, <1>6 DEF SyncInv

LEMMA BeginOneKeeps ==
  ASSUME SyncInv, NEW q \in Pages, SyncOnePage(q)
  PROVE  SyncInv'
  <1>1. <<q>> \in Seq(Pages) /\ <<q>> # <<>>
    OBVIOUS
  <1>2. /\ syncRun.pc = "idle" /\ syncRun' \in Run /\ syncRun'.pc = "ingest"
        /\ \A p \in Pages : syncRun'.hint[p] = 0
    BY <1>1, NoSyncIsRun DEF SyncOnePage, Run, NoSync, Places
  <1>3. UNCHANGED <<wiki, window, catalog, gameRow, paths, lastPhase1, resumeTotal, torn, dropped>>
    BY DEF SyncOnePage, wikiUnchanged
  <1>4. \A p \in Pages : UNCHANGED Stale(p)
    BY <1>3 DEF Stale, Exists
  <1>5. SyncTypes' /\ QueueInv' /\ HintInv' /\ RowInv' /\ RowTellsTruth'
    BY <1>2, <1>3 DEF SyncInv, SyncTypes, QueueInv, HintInv, RowInv, RowTellsTruth
  <1>6. \A p \in Pages : Stale(p) => p \in window \cup dropped
    BY <1>2, EmptySeq DEF SyncInv, NoForgottenChange, QueueInv, Range
  <1>7. SingleInv' /\ NoForgottenChange'
    BY <1>2, <1>3, <1>4, <1>6 DEF SingleInv, NoForgottenChange
  <1> QED
    BY <1>5, <1>7 DEF SyncInv

LEMMA ListingKeeps ==
  ASSUME SyncInv, RunCatalogPhase \/ ProbeFails \/ VerifyCatalog \/ CancelSyncRun \/ FetchText \/ WriteRefused \/ ReplaceRefused
  PROVE  SyncInv'
  <1>1. Listed \subseteq Pages /\ \A n : PagesBeyond(n) \subseteq Pages
    BY DEF Listed, PagesBeyond
  <1>2. ASSUME NEW pc \in {"verify", "queue"}, syncRun.pc \in {"catalog", "verify"}, ScanAll(pc) \/ ScanTail,
               UNCHANGED <<wiki, window, gameRow, paths, lastPhase1, resumeTotal, torn, dropped>>
        PROVE  SyncInv'
    <2>1. catalog' \in SUBSET Pages /\ syncRun' \in Run
      <3>1. CASE ScanAll(pc)
        BY <1>1, <3>1, Counts DEF SyncInv, SyncTypes, ScanAll, Run, Places
      <3>2. CASE ScanTail
        <4> DEFINE new == PagesBeyond(Cardinality(catalog))
        <4>1. new \in SUBSET Pages /\ Cardinality(new) \in Nat
          BY <1>1, Counts
        <4>2. catalog' = catalog \cup new /\ lastPhase1.total \in Nat /\ catalog \subseteq Pages /\ syncRun \in Run
          BY <3>2 DEF SyncInv, SyncTypes, ScanTail
        <4>3. syncRun' = [syncRun EXCEPT !.pc = "verify", !.total = lastPhase1.total + Cardinality(new),
                                   !.hash = catalog \cup new, !.grew = TRUE]
          BY <3>2 DEF ScanTail
        <4> HIDE DEF new
        <4>4. lastPhase1.total + Cardinality(new) \in Nat /\ catalog \cup new \in SUBSET Pages
          BY <4>1, <4>2
        <4> QED
          BY <4>2, <4>3, <4>4 DEF Run, Places
      <3> QED
        BY <1>2, <3>1, <3>2
    <2>2. /\ syncRun'.queue = syncRun.queue /\ syncRun'.hint = syncRun.hint /\ syncRun'.mode = syncRun.mode
          /\ syncRun'.pc \in {"verify", "queue"}
      BY <1>2 DEF SyncInv, SyncTypes, ScanAll, ScanTail, Run
    <2> QED
      BY <1>2, <2>1, <2>2, RunGoesOn DEF SyncInv, QueueInv, Single
  <1>3. CASE RunCatalogPhase
    <2>1. CASE ScanAll("verify") \/ ScanTail
      BY <1>2, <1>3, <2>1 DEF RunCatalogPhase, wikiUnchanged
    <2>2. CASE ~(ScanAll("verify") \/ ScanTail)
      <3>1. /\ syncRun' \in Run /\ catalog' \in SUBSET Pages
            /\ syncRun'.queue = syncRun.queue /\ syncRun'.hint = syncRun.hint /\ syncRun'.mode = syncRun.mode
            /\ syncRun'.pc = "verify" /\ syncRun.pc = "catalog"
        <4>1. /\ syncRun' = [syncRun EXCEPT !.pc = "verify", !.total = lastPhase1.total, !.hash = lastPhase1.hash]
              /\ syncRun.pc = "catalog" /\ UNCHANGED catalog
          BY <1>3, <2>2 DEF RunCatalogPhase
        <4> QED
          BY <4>1 DEF SyncInv, SyncTypes, Run, Places
      <3> QED
        BY <1>3, <3>1, RunGoesOn DEF RunCatalogPhase, wikiUnchanged, SyncInv, QueueInv, Single
    <2> QED
      BY <2>1, <2>2
  <1>4. CASE ProbeFails
    BY <1>2, <1>4 DEF ProbeFails, wikiUnchanged
  <1>5. CASE VerifyCatalog
    <2>1. CASE ScanAll("queue")
      BY <1>2, <1>5, <2>1 DEF VerifyCatalog, wikiUnchanged
    <2>2. CASE ~ScanAll("queue")
      <3>1. /\ syncRun' \in Run /\ catalog' \in SUBSET Pages
            /\ syncRun'.queue = syncRun.queue /\ syncRun'.hint = syncRun.hint /\ syncRun'.mode = syncRun.mode
            /\ syncRun'.pc = "queue" /\ syncRun.pc = "verify"
        BY <1>5, <2>2 DEF VerifyCatalog, SyncInv, SyncTypes, Run, Places
      <3> QED
        BY <1>5, <3>1, RunGoesOn DEF VerifyCatalog, wikiUnchanged, SyncInv, QueueInv, Single
    <2> QED
      BY <2>1, <2>2
  <1>6. CASE CancelSyncRun
    <2>1. /\ syncRun' \in Run /\ catalog' \in SUBSET Pages
          /\ syncRun'.queue = syncRun.queue /\ syncRun'.hint = syncRun.hint /\ syncRun'.mode = syncRun.mode
          /\ syncRun'.pc = syncRun.pc /\ syncRun'.rev = syncRun.rev
      BY <1>6 DEF CancelSyncRun, SyncInv, SyncTypes, Run
    <2> QED
      BY <1>6, <2>1, RunGoesOn DEF CancelSyncRun, wikiUnchanged, SyncInv, QueueInv, Single
  <1>7. CASE FetchText
    <2>1. /\ syncRun.queue # <<>> /\ Page \in Pages /\ syncRun.pc = "ingest"
      BY <1>7, PageIsOne DEF FetchText, Reading, SyncInv
    <2>2. /\ syncRun' \in Run /\ catalog' \in SUBSET Pages
          /\ syncRun'.queue = syncRun.queue /\ syncRun'.hint = syncRun.hint /\ syncRun'.mode = syncRun.mode
          /\ syncRun'.pc = "read"
      BY <1>7, <2>1 DEF FetchText, SyncInv, SyncTypes, Run, Places
    <2> QED
      BY <1>7, <2>1, <2>2, RunGoesOn DEF FetchText, wikiUnchanged, Single
  <1>8. CASE WriteRefused \/ ReplaceRefused
    <2>1. /\ syncRun' \in Run /\ catalog' \in SUBSET Pages
          /\ syncRun'.queue = syncRun.queue /\ syncRun'.hint = syncRun.hint /\ syncRun'.mode = syncRun.mode
          /\ syncRun'.pc \in {"over", "ingest"}
      <3>1. PICK pc \in {"over", "ingest"}, rev \in Nat : syncRun' = [syncRun EXCEPT !.pc = pc, !.text = 0, !.rev = rev]
        <4>1. syncRun \in Run /\ syncRun.rev \in Nat
          BY DEF SyncInv, SyncTypes, Run
        <4>2. CASE WriteRefused
          BY <4>1, <4>2 DEF WriteRefused, Run
        <4>3. CASE ReplaceRefused
          BY <4>1, <4>3 DEF ReplaceRefused, Run
        <4> QED
          BY <1>8, <4>2, <4>3
      <3>2. UNCHANGED catalog
        BY <1>8 DEF WriteRefused, ReplaceRefused
      <3> QED
        BY <3>1, <3>2 DEF SyncInv, SyncTypes, Run, Places
    <2>2. torn \subseteq torn' /\ (syncRun.pc = "row" => Page \in torn')
      BY <1>8 DEF WriteRefused, ReplaceRefused
    <2> QED
      BY <1>8, <2>1, <2>2, RunGoesOn DEF WriteRefused, ReplaceRefused, wikiUnchanged, Single
  <1> QED
    BY <1>3, <1>4, <1>5, <1>6, <1>7, <1>8

LEMMA EndKeeps ==
  ASSUME SyncInv, CatalogPhaseEnds \/ SyncSkips \/ IngestEnds \/ SingleEnds \/ RestartSync
  PROVE  SyncInv'
  <1>1. ASSUME NEW status, EndSync(status) PROVE /\ syncRun' = NoSync /\ dropped' = dropped \cup LeftBehind
                                                 /\ lastPhase1' \in [total : Nat, hash : SUBSET Pages] /\ resumeTotal' \in Nat
    BY <1>1 DEF EndSync, SyncInv, SyncTypes, Run
  <1>2. CASE CatalogPhaseEnds \/ SyncSkips \/ IngestEnds \/ SingleEnds
    BY <1>1, <1>2, RunEnds DEF CatalogPhaseEnds, SyncSkips, IngestEnds, SingleEnds, wikiUnchanged
  <1>3. CASE RestartSync
    BY <1>3, RunEnds DEF RestartSync, wikiUnchanged, SyncInv, SyncTypes, Run
  <1> QED
    BY <1>2, <1>3

\* The queue has every page that was found changed, at the revision it was found at.
LEMMA FillFacts ==
  ASSUME SyncInv, NEW changed \in SUBSET Pages, Fill(changed)
  PROVE  /\ syncRun' \in Run /\ syncRun'.pc = "ingest" /\ syncRun'.mode = syncRun.mode
         /\ changed \subseteq Range(syncRun'.queue)
         /\ \A p \in Pages : syncRun'.hint[p] = IF p \in changed /\ Exists(p) THEN wiki[p] ELSE 0
  <1> DEFINE missing == IF syncRun.mode = "retry" THEN {} ELSE Missing
             failed == (IF syncRun.mode = "missing" THEN {} ELSE FailedPartial) \ missing
             rest == changed \ (missing \cup failed)
             queue == Ascending(missing) \o Ascending(failed) \o Ascending(rest)
             hint == [p \in Pages |-> IF p \in changed /\ Exists(p) THEN wiki[p] ELSE 0]
  <1>1. missing \in SUBSET Pages /\ failed \in SUBSET Pages /\ rest \in SUBSET Pages
    BY DEF SyncInv, SyncTypes, Missing, FailedPartial
  <1>2. changed \subseteq missing \cup failed \cup rest
    OBVIOUS
  <1>3. syncRun' = [syncRun EXCEPT !.pc = "ingest", !.queue = queue, !.hint = hint]
    BY DEF Fill
  <1>4. hint \in [Pages -> Nat]
    BY DEF SyncInv, SyncTypes
  <1> HIDE DEF missing, failed, rest
  <1>5. queue \in Seq(Pages) /\ missing \cup failed \cup rest \subseteq Range(queue)
    BY <1>1, PagesFinite, QueueJoin
  <1>6. syncRun \in Run
    BY DEF SyncInv, SyncTypes
  <1>7. \A p \in Pages : hint[p] = IF p \in changed /\ Exists(p) THEN wiki[p] ELSE 0
    OBVIOUS
  <1> HIDE DEF queue, hint
  <1>8. /\ syncRun' \in Run /\ syncRun'.pc = "ingest" /\ syncRun'.mode = syncRun.mode
        /\ syncRun'.queue = queue /\ syncRun'.hint = hint
    BY <1>3, <1>4, <1>5, <1>6 DEF Run, Places
  <1> QED
    BY <1>2, <1>5, <1>7, <1>8

LEMMA BuildKeeps ==
  ASSUME SyncInv, BuildQueue \/ SweepRevisions \/ RevisionCheckFails
  PROVE  SyncInv'
  <1>1. /\ syncRun.pc = "queue" /\ UNCHANGED <<wiki, catalog, gameRow, paths, lastPhase1, resumeTotal, torn>>
    BY DEF BuildQueue, SweepRevisions, RevisionCheckFails, BuildChangedQueue, wikiUnchanged
  <1>2. \A p \in Pages : UNCHANGED Stale(p)
    BY <1>1 DEF Stale, Exists
  <1>3. \A p \in Pages : Stale(p) => p \in window \cup dropped
    BY <1>1, EmptySeq DEF SyncInv, NoForgottenChange, QueueInv, Range
  <1>4. PICK changed \in SUBSET Pages :
          /\ Fill(changed)
          /\ \/ window' = window /\ dropped' = dropped
             \/ ~Single /\ window' = {} /\ dropped \subseteq dropped' /\ \A p \in Pages : Stale(p) => p \in changed \cup dropped'
    <2>1. CASE BuildQueue
      BY <2>1 DEF BuildQueue, wikiUnchanged
    <2>2. CASE SweepRevisions
      <3>1. Fill({p \in Pages : gameRow[p].status = "ok" /\ gameRow[p].rev # wiki[p]})
        BY <2>2 DEF SweepRevisions
      <3>2. ~Single /\ window' = {} /\ dropped' = dropped
        BY <2>2 DEF SweepRevisions, BuildChangedQueue, ChecksRevisions, Single, Checked
      <3>3. \A p \in Pages : Stale(p) => p \in {q \in Pages : gameRow[q].status = "ok" /\ gameRow[q].rev # wiki[q]}
        BY DEF Stale
      <3> QED
        BY <3>1, <3>2, <3>3
    <2>3. CASE RevisionCheckFails
      BY <1>3, <2>3 DEF RevisionCheckFails, BuildChangedQueue, ChecksRevisions, Single, Checked
    <2> QED
      BY <2>1, <2>2, <2>3
  <1>5. /\ syncRun' \in Run /\ syncRun'.pc = "ingest" /\ syncRun'.mode = syncRun.mode
        /\ changed \subseteq Range(syncRun'.queue)
        /\ \A p \in Pages : syncRun'.hint[p] = IF p \in changed /\ Exists(p) THEN wiki[p] ELSE 0
    BY <1>4, FillFacts
  <1>6. SyncTypes' /\ QueueInv' /\ HintInv' /\ RowInv'
    BY <1>1, <1>4, <1>5 DEF SyncInv, SyncTypes, QueueInv, HintInv, RowInv
  <1>7. RowTellsTruth'
    BY <1>1, <1>5 DEF SyncInv, RowTellsTruth
  <1>8. SingleInv' /\ NoForgottenChange'
    BY <1>2, <1>3, <1>4, <1>5 DEF SyncInv, SingleInv, Single, NoForgottenChange
  <1> QED
    BY <1>6, <1>7, <1>8 DEF SyncInv

LEMMA RecentChangesKeep ==
  ASSUME SyncInv, ReadRecentChanges
  PROVE  SyncInv'
  <1> DEFINE gone == {p \in window \cap (catalog \cup {q \in Pages : gameRow[q].status # "none"}) : wiki[p] = Removed}
             deleted == IF catalog # {} /\ ValveShare * Cardinality(gone) > Cardinality(catalog) THEN {} ELSE gone
             changed == {p \in window : Exists(p) /\ ~CurrentRow(p)}
  <1>1. /\ catalog' = (catalog \ deleted) \cup changed
        /\ gameRow' = [p \in Pages |-> IF p \in deleted THEN NoGame ELSE gameRow[p]]
        /\ paths' = [p \in Pages |-> IF p \in deleted THEN 0 ELSE paths[p]]
        /\ torn' = torn \ deleted
        /\ Fill(changed)
        /\ syncRun.pc = "queue" /\ ~Single /\ window' = {}
        /\ UNCHANGED <<wiki, lastPhase1, resumeTotal, dropped>>
    BY DEF ReadRecentChanges, BuildChangedQueue, ChecksRevisions, Single, Checked
  <1>2. changed \in SUBSET Pages
    BY DEF SyncInv, SyncTypes
  <1>3. \A p \in Pages : Stale(p) => p \in changed \cup dropped
    <2>1. \A p \in Pages : Stale(p) => p \in window \cup dropped
      BY <1>1, EmptySeq DEF SyncInv, NoForgottenChange, QueueInv, Range
    <2> QED
      BY <2>1 DEF Stale, CurrentRow
  <1> HIDE DEF deleted, changed
  <1>4. /\ syncRun' \in Run /\ syncRun'.pc = "ingest" /\ syncRun'.mode = syncRun.mode
        /\ changed \subseteq Range(syncRun'.queue)
        /\ \A p \in Pages : syncRun'.hint[p] = IF p \in changed /\ Exists(p) THEN wiki[p] ELSE 0
    BY <1>1, <1>2, FillFacts
  <1>5. \A p \in Pages : Stale(p)' => Stale(p)
    BY <1>1 DEF Stale, Exists, NoGame
  <1>6. SyncTypes'
    BY <1>1, <1>2, <1>4 DEF SyncInv, SyncTypes, NoGame
  <1>7. QueueInv' /\ HintInv' /\ RowInv'
    BY <1>1, <1>4 DEF QueueInv, HintInv, RowInv
  <1>8. RowTellsTruth'
    BY <1>1, <1>4 DEF SyncInv, SyncTypes, RowTellsTruth, NoGame
  <1>9. SingleInv' /\ NoForgottenChange'
    BY <1>1, <1>3, <1>4, <1>5 DEF SingleInv, Single, NoForgottenChange
  <1> QED
    BY <1>6, <1>7, <1>8, <1>9 DEF SyncInv

\* The page in hand is done with: its row is right, or it will be looked at again.
LEMMA PageDone ==
  ASSUME SyncInv, NEW failed \in BOOLEAN, syncRun' = NextPage(failed), syncRun.queue # <<>>, NEW q \in Pages, q = Page,
         UNCHANGED <<wiki, catalog, window, lastPhase1, resumeTotal>>, dropped \subseteq dropped',
         gameRow' \in [Pages -> [rev : Nat, status : {"none", "ok", "partial", "failed"}]],
         paths' \in [Pages -> Nat],
         \A p \in Pages \ {q} : gameRow'[p] = gameRow[p] /\ paths'[p] = paths[p] /\ (p \in torn => p \in torn'),
         gameRow'[q].status = "ok" =>
            paths'[q] >= gameRow'[q].rev \/ q \in torn',
         Stale(q)' => q \in window \cup dropped'
  PROVE  SyncInv'
  <1>1. Page \in Pages /\ syncRun \in Run /\ Tail(syncRun.queue) \in Seq(Pages)
    BY PageIsOne DEF SyncInv, SyncTypes
  <1>2. /\ syncRun' \in Run /\ syncRun'.pc = "ingest" /\ syncRun'.mode = syncRun.mode
        /\ syncRun'.queue = Tail(syncRun.queue)
        /\ \A p \in Pages : syncRun'.hint[p] = syncRun.hint[p] \/ syncRun'.hint[p] = 0
    <2> DEFINE hint == [syncRun.hint EXCEPT ![Page] = 0]
               bad == syncRun.failed \/ failed
               done == syncRun.done + 1
               rest == Tail(syncRun.queue)
    <2>1. syncRun' = [syncRun EXCEPT !.pc = "ingest", !.queue = rest, !.hint = hint,
                                     !.done = done, !.failed = bad, !.text = 0, !.rev = 0]
      BY <1>1 DEF NextPage, Run, Page
    <2>2. hint \in [Pages -> Nat] /\ \A p \in Pages : hint[p] = syncRun.hint[p] \/ hint[p] = 0
      BY <1>1 DEF Run
    <2>3. done \in Nat /\ bad \in BOOLEAN /\ rest \in Seq(Pages)
      BY <1>1 DEF Run
    <2> HIDE DEF hint, bad, done, rest
    <2>4. syncRun' \in Run
      <3>1. syncRun' = [pc |-> "ingest", mode |-> syncRun.mode, total |-> syncRun.total, hash |-> syncRun.hash,
                        grew |-> syncRun.grew, queue |-> rest, hint |-> hint, done |-> done, failed |-> bad,
                        text |-> 0, rev |-> 0, canceled |-> syncRun.canceled]
        BY <1>1, <2>1 DEF Run
      <3>2. /\ syncRun.mode \in Modes \cup {"none", "single"} /\ syncRun.total \in Nat /\ syncRun.hash \in SUBSET Pages
            /\ syncRun.grew \in BOOLEAN /\ syncRun.canceled \in BOOLEAN
        BY <1>1 DEF Run
      <3> QED
        BY <3>1, <3>2, <2>2, <2>3 DEF Run, Places
    <2>5. syncRun'.pc = "ingest" /\ syncRun'.mode = syncRun.mode /\ syncRun'.queue = rest /\ syncRun'.hint = hint
      BY <1>1, <2>1 DEF Run
    <2> QED
      BY <2>2, <2>4, <2>5 DEF rest
  <1>3. \A p \in Pages \ {q} : UNCHANGED Stale(p)
    BY DEF Stale, Exists
  <1>4. SyncTypes'
    BY <1>2 DEF SyncInv, SyncTypes
  <1>5. QueueInv' /\ HintInv' /\ RowInv'
    BY <1>2 DEF SyncInv, QueueInv, HintInv, RowInv
  <1>6. RowTellsTruth'
    BY <1>2 DEF SyncInv, RowTellsTruth
  <1>7. SingleInv' /\ NoForgottenChange'
    BY <1>1, <1>2, <1>3, PageIsOne DEF SyncInv, SingleInv, Single, NoForgottenChange
  <1> QED
    BY <1>4, <1>5, <1>6, <1>7 DEF SyncInv

\* The row is written, and the paths are still to come.
LEMMA RowWritten ==
  ASSUME SyncInv, syncRun.pc = "read", NEW rev \in Nat, NEW status \in {"ok", "partial"}, NEW q \in Pages, q = Page,
         gameRow' = [gameRow EXCEPT ![q] = [rev |-> rev, status |-> status]],
         syncRun' = [syncRun EXCEPT !.pc = "row", !.rev = rev],
         UNCHANGED <<wiki, catalog, window, paths, lastPhase1, resumeTotal, dropped>>,
         torn' = torn \/ torn' = torn \ {q},
         rev = wiki[q] \/ q \in window \/ ~Exists(q)
  PROVE  SyncInv'
  <1>1. syncRun \in Run /\ syncRun.queue # <<>>
    BY DEF SyncInv, SyncTypes, QueueInv
  <1>2. /\ syncRun' \in Run /\ syncRun'.pc = "row" /\ syncRun'.rev = rev /\ syncRun'.queue = syncRun.queue
        /\ syncRun'.hint = syncRun.hint /\ syncRun'.mode = syncRun.mode
    BY <1>1 DEF Run, Places
  <1>3. /\ \A p \in Pages \ {q} : gameRow'[p] = gameRow[p] /\ (Stale(p)' <=> Stale(p))
        /\ gameRow'[q] = [rev |-> rev, status |-> status] /\ Page' = q
        /\ Stale(q)' => q \in window
    BY <1>2 DEF SyncInv, SyncTypes, Stale, Exists, Page
  <1>4. SyncTypes'
    BY <1>2 DEF SyncInv, SyncTypes
  <1>5. QueueInv' /\ HintInv'
    BY <1>1, <1>2 DEF SyncInv, QueueInv, HintInv
  <1>6. RowInv'
    BY <1>2, <1>3 DEF RowInv
  <1>7. RowTellsTruth'
    BY <1>2, <1>3 DEF SyncInv, RowTellsTruth
  <1>8. SingleInv' /\ NoForgottenChange'
    BY <1>2, <1>3, PageIsOne DEF SyncInv, SingleInv, Single, NoForgottenChange
  <1> QED
    BY <1>4, <1>5, <1>6, <1>7, <1>8 DEF SyncInv

LEMMA FetchFailsKeeps ==
  ASSUME SyncInv, FetchFails
  PROVE  SyncInv'
  <1>1. syncRun.queue # <<>> /\ syncRun.pc = "ingest" /\ (~syncRun.canceled \/ Single) /\ syncRun' = NextPage(TRUE)
    BY DEF FetchFails, Reading
  <1>2. PICK q \in Pages : q = Page
    BY <1>1, PageIsOne DEF SyncInv
  <1>3. CASE syncRun.canceled
    <2>1. UNCHANGED <<wiki, catalog, window, gameRow, paths, lastPhase1, resumeTotal, torn, dropped>>
      BY <1>3 DEF FetchFails, wikiUnchanged
    <2>2. Stale(q)' => q \in window \cup dropped
      BY <1>1, <1>3, <2>1 DEF SyncInv, SingleInv, Stale, Exists
    <2>3. gameRow[q].status = "ok" => paths[q] >= gameRow[q].rev \/ q \in torn
      BY <1>1 DEF SyncInv, RowTellsTruth
    <2> QED
      BY <1>1, <1>2, <2>1, <2>2, <2>3, PageDone DEF SyncInv, SyncTypes
  <1>4. CASE ~syncRun.canceled
    <2>1. /\ gameRow' = [gameRow EXCEPT ![q] = [rev |-> 0, status |-> "failed"]]
          /\ UNCHANGED <<wiki, catalog, window, paths, lastPhase1, resumeTotal, torn, dropped>>
      BY <1>2, <1>4 DEF FetchFails, wikiUnchanged
    <2>2. /\ gameRow' \in [Pages -> [rev : Nat, status : {"none", "ok", "partial", "failed"}]]
          /\ \A p \in Pages \ {q} : gameRow'[p] = gameRow[p]
          /\ gameRow'[q].status # "ok" /\ ~Stale(q)'
      BY <2>1 DEF SyncInv, SyncTypes, Stale
    <2> QED
      BY <1>1, <1>2, <2>1, <2>2, PageDone DEF SyncInv, SyncTypes
  <1> QED
    BY <1>3, <1>4

LEMMA UpsertKeeps ==
  ASSUME SyncInv, UpsertRow \/ UpsertRowWithoutRevision
  PROVE  SyncInv'
  <1>1. syncRun.queue # <<>> /\ syncRun.pc = "read" /\ syncRun \in Run
    BY DEF SyncInv, SyncTypes, QueueInv, UpsertRow, UpsertRowWithoutRevision
  <1>2. PICK q \in Pages : q = Page
    BY <1>1, PageIsOne DEF SyncInv
  <1>3. syncRun.hint[q] \in Nat /\ wiki[q] \in Nat
    BY <1>1 DEF SyncInv, SyncTypes, Run
  <1>4. CASE UpsertRowWithoutRevision
    <2>1. ~Exists(q)
      BY <1>2, <1>4 DEF UpsertRowWithoutRevision, Exists
    <2>2. /\ gameRow' = [gameRow EXCEPT ![q] = [rev |-> syncRun.hint[q], status |-> "ok"]]
          /\ syncRun' = [syncRun EXCEPT !.pc = "row", !.rev = syncRun.hint[q]]
          /\ UNCHANGED <<wiki, catalog, window, paths, lastPhase1, resumeTotal, torn, dropped>>
      BY <1>2, <1>4 DEF UpsertRowWithoutRevision, wikiUnchanged
    <2> QED
      BY <1>1, <1>2, <1>3, <2>1, <2>2, RowWritten
  <1>5. CASE UpsertRow
    <2>1. PICK rev \in Nat : rev = RevisionOf(q)
      BY <1>3 DEF RevisionOf
    <2>2. rev = wiki[q] \/ q \in window
      BY <1>3, <2>1 DEF RevisionOf, SyncInv, HintInv
    <2>3. /\ torn' = torn \/ torn' = torn \ {q}
          /\ UNCHANGED <<wiki, catalog, window, paths, lastPhase1, resumeTotal, dropped>>
      BY <1>2, <1>5 DEF UpsertRow, wikiUnchanged
    <2>4. PICK status \in {"ok", "partial", "bare"} :
            /\ gameRow' = [gameRow EXCEPT ![q] = [rev |-> rev, status |-> IF status = "bare" THEN "partial" ELSE status]]
            /\ IF status = "bare" THEN syncRun' = NextPage(FALSE) ELSE syncRun' = [syncRun EXCEPT !.pc = "row", !.rev = rev]
      BY <1>2, <1>5, <2>1 DEF UpsertRow
    <2>5. CASE status = "bare"
      <3>1. /\ gameRow' \in [Pages -> [rev : Nat, status : {"none", "ok", "partial", "failed"}]]
            /\ \A p \in Pages \ {q} : gameRow'[p] = gameRow[p]
            /\ gameRow'[q].status # "ok" /\ ~Stale(q)'
        BY <2>4, <2>5 DEF SyncInv, SyncTypes, Stale
      <3> QED
        BY <1>1, <1>2, <2>3, <2>4, <2>5, <3>1, PageDone DEF SyncInv, SyncTypes
    <2>6. CASE status # "bare"
      BY <1>1, <1>2, <2>2, <2>3, <2>4, <2>6, RowWritten
    <2> QED
      BY <2>5, <2>6
  <1> QED
    BY <1>4, <1>5

LEMMA ReplaceKeeps ==
  ASSUME SyncInv, ReplacePaths \/ ReplaceFails
  PROVE  SyncInv'
  <1>1. syncRun.queue # <<>> /\ syncRun.pc = "row" /\ syncRun \in Run
    BY DEF SyncInv, SyncTypes, QueueInv, ReplacePaths, ReplaceFails
  <1>2. PICK q \in Pages : q = Page
    BY <1>1, PageIsOne DEF SyncInv
  <1>3. CASE ReplacePaths
    <2>1. /\ paths' = [paths EXCEPT ![q] = syncRun.text]
          /\ torn' = IF syncRun.text >= syncRun.rev THEN torn \ {q} ELSE torn \cup {q}
          /\ syncRun' = NextPage(FALSE)
          /\ UNCHANGED <<wiki, catalog, window, gameRow, lastPhase1, resumeTotal, dropped>>
      BY <1>2, <1>3 DEF ReplacePaths, wikiUnchanged
    <2>2. /\ paths' \in [Pages -> Nat] /\ paths'[q] = syncRun.text
          /\ \A p \in Pages \ {q} : paths'[p] = paths[p]
      BY <1>1, <2>1 DEF SyncInv, SyncTypes, Run
    <2>3. gameRow[q].rev = syncRun.rev /\ (Stale(q) => q \in window)
      BY <1>1, <1>2 DEF SyncInv, RowInv
    <2>4. Stale(q)' => Stale(q)
      BY <2>1 DEF Stale, Exists
    <2> QED
      BY <1>1, <1>2, <2>1, <2>2, <2>3, <2>4, PageDone DEF SyncInv, SyncTypes
  <1>4. CASE ReplaceFails
    <2>1. /\ gameRow' = [gameRow EXCEPT ![q] = [rev |-> 0, status |-> "failed"]] /\ syncRun' = NextPage(TRUE)
          /\ UNCHANGED <<wiki, catalog, window, paths, lastPhase1, resumeTotal, torn, dropped>>
      BY <1>2, <1>4 DEF ReplaceFails, wikiUnchanged
    <2>2. /\ gameRow' \in [Pages -> [rev : Nat, status : {"none", "ok", "partial", "failed"}]]
          /\ \A p \in Pages \ {q} : gameRow'[p] = gameRow[p]
          /\ gameRow'[q].status # "ok" /\ ~Stale(q)'
      BY <2>1 DEF SyncInv, SyncTypes, Stale
    <2> QED
      BY <1>1, <1>2, <2>1, <2>2, PageDone DEF SyncInv, SyncTypes
  <1> QED
    BY <1>3, <1>4

LEMMA UpsertFailsKeeps ==
  ASSUME SyncInv, UpsertFails
  PROVE  SyncInv'
  <1>1. syncRun.queue # <<>> /\ syncRun.pc \in {"ingest", "read"} /\ syncRun' = NextPage(TRUE)
    BY DEF UpsertFails, WriteFails, Reading, SyncInv, QueueInv
  <1>2. PICK q \in Pages : q = Page
    BY <1>1, PageIsOne DEF SyncInv
  <1>3. /\ UNCHANGED <<wiki, catalog, window, gameRow, paths, lastPhase1, resumeTotal, torn>>
        /\ dropped \subseteq dropped' /\ (Stale(q)' => q \in window \cup dropped')
    BY <1>2 DEF UpsertFails, wikiUnchanged, Stale, Exists
  <1>4. gameRow[q].status = "ok" => paths[q] >= gameRow[q].rev \/ q \in torn
    BY <1>1 DEF SyncInv, RowTellsTruth
  <1> QED
    BY <1>1, <1>2, <1>3, <1>4, PageDone DEF SyncInv, SyncTypes

LEMMA RowStaysAheadKeeps ==
  ASSUME SyncInv, RowStaysAhead
  PROVE  SyncInv'
  <1>1. syncRun.queue # <<>> /\ syncRun.pc = "row" /\ syncRun' = NextPage(TRUE)
    BY DEF RowStaysAhead, WriteFails, SyncInv, QueueInv
  <1>2. PICK q \in Pages : q = Page
    BY <1>1, PageIsOne DEF SyncInv
  <1>3. /\ UNCHANGED <<wiki, catalog, window, gameRow, paths, lastPhase1, resumeTotal, dropped>>
        /\ torn' = torn \cup {q}
    BY <1>2 DEF RowStaysAhead, wikiUnchanged
  <1>4. Stale(q)' => q \in window
    BY <1>1, <1>2, <1>3 DEF SyncInv, RowInv, Stale, Exists
  <1> QED
    BY <1>1, <1>2, <1>3, <1>4, PageDone DEF SyncInv, SyncTypes

LEMMA CatalogNextKeeps ==
  ASSUME SyncInv, [CatalogNext]_catalogVars
  PROVE  SyncInv'
  <1>1. CASE CatalogNext
    BY <1>1, WikiKeeps, BeginKeeps, BeginOneKeeps, ListingKeeps, EndKeeps, BuildKeeps, RecentChangesKeep, FetchFailsKeeps,
       UpsertKeeps, UpsertFailsKeeps, ReplaceKeeps, RowStaysAheadKeeps DEF CatalogNext, CatalogStep
  <1>2. CASE UNCHANGED catalogVars
    <2>1. UNCHANGED <<wiki, catalog, gameRow, paths, window, lastPhase1, resumeTotal, syncRun, torn, dropped>>
      BY <1>2 DEF catalogVars
    <2>2. syncRun \in Run /\ catalog \in SUBSET Pages
      BY DEF SyncInv, SyncTypes
    <2> QED
      BY <2>1, <2>2, RunGoesOn DEF SyncInv, QueueInv, Single
  <1> QED
    BY <1>1, <1>2

\* The inductive invariant of the mirror.
THEOREM MirrorInvariance == CatalogSpec => []SyncInv
  <1> QED
    BY InitSyncInv, CatalogNextKeeps, PTL DEF CatalogSpec

\* A row that says it was read at a revision has the paths of that revision or
\* of a later one, whichever of the writes fails, and whenever a run is
\* cancelled or the server restarted, but for the pages cut or overtaken in
\* between, and those whose metadata or undoing could not be written.
THEOREM RowTellsTruthHolds == CatalogSpec => []RowTellsTruth
  <1>1. SyncInv => RowTellsTruth
    BY DEF SyncInv
  <1> QED
    BY <1>1, MirrorInvariance, PTL

\* A page whose row is behind the wiki is in the window, in the queue or among
\* those a run is known to have given up.
THEOREM NoForgottenChangeHolds == CatalogSpec => []NoForgottenChange
  <1>1. SyncInv => NoForgottenChange
    BY DEF SyncInv
  <1> QED
    BY <1>1, MirrorInvariance, PTL

---------------------------------------------------------------------------
(* The bounds of a sync run. *)

\* The pages a run can have counted: those with a row, and those that are gone.
Gone == {p \in Pages : wiki[p] = Removed}
Known == catalog \cup Gone

Stamped == /\ wiki \in [Pages -> 0 .. Removed] /\ paths \in [Pages -> Revs]
           /\ gameRow \in [Pages -> [rev : Revs, status : {"none", "ok", "partial", "failed"}]]
Limited == /\ retries \in [Pages -> 0 .. DeadAfter] /\ windowAge \in {"recent", "due", "stale"}
           /\ faults \in 0 .. MaxFaults

\* A run keeps to its budget, an admin's refresh to its one page; both carry
\* revisions of the wiki.
Budgeted(r) ==
  IF r.mode = "single"
    THEN /\ r.pc \in {"ingest", "read", "row", "over"}
         /\ (r.queue = <<>> /\ r.done \in 0 .. 1) \/ (Len(r.queue) = 1 /\ r.done = 0)
    ELSE r.done \in 0 .. PageBudget /\ (r.pc \in {"read", "row"} => r.done < PageBudget)
Carries(r) == r.hint \in [Pages -> Revs] /\ r.text \in Revs /\ r.rev \in Revs

\* What a run counted after it was verified, and what the last one counted, is
\* no more than the pages that have a row or are gone.
Totalled ==
  /\ syncRun.total \in 0 .. MaxPages /\ resumeTotal \in 0 .. MaxPages
  /\ lastPhase1.total <= Cardinality(Known)
  /\ syncRun.pc \notin {"idle", "catalog", "verify"} => syncRun.total <= Cardinality(Known)

CatalogSmall == Stamped /\ Limited /\ Budgeted(syncRun) /\ Carries(syncRun) /\ Totalled

LEMMA Few ==
  ASSUME NEW S \in SUBSET Pages, NEW T \in SUBSET S
  PROVE  /\ IsFiniteSet(S) /\ Cardinality(S) \in Nat /\ Cardinality(T) \in Nat
         /\ Cardinality(T) <= Cardinality(S) /\ Cardinality(S) <= MaxPages
  <1>1. IsFiniteSet(Pages) /\ Cardinality(Pages) = MaxPages
    BY CatalogBounds, FS_Interval DEF Pages
  <1>2. IsFiniteSet(S) /\ Cardinality(S) <= MaxPages
    BY <1>1, FS_Subset
  <1>3. IsFiniteSet(T) /\ Cardinality(T) <= Cardinality(S)
    BY <1>2, FS_Subset
  <1> QED
    BY <1>2, <1>3, FS_CardinalityType

\* The pages beyond the n-th have n others before them.
LEMMA BeyondIsBeyond ==
  ASSUME NEW n \in Nat, PagesBeyond(n) # {}
  PROVE  Cardinality(PagesBeyond(n)) + n <= Cardinality(Listed)
  <1> DEFINE B == PagesBeyond(n)
             R == OpToRel(<, Nat)
  <1>1. B \subseteq Listed /\ Listed \subseteq Pages /\ Pages \subseteq Nat
    BY CatalogBounds DEF PagesBeyond, Listed, Pages
  <1>2. PICK m \in B : \A c \in B : <<c, m>> \notin R
    BY <1>1, NatLessThanWellFounded, WFMin
  <1>3. \A c \in B : ~(c < m)
    <2> SUFFICES ASSUME NEW c \in B PROVE ~(c < m)
      OBVIOUS
    <2>1. m \in Nat /\ c \in Nat
      BY <1>1
    <2> QED
      BY <1>2, <2>1 DEF OpToRel
  <1> DEFINE L == {q \in Listed : q < m}
  <1>4. Cardinality(L) >= n
    BY <1>2 DEF PagesBeyond
  <1>5. L \cap B = {} /\ L \in SUBSET Pages /\ B \in SUBSET Pages /\ Listed \in SUBSET Pages /\ L \cup B \in SUBSET Listed
    BY <1>1, <1>3
  <1> HIDE DEF L, B
  <1>6. /\ IsFiniteSet(L) /\ IsFiniteSet(B) /\ Cardinality(L) \in Nat /\ Cardinality(B) \in Nat /\ Cardinality(Listed) \in Nat
        /\ Cardinality(L \cup B) <= Cardinality(Listed)
    BY <1>5, Few
  <1>7. Cardinality(L \cup B) = Cardinality(L) + Cardinality(B)
    <2>1. Cardinality(L \cup B) = Cardinality(L) + Cardinality(B) - Cardinality(L \cap B)
      BY <1>6, FS_Union
    <2>2. Cardinality(L \cap B) = 0
      BY <1>5, FS_EmptySet
    <2> QED
      BY <1>6, <2>1, <2>2
  <1>8. Cardinality(B) + n <= Cardinality(Listed)
    BY <1>4, <1>6, <1>7
  <1> QED
    BY <1>8 DEF B

LEMMA TailCounts ==
  ASSUME SyncInv, CatalogSmall, PagesBeyond(Cardinality(catalog)) # {}
  PROVE  lastPhase1.total + Cardinality(PagesBeyond(Cardinality(catalog))) \in 0 .. MaxPages
  <1> DEFINE c == Cardinality(catalog)
             b == Cardinality(PagesBeyond(c))
             g == Cardinality(Gone)
             l == Cardinality(Listed)
  <1>1. catalog \in SUBSET Pages /\ Gone \in SUBSET Pages /\ Listed \in SUBSET Pages /\ Gone \cap Listed = {}
        /\ Gone \cup Listed \in SUBSET Pages /\ PagesBeyond(c) \in SUBSET Pages /\ Gone \cap catalog \in SUBSET Pages
    BY DEF SyncInv, SyncTypes, Gone, Listed, Exists, PagesBeyond
  <1>2. c \in Nat /\ g \in Nat /\ l \in Nat /\ b \in Nat /\ Cardinality(Gone \cap catalog) \in Nat /\ Cardinality(catalog \cap Gone) \in Nat
    BY <1>1, Few
  <1>3. Cardinality(catalog \cup Gone) = c + g - Cardinality(catalog \cap Gone)
    BY <1>1, Few, FS_Union
  <1>4. Cardinality(Gone \cup Listed) = g + l /\ Cardinality(Gone \cup Listed) <= MaxPages
    <2>1. IsFiniteSet(Gone) /\ IsFiniteSet(Listed) /\ Cardinality(Gone \cup Listed) <= MaxPages
      BY <1>1, Few
    <2>2. Cardinality(Gone \cup Listed) = Cardinality(Gone) + Cardinality(Listed) - Cardinality(Gone \cap Listed)
      BY <2>1, FS_Union
    <2>3. Cardinality(Gone \cap Listed) = 0
      BY <1>1, FS_EmptySet
    <2> QED
      BY <1>2, <2>1, <2>2, <2>3
  <1>5. b + c <= l
    BY <1>2, BeyondIsBeyond
  <1>6. lastPhase1.total \in Nat /\ lastPhase1.total <= Cardinality(catalog \cup Gone)
    BY DEF SyncInv, SyncTypes, CatalogSmall, Totalled, Known
  <1> HIDE DEF c, b, g, l
  <1>7. lastPhase1.total + b \in 0 .. MaxPages
    BY <1>2, <1>3, <1>4, <1>5, <1>6, CatalogBounds
  <1> QED
    BY <1>7 DEF b, c

LEMMA KnownGrows ==
  ASSUME SyncInv, SyncInv', Known \subseteq Known'
  PROVE  Cardinality(Known) <= Cardinality(Known')
  <1>1. Known \in SUBSET Pages /\ Known' \in SUBSET Pages
    BY DEF SyncInv, SyncTypes, Known, Gone
  <1> QED
    BY <1>1, Few

\* The fields of the run after the page in hand.
LEMMA NextPageDoes ==
  ASSUME SyncInv, CatalogSmall, NEW failed \in BOOLEAN, syncRun' = NextPage(failed), syncRun.queue # <<>>,
         ~Single => syncRun.done < PageBudget
  PROVE  /\ Budgeted(syncRun') /\ Carries(syncRun') /\ syncRun'.total = syncRun.total /\ syncRun'.pc = "ingest"
  <1>1. syncRun \in Run /\ Page \in Pages /\ syncRun.queue \in Seq(Pages)
    BY PageIsOne DEF SyncInv, SyncTypes, Run
  <1> DEFINE hint == [syncRun.hint EXCEPT ![Page] = 0]
             bad == syncRun.failed \/ failed
             done == syncRun.done + 1
             rest == Tail(syncRun.queue)
  <1>2. syncRun' = [syncRun EXCEPT !.pc = "ingest", !.queue = rest, !.hint = hint,
                                   !.done = done, !.failed = bad, !.text = 0, !.rev = 0]
    BY <1>1 DEF NextPage, Run, Page
  <1>3. hint \in [Pages -> Revs] /\ 0 \in Revs
    BY <1>1, CatalogBounds DEF CatalogSmall, Carries, Revs
  <1>4. done \in Nat /\ syncRun.done \in Nat
    BY <1>1 DEF Run
  <1>5. Single => rest = <<>> /\ done = 1
    <2> SUFFICES ASSUME Single PROVE rest = <<>> /\ done = 1
      OBVIOUS
    <2>1. Len(syncRun.queue) = 1 /\ syncRun.done = 0
      BY DEF CatalogSmall, Budgeted, Single
    <2> QED
      <3>1. rest \in Seq(Pages) /\ Len(rest) = 0
        <4>1. Tail(syncRun.queue) \in Seq(Pages) /\ Len(Tail(syncRun.queue)) = Len(syncRun.queue) - 1
          BY <1>1, HeadTailProperties
        <4> QED
          BY <2>1, <4>1
      <3> HIDE DEF rest
      <3>2. rest = <<>>
        BY <3>1, EmptySeq
      <3>3. done = 1
        BY <2>1
      <3> QED
        BY <3>2, <3>3
  <1>6. ~Single => done <= PageBudget
    BY <1>4, CatalogBounds
  <1> HIDE DEF hint, bad, done, rest
  <1>7. /\ syncRun'.pc = "ingest" /\ syncRun'.queue = rest /\ syncRun'.hint = hint /\ syncRun'.done = done
        /\ syncRun'.text = 0 /\ syncRun'.rev = 0 /\ syncRun'.mode = syncRun.mode /\ syncRun'.total = syncRun.total
    BY <1>1, <1>2 DEF Run
  <1>8. Carries(syncRun')
    BY <1>3, <1>7 DEF Carries
  <1>9. Budgeted(syncRun')
    BY <1>4, <1>5, <1>6, <1>7, CatalogBounds DEF Budgeted, Single
  <1> QED
    BY <1>7, <1>8, <1>9

Early == {"idle", "catalog", "verify"}

LEMMA Bounded == /\ Revs \subseteq Nat /\ 0 \in Revs /\ Removed \in Nat /\ Removed \notin Revs /\ Removed > 0
                 /\ \A n \in 0 .. Removed : n # Removed => n \in Revs
                 /\ 0 \in 0 .. DeadAfter /\ 0 \in 0 .. PageBudget /\ 0 < PageBudget /\ 0 \in 0 .. MaxPages
  BY CatalogBounds DEF Revs, Removed

LEMMA TotalsStay ==
  ASSUME SyncInv, SyncInv', CatalogSmall, Known \subseteq Known', lastPhase1' = lastPhase1,
         resumeTotal' \in {resumeTotal, syncRun.total}, syncRun'.total \in {0, syncRun.total},
         syncRun'.pc \notin Early => syncRun'.total = 0 \/ syncRun.pc \notin Early
  PROVE  Totalled'
  <1>1. Cardinality(Known) <= Cardinality(Known') /\ Cardinality(Known) \in Nat /\ Cardinality(Known') \in Nat
    <2>1. Known \in SUBSET Pages /\ Known' \in SUBSET Pages
      BY DEF SyncInv, SyncTypes, Known, Gone
    <2> QED
      BY <2>1, Few, KnownGrows
  <1>2. lastPhase1.total \in Nat /\ syncRun.total \in Nat /\ 0 \in 0 .. MaxPages
    BY Bounded DEF SyncInv, SyncTypes, Run
  <1> QED
    BY <1>1, <1>2 DEF CatalogSmall, Totalled, Early

\* The wiki is edited, the window ages, and parked pages are freed.
LEMMA WikiSmall ==
  ASSUME SyncInv, SyncInv', CatalogSmall,
         (\E p \in Pages : WikiCreates(p) \/ WikiEdits(p) \/ WikiRemoves(p)) \/ WindowAges \/ ResetDeadLetter
  PROVE  CatalogSmall'
  <1>1. UNCHANGED <<catalog, gameRow, paths, lastPhase1, resumeTotal, syncRun>>
    BY DEF WikiCreates, WikiEdits, WikiRemoves, TouchPage, WindowAges, ResetDeadLetter
  <1>2. wiki' \in [Pages -> 0 .. Removed] /\ Gone \subseteq Gone'
    <2>1. ASSUME NEW p \in Pages, WikiCreates(p) \/ WikiEdits(p) \/ WikiRemoves(p)
          PROVE  wiki' \in [Pages -> 0 .. Removed] /\ Gone \subseteq Gone'
      <3>1. PICK rev \in 0 .. Removed : wiki' = [wiki EXCEPT ![p] = rev] /\ wiki[p] # Removed
        <4>1. wiki[p] \in 0 .. Removed /\ 1 \in 0 .. Removed /\ Removed \in 0 .. Removed
          BY CatalogBounds DEF CatalogSmall, Stamped, Removed
        <4>2. wiki[p] < MaxRevs => wiki[p] + 1 \in 0 .. Removed
          BY <4>1, CatalogBounds DEF Removed
        <4> QED
          BY <2>1, <4>1, <4>2, Bounded DEF WikiCreates, WikiEdits, WikiRemoves, TouchPage, Exists
      <3> QED
        BY <3>1 DEF CatalogSmall, Stamped, Gone
    <2>2. CASE WindowAges \/ ResetDeadLetter
      BY <2>2 DEF WindowAges, ResetDeadLetter, wikiUnchanged, CatalogSmall, Stamped, Gone
    <2> QED
      BY <2>1, <2>2
  <1>3. Stamped'
    BY <1>1, <1>2 DEF CatalogSmall, Stamped
  <1>4. Limited'
    <2>1. retries' \in [Pages -> 0 .. DeadAfter]
      BY Bounded DEF WikiCreates, WikiEdits, WikiRemoves, TouchPage, WindowAges, ResetDeadLetter, CatalogSmall, Limited
    <2>2. windowAge' \in {"recent", "due", "stale"}
      BY DEF WikiCreates, WikiEdits, WikiRemoves, TouchPage, WindowAges, ResetDeadLetter, wikiUnchanged, CatalogSmall, Limited
    <2>3. faults' = faults \/ Fault
      BY DEF WikiCreates, WikiEdits, WikiRemoves, WindowAges, ResetDeadLetter
    <2>4. faults' \in 0 .. MaxFaults
      BY <2>3, CatalogBounds DEF Fault, CatalogSmall, Limited
    <2> QED
      BY <2>1, <2>2, <2>4 DEF Limited
  <1>5. Budgeted(syncRun') /\ Carries(syncRun')
    BY <1>1 DEF CatalogSmall
  <1>6. Known \subseteq Known'
    BY <1>1, <1>2 DEF Known
  <1>7. Totalled'
    BY <1>1, <1>6, TotalsStay
  <1> QED
    BY <1>3, <1>4, <1>5, <1>7 DEF CatalogSmall, Budgeted, Carries

LEMMA FaultsStay ==
  ASSUME CatalogSmall, faults' = faults \/ Fault
  PROVE  faults' \in 0 .. MaxFaults
  BY CatalogBounds DEF Fault, CatalogSmall, Limited

\* A new run: nothing read, nothing queued but an admin's page.
LEMMA BeginSmall ==
  ASSUME SyncInv, SyncInv', CatalogSmall, (\E mode \in Modes : SyncBegins(mode)) \/ (\E p \in Pages : SyncOnePage(p))
  PROVE  CatalogSmall'
  <1>1. /\ UNCHANGED <<wiki, windowAge, catalog, retries, gameRow, paths, lastPhase1, resumeTotal>>
        /\ faults' = faults \/ Fault
    BY DEF SyncBegins, SyncOnePage, wikiUnchanged
  <1>2. Stamped' /\ Limited' /\ Known' = Known
    BY <1>1, FaultsStay DEF CatalogSmall, Stamped, Limited, Known, Gone
  <1>3. NoSync \in Run /\ NoSync.hint \in [Pages -> Revs] /\ NoSync.text = 0 /\ NoSync.rev = 0 /\ NoSync.done = 0
        /\ NoSync.queue = <<>> /\ NoSync.total = 0
    BY NoSyncIsRun, Bounded DEF NoSync
  <1>4. Known \in SUBSET Pages /\ Cardinality(Known) \in Nat
    <2>1. Known \in SUBSET Pages
      BY DEF SyncInv, SyncTypes, Known, Gone
    <2> QED
      BY <2>1, Few
  <1>5. ASSUME NEW p \in Pages, SyncOnePage(p) PROVE Budgeted(syncRun') /\ Carries(syncRun') /\ Totalled'
    <2>1. syncRun' = [NoSync EXCEPT !.mode = "single", !.pc = "ingest", !.queue = <<p>>]
      BY <1>5 DEF SyncOnePage
    <2>2. syncRun'.mode = "single" /\ syncRun'.pc = "ingest" /\ syncRun'.queue = <<p>> /\ syncRun'.done = 0
          /\ syncRun'.hint = NoSync.hint /\ syncRun'.text = 0 /\ syncRun'.rev = 0 /\ syncRun'.total = 0
      BY <1>3, <2>1 DEF Run
    <2>3. Len(<<p>>) = 1
      OBVIOUS
    <2>4. Budgeted(syncRun')
      BY <2>2, <2>3 DEF Budgeted
    <2>5. Carries(syncRun')
      BY <1>3, <2>2, Bounded DEF Carries
    <2>6. Totalled'
      BY <1>1, <1>2, <1>4, <2>2, Bounded DEF CatalogSmall, Totalled
    <2> QED
      BY <2>4, <2>5, <2>6
  <1>6. ASSUME NEW mode \in Modes, SyncBegins(mode) PROVE Budgeted(syncRun') /\ Carries(syncRun') /\ Totalled'
    <2> DEFINE resumed == mode = "incremental" /\ resumeTotal > 0 /\ Cardinality(catalog) >= resumeTotal
               pc == IF mode \in {"retry", "missing"} THEN "queue" ELSE IF resumed THEN "verify" ELSE "catalog"
               total == IF resumed THEN resumeTotal ELSE IF mode \in {"retry", "missing"} THEN lastPhase1.total ELSE 0
               hash == IF mode \in {"retry", "missing"} THEN lastPhase1.hash ELSE {}
    <2>1. syncRun' = [NoSync EXCEPT !.mode = mode, !.pc = pc, !.total = total, !.hash = hash]
      BY <1>6 DEF SyncBegins
    <2>2. pc \in {"queue", "verify", "catalog"} /\ (pc = "queue" => total = lastPhase1.total)
          /\ total \in {resumeTotal, lastPhase1.total, 0}
      OBVIOUS
    <2> HIDE DEF pc, total, hash
    <2>3. syncRun'.mode = mode /\ syncRun'.pc = pc /\ syncRun'.queue = <<>> /\ syncRun'.done = 0
          /\ syncRun'.hint = NoSync.hint /\ syncRun'.text = 0 /\ syncRun'.rev = 0 /\ syncRun'.total = total
      BY <1>3, <2>1 DEF Run
    <2>4. Budgeted(syncRun')
      BY <2>2, <2>3, Bounded DEF Budgeted, Modes
    <2>5. Carries(syncRun')
      BY <1>3, <2>3, Bounded DEF Carries
    <2>6. lastPhase1.total \in 0 .. MaxPages
      BY <1>4, Few, CatalogBounds DEF CatalogSmall, Totalled, SyncInv, SyncTypes
    <2>7. Totalled'
      BY <1>1, <1>2, <1>4, <2>2, <2>3, <2>6, Bounded DEF CatalogSmall, Totalled
    <2> QED
      BY <2>4, <2>5, <2>7
  <1>7. Budgeted(syncRun') /\ Carries(syncRun') /\ Totalled'
    BY <1>5, <1>6
  <1> QED
    BY <1>2, <1>7 DEF CatalogSmall, Budgeted, Carries

\* Listing: what is counted is in the catalogue, or counted once more.
LEMMA ScanSmall ==
  ASSUME SyncInv, SyncInv', CatalogSmall, RunCatalogPhase \/ ProbeFails \/ VerifyCatalog
  PROVE  CatalogSmall'
  <1>1. /\ UNCHANGED <<wiki, windowAge, retries, gameRow, paths, lastPhase1, resumeTotal>>
        /\ faults' = faults \/ Fault
    BY DEF RunCatalogPhase, ProbeFails, VerifyCatalog, wikiUnchanged
  <1>2. Stamped' /\ Limited'
    BY <1>1, FaultsStay DEF CatalogSmall, Stamped, Limited
  <1>3. syncRun \in Run /\ catalog \in SUBSET Pages /\ Listed \in SUBSET Pages /\ catalog' \in SUBSET Pages
        /\ Known \in SUBSET Pages /\ Known' \in SUBSET Pages /\ lastPhase1.total \in Nat
    BY DEF SyncInv, SyncTypes, Listed, Known, Gone
  <1>4. Cardinality(Listed) \in 0 .. MaxPages /\ Cardinality(catalog) \in Nat /\ Cardinality(Known) \in 0 .. MaxPages
        /\ Cardinality(Known') \in Nat
    BY <1>3, Few, CatalogBounds
  <1>5. PICK pc \in {"verify", "queue"}, total \in 0 .. MaxPages :
          /\ syncRun.mode # "single"
          /\ \E hash, grew : syncRun' = [syncRun EXCEPT !.pc = pc, !.total = total, !.hash = hash, !.grew = grew]
          /\ catalog \subseteq catalog'
          /\ pc = "queue" => total <= Cardinality(catalog')
    <2>0. syncRun.pc \in {"catalog", "verify"} /\ syncRun.mode # "single"
      BY DEF RunCatalogPhase, ProbeFails, VerifyCatalog, CatalogSmall, Budgeted
    <2>1. ASSUME NEW pc \in {"verify", "queue"}, ScanAll(pc)
          PROVE  /\ \E hash, grew : syncRun' = [syncRun EXCEPT !.pc = pc, !.total = Cardinality(Listed), !.hash = hash, !.grew = grew]
                 /\ catalog \subseteq catalog' /\ Cardinality(Listed) <= Cardinality(catalog')
      <3>1. catalog' = catalog \cup Listed
        BY <2>1 DEF ScanAll
      <3>2. Cardinality(Listed) <= Cardinality(catalog')
        BY <1>3, <3>1, Few
      <3> QED
        BY <2>1, <3>1, <3>2 DEF ScanAll
    <2>2. CASE ScanAll("verify")
      BY <1>4, <2>0, <2>1, <2>2
    <2>3. CASE VerifyCatalog
      <3>1. CASE ScanAll("queue")
        BY <1>4, <2>0, <2>1, <3>1
      <3>2. CASE ~ScanAll("queue")
        <4>1. syncRun' = [syncRun EXCEPT !.pc = "queue"] /\ catalog' = catalog
              /\ ~(syncRun.total > 0 /\ Cardinality(catalog) < syncRun.total)
          BY <2>3, <3>2 DEF VerifyCatalog
        <4>2. syncRun' = [syncRun EXCEPT !.pc = "queue", !.total = syncRun.total, !.hash = syncRun.hash, !.grew = syncRun.grew]
          BY <1>3, <4>1 DEF Run
        <4>3. syncRun.total \in 0 .. MaxPages /\ syncRun.total <= Cardinality(catalog')
          BY <1>4, <4>1 DEF CatalogSmall, Totalled
        <4> QED
          BY <2>0, <4>1, <4>2, <4>3
      <3> QED
        BY <3>1, <3>2
    <2>4. CASE ScanTail /\ PagesBeyond(Cardinality(catalog)) # {}
      <3> DEFINE t == lastPhase1.total + Cardinality(PagesBeyond(Cardinality(catalog)))
      <3>1. t \in 0 .. MaxPages
        BY <2>4, TailCounts
      <3>2. catalog \subseteq catalog'
            /\ \E hash, grew : syncRun' = [syncRun EXCEPT !.pc = "verify", !.total = t, !.hash = hash, !.grew = grew]
        BY <2>4 DEF ScanTail
      <3> HIDE DEF t
      <3> QED
        BY <2>0, <3>1, <3>2
    <2>5. CASE syncRun' = [syncRun EXCEPT !.pc = "verify", !.total = lastPhase1.total, !.hash = lastPhase1.hash] /\ UNCHANGED catalog
      <3>1. syncRun' = [syncRun EXCEPT !.pc = "verify", !.total = lastPhase1.total, !.hash = lastPhase1.hash, !.grew = syncRun.grew]
        BY <1>3, <2>5 DEF Run
      <3>2. lastPhase1.total \in 0 .. MaxPages
        BY <1>3, <1>4, CatalogBounds DEF CatalogSmall, Totalled
      <3> QED
        BY <2>0, <2>5, <3>1, <3>2
    <2> QED
      BY <2>2, <2>3, <2>4, <2>5 DEF RunCatalogPhase, ProbeFails
  <1>6. /\ syncRun'.pc = pc /\ syncRun'.total = total /\ syncRun'.mode = syncRun.mode /\ syncRun'.done = syncRun.done
        /\ syncRun'.queue = syncRun.queue /\ syncRun'.hint = syncRun.hint /\ syncRun'.text = syncRun.text
        /\ syncRun'.rev = syncRun.rev
    BY <1>3, <1>5 DEF Run
  <1>7. Budgeted(syncRun') /\ Carries(syncRun')
    BY <1>5, <1>6 DEF CatalogSmall, Budgeted, Carries
  <1>8. catalog' \subseteq Known' /\ Known \subseteq Known'
    BY <1>1, <1>5 DEF Known, Gone
  <1>9. Cardinality(catalog') <= Cardinality(Known') /\ Cardinality(Known) <= Cardinality(Known') /\ Cardinality(catalog') \in Nat
    BY <1>3, <1>8, Few, KnownGrows
  <1>10. Totalled'
    <2>1. syncRun'.pc \notin {"idle", "catalog", "verify"} => syncRun'.total <= Cardinality(Known')
      BY <1>4, <1>5, <1>6, <1>9
    <2>2. lastPhase1.total <= Cardinality(Known')
      BY <1>3, <1>4, <1>9 DEF CatalogSmall, Totalled
    <2> QED
      BY <1>1, <1>5, <1>6, <2>1, <2>2 DEF CatalogSmall, Totalled
  <1> QED
    BY <1>2, <1>7, <1>10 DEF CatalogSmall, Budgeted, Carries

\* The run goes on, or is told to stop.
LEMMA RunOnSmall ==
  ASSUME SyncInv, SyncInv', CatalogSmall, CancelSyncRun \/ FetchText \/ WriteRefused \/ ReplaceRefused
  PROVE  CatalogSmall'
  <1>1. /\ UNCHANGED <<wiki, windowAge, catalog, retries, gameRow, paths, lastPhase1, resumeTotal>>
        /\ faults' = faults \/ Fault
    BY DEF CancelSyncRun, FetchText, WriteRefused, ReplaceRefused, wikiUnchanged
  <1>2. Stamped' /\ Limited' /\ Known' = Known
    BY <1>1, FaultsStay DEF CatalogSmall, Stamped, Limited, Known, Gone
  <1>3. syncRun \in Run /\ syncRun.rev \in Revs /\ syncRun.text \in Revs /\ syncRun.pc \in Places
    BY DEF SyncInv, SyncTypes, Run, CatalogSmall, Carries
  <1>4. PICK pc \in Places, text \in Revs, rev \in Revs, canceled \in BOOLEAN :
          /\ syncRun' = [syncRun EXCEPT !.pc = pc, !.text = text, !.rev = rev, !.canceled = canceled]
          /\ pc = syncRun.pc \/ (syncRun.pc \notin Early /\ pc \in {"ingest", "over", "read"})
          /\ syncRun.mode = "single" /\ pc # syncRun.pc => syncRun.pc \in {"ingest", "read", "row"}
          /\ syncRun.mode # "single" /\ pc = "read" => syncRun.done < PageBudget \/ syncRun.pc = "read"
    <2>1. CASE CancelSyncRun
      <3>1. syncRun' = [syncRun EXCEPT !.pc = syncRun.pc, !.text = syncRun.text, !.rev = syncRun.rev, !.canceled = TRUE]
        BY <1>3, <2>1 DEF CancelSyncRun, Run
      <3> QED
        BY <1>3, <3>1
    <2>2. CASE FetchText
      <3>1. syncRun.queue # <<>> /\ syncRun.pc = "ingest" /\ Exists(Page) /\ (Single \/ syncRun.done < PageBudget)
        BY <2>2 DEF FetchText, Reading
      <3>2. Page \in Pages /\ wiki[Page] \in Revs
        BY <3>1, PageIsOne, Bounded DEF SyncInv, CatalogSmall, Stamped, Exists
      <3>3. syncRun' = [syncRun EXCEPT !.pc = "read", !.text = wiki[Page]]
        BY <2>2 DEF FetchText
      <3>4. syncRun' = [syncRun EXCEPT !.pc = "read", !.text = wiki[Page], !.rev = syncRun.rev, !.canceled = syncRun.canceled]
        BY <1>3, <3>3 DEF Run
      <3>5. syncRun.canceled \in BOOLEAN
        BY <1>3 DEF Run
      <3> QED
        BY <1>3, <3>1, <3>2, <3>4, <3>5 DEF Places, Early, Single
    <2>3. CASE WriteRefused \/ ReplaceRefused
      <3>1. PICK pc \in {"over", "ingest"}, rev \in {0, syncRun.rev} :
              syncRun' = [syncRun EXCEPT !.pc = pc, !.text = 0, !.rev = rev, !.canceled = syncRun.canceled]
        <4>1. CASE WriteRefused
          BY <1>3, <4>1 DEF WriteRefused, Run
        <4>2. CASE ReplaceRefused
          BY <1>3, <4>2 DEF ReplaceRefused, Run
        <4> QED
          BY <2>3, <4>1, <4>2
      <3>2. syncRun.pc \in {"read", "row"} /\ syncRun.canceled \in BOOLEAN
        BY <1>3, <2>3 DEF WriteRefused, ReplaceRefused, Run
      <3> QED
        BY <1>3, <3>1, <3>2, Bounded DEF Places, Early
    <2> QED
      BY <2>1, <2>2, <2>3
  <1>5. /\ syncRun'.pc = pc /\ syncRun'.total = syncRun.total /\ syncRun'.mode = syncRun.mode /\ syncRun'.done = syncRun.done
        /\ syncRun'.queue = syncRun.queue /\ syncRun'.hint = syncRun.hint /\ syncRun'.text = text
        /\ syncRun'.rev = rev
    BY <1>3, <1>4 DEF Run
  <1>6. Budgeted(syncRun') /\ Carries(syncRun')
    BY <1>4, <1>5 DEF CatalogSmall, Budgeted, Carries, Early
  <1>7. Totalled'
    BY <1>1, <1>2, <1>4, <1>5, TotalsStay DEF Early
  <1> QED
    BY <1>2, <1>6, <1>7 DEF CatalogSmall, Budgeted, Carries

\* A run ends: what it counted is kept when it was a success, and then it was verified.
LEMMA EndSmall ==
  ASSUME SyncInv, SyncInv', CatalogSmall, CatalogPhaseEnds \/ SyncSkips \/ IngestEnds \/ SingleEnds \/ RestartSync
  PROVE  CatalogSmall'
  <1>1. /\ UNCHANGED <<wiki, windowAge, catalog, retries, gameRow, paths>> /\ syncRun' = NoSync
        /\ faults' = faults \/ Fault
    BY DEF CatalogPhaseEnds, SyncSkips, IngestEnds, SingleEnds, RestartSync, EndSync, wikiUnchanged
  <1>2. Stamped' /\ Limited' /\ Known' = Known
    BY <1>1, FaultsStay DEF CatalogSmall, Stamped, Limited, Known, Gone
  <1>3. resumeTotal' \in {resumeTotal, syncRun.total}
    BY DEF CatalogPhaseEnds, SyncSkips, IngestEnds, SingleEnds, RestartSync, EndSync
  <1>4. lastPhase1' = lastPhase1 \/ (syncRun.pc \notin Early /\ lastPhase1' = [total |-> syncRun.total, hash |-> syncRun.hash])
    BY DEF CatalogPhaseEnds, SyncSkips, IngestEnds, SingleEnds, RestartSync, EndSync, Early
  <1>5. lastPhase1'.total <= Cardinality(Known')
    BY <1>2, <1>4 DEF CatalogSmall, Totalled, Early
  <1>6. NoSync.mode = "none" /\ NoSync.done = 0 /\ NoSync.pc = "idle" /\ NoSync.total = 0 /\ NoSync.text = 0 /\ NoSync.rev = 0
        /\ NoSync.hint \in [Pages -> Revs]
    BY Bounded DEF NoSync
  <1>7. Budgeted(syncRun') /\ Carries(syncRun')
    BY <1>1, <1>6, Bounded DEF Budgeted, Carries
  <1>8. Totalled'
    <2>1. resumeTotal' \in 0 .. MaxPages
      BY <1>3 DEF CatalogSmall, Totalled
    <2> QED
      BY <1>1, <1>5, <1>6, <2>1, Bounded DEF Totalled
  <1> QED
    BY <1>2, <1>7, <1>8 DEF CatalogSmall, Budgeted, Carries

\* The queue is built, from pages at revisions of the wiki.
LEMMA FillSmall ==
  ASSUME SyncInv, SyncInv', CatalogSmall, NEW changed \in SUBSET Pages, Fill(changed),
         syncRun.pc = "queue", Stamped', Limited', Known \subseteq Known', UNCHANGED <<lastPhase1, resumeTotal>>
  PROVE  CatalogSmall'
  <1>1. syncRun \in Run /\ syncRun.mode # "single"
    BY DEF SyncInv, SyncTypes, CatalogSmall, Budgeted
  <1>2. PICK queue : syncRun' = [syncRun EXCEPT !.pc = "ingest", !.queue = queue,
                                   !.hint = [p \in Pages |-> IF p \in changed /\ Exists(p) THEN wiki[p] ELSE 0]]
    BY DEF Fill
  <1> DEFINE hint == [p \in Pages |-> IF p \in changed /\ Exists(p) THEN wiki[p] ELSE 0]
  <1>3. hint \in [Pages -> Revs]
    BY Bounded DEF CatalogSmall, Stamped, Exists
  <1> HIDE DEF hint
  <1>4. syncRun' = [syncRun EXCEPT !.pc = "ingest", !.queue = queue, !.hint = hint]
    BY <1>2 DEF hint
  <1>5. /\ syncRun'.pc = "ingest" /\ syncRun'.total = syncRun.total /\ syncRun'.mode = syncRun.mode
        /\ syncRun'.done = syncRun.done /\ syncRun'.hint = hint /\ syncRun'.text = syncRun.text /\ syncRun'.rev = syncRun.rev
    BY <1>1, <1>4 DEF Run
  <1>6. Budgeted(syncRun') /\ Carries(syncRun')
    BY <1>1, <1>3, <1>5 DEF CatalogSmall, Budgeted, Carries
  <1>7. Totalled'
    BY <1>5, TotalsStay DEF Early
  <1> QED
    BY <1>6, <1>7 DEF CatalogSmall, Budgeted, Carries

LEMMA BuildSmall ==
  ASSUME SyncInv, SyncInv', CatalogSmall, BuildQueue \/ SweepRevisions \/ RevisionCheckFails
  PROVE  CatalogSmall'
  <1>1. /\ syncRun.pc = "queue" /\ UNCHANGED <<wiki, catalog, retries, gameRow, paths, lastPhase1, resumeTotal>>
        /\ faults' = faults \/ Fault
        /\ windowAge' \in {windowAge, "recent"}
    BY DEF BuildQueue, SweepRevisions, RevisionCheckFails, BuildChangedQueue, wikiUnchanged, Checked
  <1>2. Stamped' /\ Limited' /\ Known' = Known
    BY <1>1, FaultsStay DEF CatalogSmall, Stamped, Limited, Known, Gone
  <1>3. PICK changed \in SUBSET Pages : Fill(changed)
    <2>1. {} \in SUBSET Pages /\ {p \in Pages : gameRow[p].status = "ok" /\ gameRow[p].rev # wiki[p]} \in SUBSET Pages
      OBVIOUS
    <2> QED
      BY <2>1 DEF BuildQueue, SweepRevisions, RevisionCheckFails
  <1> QED
    BY <1>1, <1>2, <1>3, FillSmall

LEMMA RecentChangesSmall ==
  ASSUME SyncInv, SyncInv', CatalogSmall, ReadRecentChanges
  PROVE  CatalogSmall'
  <1> DEFINE gone == {p \in window \cap (catalog \cup {q \in Pages : gameRow[q].status # "none"}) : wiki[p] = Removed}
             deleted == IF catalog # {} /\ ValveShare * Cardinality(gone) > Cardinality(catalog) THEN {} ELSE gone
             changed == {p \in window : Exists(p) /\ ~CurrentRow(p)}
  <1>1. /\ catalog' = (catalog \ deleted) \cup changed
        /\ gameRow' = [p \in Pages |-> IF p \in deleted THEN NoGame ELSE gameRow[p]]
        /\ paths' = [p \in Pages |-> IF p \in deleted THEN 0 ELSE paths[p]]
        /\ retries' = [p \in Pages |-> IF p \in deleted THEN 0 ELSE retries[p]]
        /\ Fill(changed)
        /\ syncRun.pc = "queue" /\ windowAge' = "recent"
        /\ UNCHANGED <<wiki, lastPhase1, resumeTotal, faults>>
    BY DEF ReadRecentChanges, BuildChangedQueue, Checked
  <1>2. changed \in SUBSET Pages /\ deleted \subseteq Gone
    BY DEF SyncInv, SyncTypes, Gone
  <1> HIDE DEF deleted, changed
  <1>3. Stamped'
    <2>1. NoGame \in [rev : Revs, status : {"none", "ok", "partial", "failed"}]
      BY Bounded DEF NoGame
    <2>2. gameRow' \in [Pages -> [rev : Revs, status : {"none", "ok", "partial", "failed"}]]
      BY <1>1, <2>1 DEF CatalogSmall, Stamped
    <2>3. paths' \in [Pages -> Revs] /\ wiki' \in [Pages -> 0 .. Removed]
      BY <1>1, Bounded DEF CatalogSmall, Stamped
    <2> QED
      BY <2>2, <2>3 DEF Stamped
  <1>4. Limited'
    BY <1>1, Bounded DEF CatalogSmall, Limited
  <1>5. Known \subseteq Known'
    BY <1>1, <1>2 DEF Known, Gone
  <1> QED
    BY <1>1, <1>2, <1>3, <1>4, <1>5, FillSmall

LEMMA CountingKeeps ==
  ASSUME CatalogSmall, NEW q \in Pages,
         \/ retries' = retries \/ retries' = [retries EXCEPT ![q] = 0] \/ retries' = Counted(q)
  PROVE  retries' \in [Pages -> 0 .. DeadAfter]
  <1>1. retries \in [Pages -> 0 .. DeadAfter]
    BY DEF CatalogSmall, Limited
  <1>2. CASE retries' = Counted(q)
    <2>1. CASE retries[q] = DeadAfter
      BY <1>1, <1>2, <2>1 DEF Counted
    <2>2. CASE retries[q] # DeadAfter
      <3>1. retries[q] + 1 \in 0 .. DeadAfter
        BY <1>1, <2>2, CatalogBounds
      <3> QED
        BY <1>1, <1>2, <2>2, <3>1 DEF Counted
    <2> QED
      BY <2>1, <2>2
  <1> QED
    BY <1>1, <1>2, Bounded

\* A page is read, and its row and its paths are written, or not.
LEMMA PageSmall ==
  ASSUME SyncInv, SyncInv', CatalogSmall,
         FetchFails \/ UpsertFails \/ UpsertRow \/ UpsertRowWithoutRevision
         \/ ReplacePaths \/ ReplaceFails \/ RowStaysAhead
  PROVE  CatalogSmall'
  <1>1. /\ UNCHANGED <<wiki, windowAge, catalog, lastPhase1, resumeTotal>>
        /\ faults' = faults \/ Fault
    BY DEF FetchFails, UpsertFails, UpsertRow, UpsertRowWithoutRevision, ReplacePaths, ReplaceFails, RowStaysAhead,
       WriteFails, wikiUnchanged
  <1>2. /\ syncRun.queue # <<>> /\ syncRun.pc \in {"ingest", "read", "row"} /\ syncRun \in Run
        /\ (~Single => syncRun.done < PageBudget)
    <2>1. syncRun.pc \in {"read", "row"} => syncRun.queue # <<>> /\ (~Single => syncRun.done < PageBudget)
      BY DEF SyncInv, QueueInv, CatalogSmall, Budgeted, Single
    <2>2. FetchFails \/ Reading => syncRun.queue # <<>> /\ syncRun.pc = "ingest" /\ (~Single => syncRun.done < PageBudget)
      BY DEF FetchFails, Reading
    <2> QED
      BY <2>1, <2>2 DEF SyncInv, SyncTypes, UpsertFails, UpsertRow, UpsertRowWithoutRevision, ReplacePaths, ReplaceFails,
                        RowStaysAhead
  <1>3. PICK q \in Pages : q = Page
    BY <1>2, PageIsOne DEF SyncInv
  <1>4. syncRun.hint[q] \in Revs /\ syncRun.text \in Revs /\ (Exists(q) => wiki[q] \in Revs) /\ wiki[q] \in Nat
    BY Bounded DEF CatalogSmall, Stamped, Carries, Exists, SyncInv, SyncTypes
  <1>5. retries' \in [Pages -> 0 .. DeadAfter]
    <2>1. retries' = retries \/ retries' = [retries EXCEPT ![q] = 0] \/ retries' = Counted(q)
      BY <1>3 DEF FetchFails, UpsertFails, UpsertRow, UpsertRowWithoutRevision, ReplacePaths, ReplaceFails, RowStaysAhead,
                  WriteFails
    <2> QED
      BY <2>1, CountingKeeps
  <1>6. Limited'
    BY <1>1, <1>5, FaultsStay DEF CatalogSmall, Limited
  <1>7. paths' \in [Pages -> Revs]
    <2>1. paths' = paths \/ paths' = [paths EXCEPT ![q] = syncRun.text]
      BY <1>3 DEF FetchFails, UpsertFails, UpsertRow, UpsertRowWithoutRevision, ReplacePaths, ReplaceFails, RowStaysAhead
    <2> QED
      BY <1>4, <2>1 DEF CatalogSmall, Stamped
  <1>8. \/ gameRow' = gameRow
        \/ \E rev \in Revs, status \in {"ok", "partial", "failed"} : gameRow' = [gameRow EXCEPT ![q] = [rev |-> rev, status |-> status]]
    <2>1. CASE FetchFails \/ UpsertFails \/ ReplaceFails \/ ReplacePaths \/ RowStaysAhead
      BY <1>3, <2>1, Bounded DEF FetchFails, UpsertFails, ReplaceFails, ReplacePaths, RowStaysAhead
    <2>2. CASE UpsertRowWithoutRevision
      BY <1>3, <1>4, <2>2 DEF UpsertRowWithoutRevision
    <2>3. CASE UpsertRow
      <3>1. RevisionOf(q) \in Revs
        BY <1>3, <1>4, <2>3 DEF UpsertRow, RevisionOf
      <3>2. PICK status \in {"ok", "partial", "bare"} :
              gameRow' = [gameRow EXCEPT ![q] = [rev |-> RevisionOf(q), status |-> IF status = "bare" THEN "partial" ELSE status]]
        BY <1>3, <2>3 DEF UpsertRow
      <3> QED
        BY <3>1, <3>2
    <2> QED
      BY <2>1, <2>2, <2>3
  <1>9. Stamped'
    <2>1. gameRow' \in [Pages -> [rev : Revs, status : {"none", "ok", "partial", "failed"}]]
      BY <1>8 DEF CatalogSmall, Stamped
    <2> QED
      BY <1>1, <1>7, <2>1 DEF CatalogSmall, Stamped
  <1>10. (\E failed \in BOOLEAN : syncRun' = NextPage(failed))
         \/ (syncRun.pc = "read" /\ \E rev \in Revs : syncRun' = [syncRun EXCEPT !.pc = "row", !.rev = rev])
    <2>1. CASE FetchFails \/ UpsertFails \/ ReplaceFails \/ ReplacePaths \/ RowStaysAhead
      BY <2>1 DEF FetchFails, UpsertFails, ReplaceFails, ReplacePaths, RowStaysAhead, WriteFails
    <2>2. CASE UpsertRowWithoutRevision
      BY <1>3, <1>4, <2>2 DEF UpsertRowWithoutRevision
    <2>3. CASE UpsertRow
      <3>1. RevisionOf(q) \in Revs
        BY <1>3, <1>4, <2>3 DEF UpsertRow, RevisionOf
      <3> QED
        BY <1>3, <2>3, <3>1 DEF UpsertRow
    <2> QED
      BY <2>1, <2>2, <2>3
  <1>11. /\ Budgeted(syncRun') /\ Carries(syncRun') /\ syncRun'.total = syncRun.total
         /\ syncRun'.pc \in {"ingest", "row"}
    <2>1. CASE \E failed \in BOOLEAN : syncRun' = NextPage(failed)
      BY <1>2, <2>1, NextPageDoes
    <2>2. CASE syncRun.pc = "read" /\ \E rev \in Revs : syncRun' = [syncRun EXCEPT !.pc = "row", !.rev = rev]
      <3>1. PICK rev \in Revs : syncRun' = [syncRun EXCEPT !.pc = "row", !.rev = rev]
        BY <2>2
      <3>2. /\ syncRun'.pc = "row" /\ syncRun'.total = syncRun.total /\ syncRun'.mode = syncRun.mode
            /\ syncRun'.done = syncRun.done /\ syncRun'.hint = syncRun.hint /\ syncRun'.text = syncRun.text
            /\ syncRun'.rev = rev /\ syncRun'.queue = syncRun.queue
        BY <1>2, <3>1 DEF Run
      <3> QED
        BY <2>2, <3>2 DEF CatalogSmall, Budgeted, Carries
    <2> QED
      BY <1>10, <2>1, <2>2
  <1>12. Known' = Known
    BY <1>1 DEF Known, Gone
  <1>13. Totalled'
    BY <1>1, <1>2, <1>11, <1>12, TotalsStay DEF Early
  <1> QED
    BY <1>6, <1>9, <1>11, <1>13 DEF CatalogSmall, Budgeted, Carries

LEMMA SmallNext ==
  ASSUME SyncInv, SyncInv', CatalogSmall, [CatalogNext]_catalogVars
  PROVE  CatalogSmall'
  <1>1. CASE UNCHANGED catalogVars
    BY <1>1 DEF catalogVars, CatalogSmall, Stamped, Limited, Budgeted, Carries, Totalled, Known, Gone
  <1>2. CASE CatalogNext
    BY <1>2, WikiSmall, BeginSmall, ScanSmall, RunOnSmall, EndSmall, BuildSmall, RecentChangesSmall, PageSmall
    DEF CatalogNext, CatalogStep
  <1> QED
    BY <1>1, <1>2

\* Whatever a run counts, however often it is interrupted and pages are removed
\* meanwhile, it is never more than the wiki ever had, and no run does more
\* than its budget (pcgw_persist.go).
LEMMA CatalogSmallHolds == CatalogInit /\ [][CatalogNext]_catalogVars => [](SyncInv /\ CatalogSmall)
  <1>1. CatalogInit => CatalogSmall
    <2> SUFFICES ASSUME CatalogInit PROVE CatalogSmall
      OBVIOUS
    <2>1. 1 \in Pages /\ 1 \in Revs /\ 1 \in 0 .. Removed /\ 0 \in 0 .. Removed /\ 0 \in 0 .. MaxFaults
      BY CatalogBounds DEF Pages, Revs, Removed
    <2>2. Stamped
      BY <2>1, Bounded DEF CatalogInit, Stamped, NoGame
    <2>3. Limited
      BY <2>1, Bounded DEF CatalogInit, Limited
    <2>4. syncRun.mode = "none" /\ syncRun.done = 0 /\ syncRun.pc = "idle" /\ syncRun.total = 0 /\ syncRun.text = 0
          /\ syncRun.rev = 0 /\ syncRun.hint \in [Pages -> Revs]
      BY Bounded DEF CatalogInit, NoSync
    <2>5. Budgeted(syncRun) /\ Carries(syncRun)
      BY <2>4, Bounded DEF Budgeted, Carries
    <2>6. lastPhase1.total <= Cardinality(Known)
      <3>1. {1} \subseteq Known /\ Known \in SUBSET Pages
        BY <2>1 DEF CatalogInit, Known, Gone
      <3>2. Cardinality({1}) <= Cardinality(Known)
        BY <3>1, Few
      <3>3. Cardinality({1}) = 1
        BY FS_Singleton
      <3> QED
        BY <3>2, <3>3 DEF CatalogInit
    <2>7. Totalled
      BY <2>4, <2>6, Bounded DEF CatalogInit, Totalled
    <2> QED
      BY <2>2, <2>3, <2>5, <2>7 DEF CatalogSmall
  <1>2. SyncInv /\ [CatalogNext]_catalogVars => SyncInv'
    BY CatalogNextKeeps
  <1>3. SyncInv /\ SyncInv' /\ CatalogSmall /\ [CatalogNext]_catalogVars => CatalogSmall'
    BY SmallNext
  <1> QED
    BY InitSyncInv, <1>1, <1>2, <1>3, PTL

\* The type invariant of the catalogue follows.
LEMMA CatalogTyped == CatalogInit /\ [][CatalogNext]_catalogVars => []CatalogTypeOK
  <1>1. SyncInv /\ CatalogSmall => CatalogTypeOK
    <2> SUFFICES ASSUME SyncInv, CatalogSmall PROVE CatalogTypeOK
      OBVIOUS
    <2>1. syncRun.done \in 0 .. PageBudget + 1
      BY CatalogBounds DEF CatalogSmall, Budgeted
    <2>2. syncRun.mode \in Modes \cup {"none", "single"}
      BY DEF SyncInv, SyncTypes, Run
    <2> QED
      BY <2>1, <2>2 DEF SyncInv, SyncTypes, CatalogSmall, Stamped, Limited, Totalled, CatalogTypeOK
  <1> QED
    BY <1>1, CatalogSmallHolds, PTL

---------------------------------------------------------------------------
(* A run of the mirror has an end: how far it is from it, at most. *)

PagesLeft(r) == (IF r.mode = "single" THEN 1 ELSE PageBudget) - r.done
Cut(r) == r.pc = "ingest" /\ r.canceled /\ r.mode # "single"
ToEnd(r) ==
  CASE r.pc = "catalog" -> 3 * PageBudget + 5
    [] r.pc = "verify" -> 3 * PageBudget + 4
    [] r.pc = "queue" -> 3 * PageBudget + 3
    [] r.pc = "ingest" /\ ~Cut(r) -> 3 * PagesLeft(r) + 2
    [] r.pc = "read" -> 3 * PagesLeft(r) + 1
    [] r.pc = "row" -> 3 * PagesLeft(r)
    [] r.pc = "over" \/ Cut(r) -> 1
    [] OTHER -> 0

LEMMA ToEndIsInt ==
  ASSUME NEW r \in Run
  PROVE  ToEnd(r) \in Int
  <1>1. PagesLeft(r) \in Int /\ PageBudget \in Int
    BY CatalogBounds DEF PagesLeft, Run
  <1> QED
    BY <1>1 DEF ToEnd

\* What is left is a number, and of a page in hand there is at least the page.
LEMMA LeftIsNat ==
  ASSUME SyncInv, CatalogSmall
  PROVE  /\ syncRun \in Run /\ PageBudget \in Nat
         /\ syncRun.pc # "idle" => PagesLeft(syncRun) \in Nat /\ ToEnd(syncRun) \in Nat \ {0}
         /\ syncRun.pc \in {"read", "row"} => PagesLeft(syncRun) > 0
         /\ Reading => PagesLeft(syncRun) > 0
         /\ syncRun.pc \in {"catalog", "verify", "queue"} => syncRun.mode # "single" /\ syncRun.done \in 0 .. PageBudget
  <1>1. syncRun \in Run /\ PageBudget \in Nat /\ Budgeted(syncRun) /\ QueueInv
    BY CatalogBounds DEF SyncInv, SyncTypes, CatalogSmall
  <1>2. syncRun.done \in Nat /\ PagesLeft(syncRun) \in Nat
    BY <1>1 DEF Budgeted, PagesLeft
  <1>3. syncRun.pc \in {"read", "row"} => PagesLeft(syncRun) > 0
    BY <1>1, <1>2 DEF Budgeted, PagesLeft, QueueInv
  <1>4. Reading => PagesLeft(syncRun) > 0
    BY <1>1, <1>2 DEF Budgeted, PagesLeft, Reading, Single
  <1>5. syncRun.pc \in {"catalog", "verify", "queue"} => syncRun.mode # "single" /\ syncRun.done \in 0 .. PageBudget
    BY <1>1 DEF Budgeted
  <1>6. ASSUME syncRun.pc # "idle" PROVE ToEnd(syncRun) \in Nat \ {0}
    <2>1. syncRun.pc \in {"catalog", "verify", "queue", "ingest", "read", "row", "over"}
      BY <1>1, <1>6 DEF Run, Places
    <2> DEFINE k == PagesLeft(syncRun)
    <2>2. k \in Nat /\ (syncRun.pc \in {"read", "row"} => k > 0)
      BY <1>2, <1>3
    <2> HIDE DEF k
    <2> QED
      BY <1>1, <2>1, <2>2 DEF ToEnd, Cut, k
  <1> QED
    BY <1>1, <1>2, <1>3, <1>4, <1>5, <1>6

\* The end of a run, and a page done.
LEMMA EndedIsNearer ==
  ASSUME SyncInv, CatalogSmall, syncRun.pc # "idle", syncRun' = NoSync
  PROVE  ToEnd(syncRun') < ToEnd(syncRun)
  <1>1. ToEnd(syncRun') = 0
    BY DEF NoSync, ToEnd, Cut
  <1> QED
    BY <1>1, LeftIsNat

LEMMA NextPageIsNearer ==
  ASSUME SyncInv, CatalogSmall, NEW failed \in BOOLEAN, syncRun' = NextPage(failed),
         Reading \/ syncRun.pc \in {"read", "row"}
  PROVE  ToEnd(syncRun') < ToEnd(syncRun)
  <1>1. syncRun \in Run /\ PagesLeft(syncRun) \in Nat /\ PagesLeft(syncRun) > 0
    BY LeftIsNat DEF Reading
  <1>2. /\ syncRun'.pc = "ingest" /\ syncRun'.done = syncRun.done + 1
        /\ syncRun'.mode = syncRun.mode /\ syncRun'.canceled = syncRun.canceled
    BY <1>1 DEF NextPage, Run
  <1>3. PagesLeft(syncRun') = PagesLeft(syncRun) - 1
    BY <1>1, <1>2, CatalogBounds DEF PagesLeft, Run
  <1> DEFINE k == PagesLeft(syncRun)
  <1>4. ToEnd(syncRun') \in {1, 3 * (k - 1) + 2}
    BY <1>2, <1>3 DEF ToEnd, Cut
  <1>5. ~Cut(syncRun)
    BY DEF Cut, Reading, Single
  <1>6. ToEnd(syncRun) \in {3 * k + 2, 3 * k + 1, 3 * k}
    BY <1>5 DEF ToEnd, Reading
  <1> HIDE DEF k
  <1>7. k \in Nat /\ k > 0
    BY <1>1 DEF k
  <1> QED
    BY <1>4, <1>6, <1>7

\* Before the first page.
LEMMA FillIsNearer ==
  ASSUME SyncInv, CatalogSmall, NEW changed, Fill(changed), syncRun.pc = "queue"
  PROVE  ToEnd(syncRun') < ToEnd(syncRun)
  <1>1. syncRun \in Run /\ PageBudget \in Nat /\ syncRun.mode # "single" /\ syncRun.done \in 0 .. PageBudget
    BY LeftIsNat
  <1>2. syncRun'.pc = "ingest" /\ syncRun'.done = syncRun.done /\ syncRun'.mode = syncRun.mode
    BY <1>1 DEF Fill, Run
  <1>3. PagesLeft(syncRun') = PageBudget - syncRun.done
    BY <1>1, <1>2 DEF PagesLeft
  <1>4. ToEnd(syncRun') \in {1, 3 * (PageBudget - syncRun.done) + 2}
    BY <1>2, <1>3 DEF ToEnd, Cut
  <1>5. ToEnd(syncRun) = 3 * PageBudget + 3
    BY DEF ToEnd, Cut
  <1> QED
    BY <1>1, <1>4, <1>5

LEMMA PhaseIsNearer ==
  ASSUME SyncInv, CatalogSmall,
         RunCatalogPhase \/ ProbeFails \/ VerifyCatalog \/ BuildQueue \/ ReadRecentChanges \/ SweepRevisions
         \/ RevisionCheckFails
  PROVE  ToEnd(syncRun') < ToEnd(syncRun)
  <1>1. syncRun \in Run /\ PageBudget \in Nat
    BY LeftIsNat
  <1>2. CASE RunCatalogPhase \/ ProbeFails
    <2>1. syncRun.pc = "catalog" /\ syncRun'.pc = "verify"
      BY <1>1, <1>2 DEF RunCatalogPhase, ProbeFails, ScanAll, ScanTail, Run
    <2> QED
      BY <1>1, <2>1 DEF ToEnd, Cut
  <1>3. CASE VerifyCatalog
    <2>1. syncRun.pc = "verify" /\ syncRun'.pc = "queue"
      BY <1>1, <1>3 DEF VerifyCatalog, ScanAll, Run
    <2> QED
      BY <1>1, <2>1 DEF ToEnd, Cut
  <1>4. CASE BuildQueue \/ ReadRecentChanges \/ SweepRevisions \/ RevisionCheckFails
    <2>1. syncRun.pc = "queue" /\ \E changed : Fill(changed)
      BY <1>4 DEF BuildQueue, ReadRecentChanges, SweepRevisions, RevisionCheckFails, BuildChangedQueue
    <2> QED
      BY <2>1, FillIsNearer
  <1> QED
    BY <1>2, <1>3, <1>4

LEMMA PageIsNearer ==
  ASSUME SyncInv, CatalogSmall,
         FetchFails \/ FetchText \/ UpsertFails \/ UpsertRow \/ UpsertRowWithoutRevision \/ WriteRefused
         \/ ReplacePaths \/ ReplaceFails \/ RowStaysAhead \/ ReplaceRefused
  PROVE  ToEnd(syncRun') < ToEnd(syncRun)
  <1> DEFINE k == PagesLeft(syncRun)
  <1>1. syncRun \in Run /\ (syncRun.pc \in {"read", "row"} \/ Reading => k \in Nat /\ k > 0)
    BY LeftIsNat DEF Reading
  <1>2. CASE \E failed \in BOOLEAN : syncRun' = NextPage(failed) /\ (Reading \/ syncRun.pc \in {"read", "row"})
    BY <1>2, NextPageIsNearer
  <1>3. CASE FetchText
    <2>1. Reading /\ syncRun'.pc = "read" /\ syncRun'.done = syncRun.done /\ syncRun'.mode = syncRun.mode
      BY <1>1, <1>3 DEF FetchText, Run
    <2>2. ~Cut(syncRun) /\ syncRun.pc = "ingest"
      BY <2>1 DEF Cut, Reading, Single
    <2>3. ToEnd(syncRun) = 3 * k + 2 /\ ToEnd(syncRun') = 3 * k + 1
      BY <2>1, <2>2 DEF ToEnd, Cut, PagesLeft
    <2> HIDE DEF k
    <2> QED
      BY <1>1, <2>1, <2>3
  <1>4. ASSUME syncRun.pc = "read", syncRun'.pc = "row", syncRun'.done = syncRun.done, syncRun'.mode = syncRun.mode
        PROVE  ToEnd(syncRun') < ToEnd(syncRun)
    <2>1. ToEnd(syncRun) = 3 * k + 1 /\ ToEnd(syncRun') = 3 * k
      BY <1>4 DEF ToEnd, Cut, PagesLeft
    <2> HIDE DEF k
    <2> QED
      BY <1>1, <1>4, <2>1
  <1>5. CASE UpsertRow
    <2>1. \/ syncRun' = NextPage(FALSE)
          \/ syncRun' = [syncRun EXCEPT !.pc = "row", !.rev = RevisionOf(Page)]
      BY <1>5 DEF UpsertRow
    <2>2. CASE syncRun' = [syncRun EXCEPT !.pc = "row", !.rev = RevisionOf(Page)]
      BY <1>1, <1>4, <1>5, <2>2 DEF UpsertRow, Run
    <2> QED
      BY <1>2, <1>5, <2>1, <2>2 DEF UpsertRow
  <1>6. CASE UpsertRowWithoutRevision
    BY <1>1, <1>4, <1>6 DEF UpsertRowWithoutRevision, Run
  <1>7. CASE WriteRefused \/ ReplaceRefused
    <2>1. syncRun.pc \in {"read", "row"} /\ syncRun.canceled
      BY <1>7 DEF WriteRefused, ReplaceRefused
    <2>2. syncRun'.mode = syncRun.mode /\ syncRun'.canceled = syncRun.canceled
          /\ syncRun'.pc = IF Single THEN "over" ELSE "ingest"
      BY <1>1, <1>7 DEF WriteRefused, ReplaceRefused, Run
    <2>3. ToEnd(syncRun') = 1
      BY <2>1, <2>2 DEF ToEnd, Cut, Single
    <2>4. ToEnd(syncRun) \in {3 * k + 1, 3 * k}
      BY <2>1 DEF ToEnd, Cut
    <2> HIDE DEF k
    <2> QED
      BY <1>1, <2>1, <2>3, <2>4
  <1>8. CASE FetchFails \/ UpsertFails \/ ReplacePaths \/ ReplaceFails \/ RowStaysAhead
    BY <1>2, <1>8 DEF FetchFails, UpsertFails, ReplacePaths, ReplaceFails, RowStaysAhead, WriteFails
  <1> QED
    BY <1>3, <1>5, <1>6, <1>7, <1>8

SyncDwindles ==
  /\ CatalogStep => ToEnd(syncRun') < ToEnd(syncRun)
  /\ syncRun.pc # "idle" => ToEnd(syncRun') <= ToEnd(syncRun)

\* A run of the mirror ends, however many pages the wiki changes meanwhile: each
\* of its steps takes it nearer to its end, and nothing else (an edit, a removal, a
\* cancellation, a failure, a restart) takes it further away.  What an edit adds
\* goes into the window of the next run and not into the queue of this one.
THEOREM SyncRunGetsNearer == CatalogSpec => [][SyncDwindles]_catalogVars
  <1>1. SyncInv /\ CatalogSmall /\ [CatalogNext]_catalogVars => [SyncDwindles]_catalogVars
    <2> SUFFICES ASSUME SyncInv, CatalogSmall, [CatalogNext]_catalogVars
                 PROVE  SyncDwindles
      OBVIOUS
    <2>1. syncRun.pc # "idle" => ToEnd(syncRun) \in Nat
      BY LeftIsNat
    <2>2. CatalogStep => ToEnd(syncRun') < ToEnd(syncRun)
      <3>1. CASE SyncSkips \/ IngestEnds \/ SingleEnds \/ CatalogPhaseEnds
        <4>1. syncRun.pc # "idle" /\ syncRun' = NoSync
          BY <3>1 DEF SyncSkips, IngestEnds, SingleEnds, CatalogPhaseEnds, EndSync
        <4> QED
          BY <4>1, EndedIsNearer
      <3> QED
        BY <3>1, PhaseIsNearer, PageIsNearer DEF CatalogStep
    <2>3. ASSUME syncRun.pc # "idle" PROVE ToEnd(syncRun') < ToEnd(syncRun) \/ syncRun' = syncRun \/ CancelSyncRun
      <3>1. CASE CatalogPhaseEnds \/ RestartSync
        <4>1. syncRun' = NoSync
          BY <3>1 DEF CatalogPhaseEnds, RestartSync, EndSync
        <4> QED
          BY <2>3, <4>1, EndedIsNearer
      <3>2. CASE CatalogStep
        BY <2>2, <3>2
      <3>3. CASE ProbeFails \/ RevisionCheckFails \/ UpsertFails \/ ReplaceFails \/ RowStaysAhead
        BY <3>3, PhaseIsNearer, PageIsNearer
      <3>4. CASE \/ \E p \in Pages : WikiCreates(p) \/ WikiEdits(p) \/ WikiRemoves(p) \/ SyncOnePage(p)
                 \/ WindowAges \/ ResetDeadLetter \/ (\E mode \in Modes : SyncBegins(mode))
                 \/ UNCHANGED catalogVars
        BY <2>3, <3>4 DEF WikiCreates, WikiEdits, WikiRemoves, TouchPage, SyncOnePage, WindowAges, ResetDeadLetter,
                          SyncBegins, catalogVars
      <3> QED
        BY <3>1, <3>2, <3>3, <3>4 DEF CatalogNext
    <2>4. ASSUME syncRun.pc # "idle", CancelSyncRun PROVE ToEnd(syncRun') <= ToEnd(syncRun)
      <3>1. /\ syncRun'.pc = syncRun.pc /\ syncRun'.mode = syncRun.mode /\ syncRun'.done = syncRun.done
            /\ ~syncRun.canceled
        BY <2>4, LeftIsNat DEF CancelSyncRun, Run
      <3>2. PagesLeft(syncRun') = PagesLeft(syncRun) /\ ~Cut(syncRun)
        BY <3>1 DEF PagesLeft, Cut
      <3>3. ToEnd(syncRun') = ToEnd(syncRun) \/ (ToEnd(syncRun') = 1 /\ Cut(syncRun'))
        BY <3>1, <3>2 DEF ToEnd, Cut
      <3>4. ToEnd(syncRun) \in Nat \ {0}
        BY <2>4, LeftIsNat
      <3> QED
        BY <3>3, <3>4
    <2>5. ASSUME syncRun.pc # "idle" PROVE ToEnd(syncRun') <= ToEnd(syncRun)
      <3>1. CASE syncRun' = syncRun
        <4>1. ToEnd(syncRun') = ToEnd(syncRun)
          BY <3>1
        <4> QED
          BY <2>1, <2>5, <4>1
      <3>2. CASE ToEnd(syncRun') < ToEnd(syncRun)
        <4>1. syncRun' \in Run
          BY CatalogNextKeeps DEF SyncInv, SyncTypes
        <4> QED
          BY <2>1, <2>5, <3>2, <4>1, ToEndIsInt
      <3> QED
        BY <2>3, <2>4, <2>5, <3>1, <3>2
    <2> QED
      BY <2>2, <2>5 DEF SyncDwindles
  <1> QED
    BY <1>1, CatalogSmallHolds, PTL DEF CatalogSpec

---------------------------------------------------------------------------
(* The bundles, and what reaches a device.                                  *)

\* Games with their paths and a stamp, none of them of the future.
Books == [Titles -> [paths : SUBSET Locations, at : Nat]]
Until(book, n) == book \in Books /\ \A g \in Titles : book[g].at <= n
Answers == [pc : {"none", "v1", "v2"}, since : Nat, games : Books, deleted : SUBSET Titles, late : SUBSET Titles]
Imports == [pc : {"idle", "download", "rows", "games", "reconcile", "done"}, full : BOOLEAN, want : Nat, bundle : Books]
RowTables == [Titles -> [Locations -> Nat]]
RowsUntil(table, n) == table \in RowTables /\ \A g \in Titles, p \in Locations : table[g][p] <= n
StampsUntil(stamps, n) == stamps \in [Titles -> Nat] /\ \A g \in Titles : stamps[g] <= n

FlowTypes ==
  /\ clock \in Nat \ {0} /\ exported \in Nat /\ indexed \in Nat /\ merged \in Nat
  /\ answer \in Answers /\ importing \in Imports
  /\ Until(asset, clock) /\ Until(importing.bundle, clock)
  /\ Until(cache, clock) /\ Until(answer.games, clock)
  /\ RowsUntil(rows, clock) /\ StampsUntil(gameAt, clock) /\ StampsUntil(tombs, clock)

\* An import's version is newer than the merged one, its bundle is that
\* version's, and once its rows are written they are the server's.
Published(book, table) == \A g \in Titles : \A p \in book[g].paths : table[g][p] = book[g].at
Pathless(book) == \A g \in Titles : book[g].at = 0 => book[g].paths = {}
ImportInv ==
  /\ indexed <= exported /\ merged <= exported /\ importing.want <= exported
  /\ Pathless(asset) /\ Pathless(importing.bundle)
  /\ importing.pc \in {"idle", "download"} => ~importing.full
  /\ IF importing.full THEN importing.want = merged ELSE importing.pc # "idle" => merged < importing.want
  /\ importing.pc \notin {"idle", "download"} =>
       /\ importing.want = exported => importing.bundle = asset
       /\ importing.pc # "rows" => Published(importing.bundle, rows)
  /\ merged = exported /\ ~gutted /\ ~(importing.full /\ importing.pc = "rows") => Published(asset, rows)

FlowInv == FlowTypes /\ ImportInv

\* The newest of some stamps.
LEMMA NewestIsNewest ==
  ASSUME NEW n \in Nat, NEW S \in SUBSET (0 .. n)
  PROVE  /\ NewestOf(S) \in Nat
         /\ S # {} => NewestOf(S) \in S
         /\ \A t \in S : t <= NewestOf(S)
  <1>1. CASE S = {}
    BY <1>1 DEF NewestOf
  <1>2. CASE S # {}
    <2> DEFINE D == {n - s : s \in S}
               R == OpToRel(<, Nat)
    <2>0. \A s \in S : s \in Nat /\ s <= n /\ n - s \in Nat
      OBVIOUS
    <2>1. D \in SUBSET Nat /\ D # {}
      BY <1>2, <2>0
    <2> HIDE DEF D
    <2>2. PICK m \in D : \A c \in D : <<c, m>> \notin R
      BY <2>1, NatLessThanWellFounded, WFMin
    <2>3. \A c \in D : m <= c
      <3> SUFFICES ASSUME NEW c \in D PROVE m <= c
        OBVIOUS
      <3>1. m \in Nat /\ c \in Nat /\ ~(c < m)
        BY <2>1, <2>2 DEF OpToRel
      <3> QED
        BY <3>1
    <2>4. PICK s \in S : \A t \in S : n - s <= n - t
      BY <2>2, <2>3 DEF D
    <2>5. \A t \in S : t <= s
      BY <2>0, <2>4
    <2>6. NewestOf(S) \in S /\ \A t \in S : t <= NewestOf(S)
      BY <1>2, <2>5 DEF NewestOf
    <2> QED
      BY <2>0, <2>6
  <1> QED
    BY <1>1, <1>2

LEMMA DayGrows ==
  ASSUME NEW s \in Nat, NEW t \in Nat, s <= t
  PROVE  Day(s) \in Nat /\ Day(t) \in Nat /\ Day(s) <= Day(t)
  BY ManifestBounds DEF Day

LEMMA EmptyTypes ==
  ASSUME NEW n \in Nat
  PROVE  /\ Until([g \in Titles |-> NoPaths], n) /\ NotImporting \in Imports /\ NoAnswer \in Answers
         /\ Until(NotImporting.bundle, n) /\ Until(NoAnswer.games, n)
         /\ NotImporting.pc = "idle" /\ ~NotImporting.full /\ NotImporting.want = 0 /\ Pathless(NotImporting.bundle)
         /\ NoAnswer.pc = "none"
  BY DEF Until, Books, NoPaths, NotImporting, NoAnswer, Imports, Answers, Pathless

LEMMA UntilLater ==
  ASSUME NEW m \in Nat, NEW n \in Nat, m <= n
  PROVE  /\ \A book : Until(book, m) => Until(book, n)
         /\ \A table : RowsUntil(table, m) => RowsUntil(table, n)
         /\ \A stamps : StampsUntil(stamps, m) => StampsUntil(stamps, n)
  <1>1. \A book : Until(book, m) => Until(book, n)
    BY DEF Until, Books
  <1>2. \A table : RowsUntil(table, m) => RowsUntil(table, n)
    BY DEF RowsUntil, RowTables
  <1>3. \A stamps : StampsUntil(stamps, m) => StampsUntil(stamps, n)
    BY DEF StampsUntil
  <1> QED
    BY <1>1, <1>2, <1>3

\* The newest row of a game, and the newest stamp a client has.
Newest(row) == NewestOf({row[p] : p \in Locations})
LEMMA NewestRowIs ==
  ASSUME NEW n \in Nat, NEW row \in [Locations -> Nat], \A p \in Locations : row[p] <= n
  PROVE  /\ Newest(row) \in Nat /\ Newest(row) <= n
         /\ \A p \in Locations : row[p] <= Newest(row)
         /\ Newest(row) > 0 <=> \E p \in Locations : row[p] > 0
         /\ \E p \in Locations : row[p] = Newest(row)
  <1> DEFINE S == {row[p] : p \in Locations}
  <1>1. S \in SUBSET (0 .. n)
    OBVIOUS
  <1>2. S # {}
    BY ManifestBounds
  <1> HIDE DEF S
  <1>3. NewestOf(S) \in S /\ \A t \in S : t <= NewestOf(S)
    BY <1>1, <1>2, NewestIsNewest
  <1>4. Newest(row) \in S /\ \A t \in S : t <= Newest(row)
    BY <1>3 DEF Newest, S
  <1>5. \E p \in Locations : row[p] = Newest(row)
    BY <1>4 DEF S
  <1>6. \A p \in Locations : row[p] <= Newest(row)
    BY <1>4 DEF S
  <1> QED
    BY <1>5, <1>6

LEMMA CursorIs ==
  ASSUME NEW n \in Nat, NEW book, Until(book, n)
  PROVE  Cursor(book) \in Nat /\ Cursor(book) <= n
  <1> DEFINE S == {book[g].at : g \in {h \in Titles : book[h].paths # {}}}
  <1>1. S \in SUBSET (0 .. n)
    BY DEF Until, Books
  <1> HIDE DEF S
  <1>2. NewestOf(S) \in Nat /\ (S # {} => NewestOf(S) \in S)
    BY <1>1, NewestIsNewest
  <1>3. NewestOf(S) <= n
    <2>1. CASE S = {}
      BY <2>1 DEF NewestOf
    <2>2. CASE S # {}
      BY <1>1, <1>2, <2>2
    <2> QED
      BY <2>1, <2>2
  <1> QED
    BY <1>2, <1>3 DEF Cursor, S

LEMMA AnswersAre ==
  ASSUME FlowTypes, NEW since \in Nat, NEW ans, ans = AnswerV2(since) \/ ans = AnswerV1(since)
  PROVE  ans \in Answers /\ Until(ans.games, clock)
  <1>1. \A g \in Titles : NewestRow(g) \in Nat /\ NewestRow(g) <= clock /\ gameAt[g] \in Nat /\ gameAt[g] <= clock
    <2> SUFFICES ASSUME NEW g \in Titles PROVE NewestRow(g) \in Nat /\ NewestRow(g) <= clock
      BY DEF FlowTypes, StampsUntil
    <2>1. clock \in Nat /\ rows[g] \in [Locations -> Nat] /\ \A p \in Locations : rows[g][p] <= clock
      BY DEF FlowTypes, RowsUntil, RowTables
    <2> QED
      BY <2>1, NewestRowIs DEF NewestRow, Newest
  <1>2. clock \in Nat
    BY DEF FlowTypes
  <1>3. CASE ans = AnswerV2(since)
    <2>1. ans.games \in Books
      BY <1>1, <1>3 DEF AnswerV2, Books, NoPaths
    <2>2. \A g \in Titles : ans.games[g].at <= clock
      BY <1>1, <1>2, <1>3 DEF AnswerV2, NoPaths
    <2> QED
      BY <1>3, <2>1, <2>2 DEF AnswerV2, Answers, Until
  <1>4. CASE ans = AnswerV1(since)
    <2>1. ans.games \in Books
      BY <1>1, <1>4 DEF AnswerV1, Books, NoPaths
    <2>2. \A g \in Titles : ans.games[g].at <= clock
      BY <1>1, <1>2, <1>4 DEF AnswerV1, NoPaths
    <2> QED
      BY <1>4, <2>1, <2>2 DEF AnswerV1, Answers, Until
  <1> QED
    BY <1>3, <1>4

LEMMA FlowBegins == ManifestInit => FlowInv
  <1> SUFFICES ASSUME ManifestInit PROVE FlowInv
    OBVIOUS
  <1>1. /\ clock = 1 /\ exported = 1 /\ indexed = 1 /\ merged = 1 /\ importing = NotImporting /\ answer = NoAnswer
        /\ asset = [g \in Titles |-> [paths |-> {CHOOSE p \in Locations : TRUE}, at |-> 1]]
    BY DEF ManifestInit
  <1>2. /\ rows = [g \in Titles |-> [p \in Locations |-> IF p \in asset[g].paths THEN 1 ELSE 0]]
        /\ gameAt = [g \in Titles |-> 1] /\ tombs = [g \in Titles |-> 0] /\ cache = [g \in Titles |-> NoPaths]
    BY DEF ManifestInit
  <1>3. {CHOOSE p \in Locations : TRUE} \in SUBSET Locations
    BY ManifestBounds
  <1>4. Until(asset, clock) /\ Pathless(asset)
    BY <1>1, <1>3 DEF Until, Books, Pathless
  <1>5. RowsUntil(rows, clock) /\ StampsUntil(gameAt, clock) /\ StampsUntil(tombs, clock)
    BY <1>1, <1>2 DEF RowsUntil, RowTables, StampsUntil
  <1>6. FlowTypes
    BY <1>1, <1>2, <1>4, <1>5, EmptyTypes DEF FlowTypes
  <1>7. Published(asset, rows)
    BY <1>1, <1>2, <1>4 DEF Published, Until, Books
  <1>8. ImportInv
    BY <1>1, <1>4, <1>7, EmptyTypes DEF ImportInv
  <1> QED
    BY <1>6, <1>8 DEF FlowInv

\* Steps of the clock, the publisher and the client.
LEMMA OthersKeepFlow ==
  ASSUME FlowInv, TimePasses \/ ExportBundle \/ ExportIndex \/ Fetch \/ FetchFallsBack \/ AnswerLost \/ MergeAnswer
  PROVE  FlowInv'
  <1>1. UNCHANGED mirrorVars
    BY DEF TimePasses, ExportBundle, ExportIndex, Fetch, FetchFallsBack, AnswerLost, MergeAnswer
  <1> USE <1>1 DEF mirrorVars
  <1>2. FlowTypes /\ clock \in Nat
    BY DEF FlowInv, FlowTypes
  <1>3. CASE TimePasses
    <2>1. clock' = clock + 1 /\ clock + 1 \in Nat \ {0} /\ clock <= clock + 1 /\ UNCHANGED <<publisherVars, copyVars>>
      BY <1>2, <1>3 DEF TimePasses
    <2>2. FlowTypes'
      BY <1>2, <2>1, UntilLater DEF FlowTypes, publisherVars, copyVars
    <2>3. ImportInv'
      BY <2>1 DEF FlowInv, ImportInv, publisherVars, copyVars
    <2> QED
      BY <2>2, <2>3 DEF FlowInv
  <1>4. CASE ExportBundle
    <2>1. exported' = exported + 1 /\ UNCHANGED <<clock, indexed, copyVars>>
      BY <1>4 DEF ExportBundle
    <2>2. PICK g \in Titles, found \in SUBSET Locations :
            \E new \in {[paths |-> found, at |-> clock], NoPaths} : asset' = [asset EXCEPT ![g] = new]
      BY <1>4 DEF ExportBundle
    <2>0. PICK new \in {[paths |-> found, at |-> clock], NoPaths} : asset' = [asset EXCEPT ![g] = new]
      BY <2>2
    <2>3. new \in [paths : SUBSET Locations, at : Nat] /\ new.at <= clock /\ (new.at = 0 => new.paths = {})
      BY <1>2 DEF NoPaths, FlowTypes
    <2>4. Until(asset', clock) /\ Pathless(asset')
      BY <1>2, <2>0, <2>3 DEF FlowInv, FlowTypes, ImportInv, Until, Books, Pathless
    <2>5. FlowTypes'
      BY <1>2, <2>1, <2>4 DEF FlowTypes, copyVars
    <2>6. importing.want # exported' /\ merged # exported' /\ indexed <= exported' /\ merged <= exported' /\ importing.want <= exported'
      BY <1>2, <2>1 DEF FlowInv, FlowTypes, ImportInv, Imports
    <2>7. ImportInv'
      BY <2>1, <2>4, <2>6 DEF FlowInv, ImportInv
    <2> QED
      BY <2>5, <2>7 DEF FlowInv
  <1>5. CASE ExportIndex
    <2>1. indexed' = exported /\ UNCHANGED <<clock, asset, exported, copyVars>>
      BY <1>5 DEF ExportIndex
    <2> QED
      BY <2>1 DEF FlowInv, FlowTypes, ImportInv, copyVars
  <1>6. CASE Fetch \/ FetchFallsBack
    <2>1. PICK since \in {0, Cursor(cache)} : answer' = AnswerV2(since) \/ answer' = AnswerV1(since)
      BY <1>6 DEF Fetch, FetchFallsBack
    <2>2. since \in Nat
      BY <1>2, CursorIs DEF FlowTypes
    <2>3. answer' \in Answers /\ Until(answer'.games, clock)
      BY <1>2, <2>1, <2>2, AnswersAre
    <2> QED
      BY <1>6, <2>3 DEF Fetch, FetchFallsBack, FlowInv, FlowTypes, ImportInv, publisherVars
  <1>7. CASE AnswerLost
    BY <1>7, EmptyTypes DEF AnswerLost, FlowInv, FlowTypes, ImportInv, publisherVars
  <1>8. CASE MergeAnswer
    <2>1. cache' = Coming /\ answer' = NoAnswer /\ UNCHANGED <<clock, publisherVars>>
      BY <1>8 DEF MergeAnswer
    <2>2. Until(Coming, clock)
      <3>1. answer.games \in Books /\ cache \in Books /\ \A g \in Titles : answer.games[g].at <= clock /\ cache[g].at <= clock
        BY <1>2 DEF FlowTypes, Until
      <3>2. \A g \in Titles : MergedGame(g) \in {answer.games[g], NoPaths, cache[g]}
        BY DEF MergedGame
      <3>3. \A g \in Titles : MergedGame(g) \in [paths : SUBSET Locations, at : Nat] /\ MergedGame(g).at <= clock
        <4>1. NoPaths \in [paths : SUBSET Locations, at : Nat] /\ NoPaths.at = 0
          BY DEF NoPaths
        <4> QED
          BY <1>2, <3>1, <3>2, <4>1 DEF Books
      <3> HIDE DEF MergedGame
      <3>4. [g \in Titles |-> MergedGame(g)] \in Books
        BY <3>3 DEF Books
      <3> QED
        BY <1>2, <3>1, <3>3, <3>4 DEF Coming, Until
    <2> QED
      BY <1>2, <2>1, <2>2, EmptyTypes DEF FlowInv, FlowTypes, ImportInv, publisherVars
  <1> QED
    BY <1>3, <1>4, <1>5, <1>6, <1>7, <1>8

\* What a step notes: changes the present cache, and the coming one, are past.
LEMMA NotingKeepsTypes ==
  ASSUME FlowTypes, NEW L \in SUBSET Titles, answer' = [answer EXCEPT !.late = answer.late \cup L]
  PROVE  /\ answer' \in Answers /\ answer'.pc = answer.pc /\ answer'.since = answer.since
         /\ answer'.games = answer.games /\ answer'.deleted = answer.deleted /\ answer'.late = answer.late \cup L
  <1>1. answer \in Answers
    BY DEF FlowTypes
  <1>2. answer' \in Answers
    BY <1>1 DEF Answers
  <1> QED
    BY <1>1, <1>2 DEF Answers

\* The rows a bundle changes.
Fresh(g) == {p \in importing.bundle[g].paths : rows[g][p] # importing.bundle[g].at}

LEMMA ImportRowsDoes ==
  ASSUME FlowInv, ImportRows
  PROVE  /\ importing.pc = "rows" /\ gutted' = FALSE /\ importing' = [importing EXCEPT !.pc = "games"]
         /\ rows' = [g \in Titles |-> [p \in Locations |-> IF p \in Fresh(g) THEN importing.bundle[g].at ELSE rows[g][p]]]
         /\ overlooked' = overlooked \cup
              {g \in {h \in Titles : Fresh(h) # {}} : CacheComplete /\ importing.bundle[g].at <= Cursor(cache)}
         /\ answer' = [answer EXCEPT !.late = answer.late \cup
              {g \in {h \in Titles : Fresh(h) # {}} : answer.pc # "none" /\ importing.bundle[g].at <= Cursor(Coming)}]
         /\ UNCHANGED <<clock, publisherVars, gameAt, tombs, merged, indexETag, cache, mishaps>>
  <1>1. answer \in Answers
    BY DEF FlowInv, FlowTypes
  <1> QED
    BY <1>1 DEF ImportRows, Noted, Fresh, Answers

LEMMA FullReplaceDoes ==
  ASSUME FlowInv, FullReplace
  PROVE  /\ importing.pc = "idle" /\ rows' = [g \in Titles |-> [p \in Locations |-> 0]]
         /\ tombs' = [g \in Titles |-> IF gameAt[g] > 0 THEN clock ELSE tombs[g]]
         /\ gameAt' = [g \in Titles |-> 0]
         /\ importing' = [NotImporting EXCEPT !.pc = "rows", !.full = TRUE, !.want = merged, !.bundle = asset]
         /\ overlooked' = overlooked \cup
              {g \in {h \in Titles : HasRows(h)} : CacheComplete /\ Day(tombs'[g]) <= Day(Cursor(cache))}
         /\ answer' = [answer EXCEPT !.late = answer.late \cup
              {g \in {h \in Titles : HasRows(h)} : answer.pc # "none" /\ Day(tombs'[g]) <= Day(Cursor(Coming))}]
         /\ UNCHANGED <<clock, publisherVars, gutted, merged, indexETag, cache>>
  <1>1. answer \in Answers
    BY DEF FlowInv, FlowTypes
  <1> QED
    BY <1>1 DEF FullReplace, Noted, Unseen, Answers

Going == IF TooMany \/ importing.full THEN {} ELSE ToDelete
LEMMA ReconcileDoes ==
  ASSUME FlowInv, Reconcile
  PROVE  /\ importing.pc = "reconcile" /\ importing' = [importing EXCEPT !.pc = "done"]
         /\ rows' = [g \in Titles |-> IF g \in Going THEN [p \in Locations |-> 0] ELSE rows[g]]
         /\ tombs' = [g \in Titles |-> IF g \in Going THEN clock ELSE tombs[g]]
         /\ gameAt' = [g \in Titles |-> IF g \in Going THEN 0 ELSE gameAt[g]]
         /\ overlooked' = overlooked \cup {g \in Going : CacheComplete /\ Day(tombs'[g]) <= Day(Cursor(cache))}
         /\ answer' = [answer EXCEPT !.late = answer.late \cup
              {g \in Going : answer.pc # "none" /\ Day(tombs'[g]) <= Day(Cursor(Coming))}]
         /\ Going \subseteq {g \in Titles : ~InCatalogue(importing.bundle, g)}
         /\ (importing.full => Going = {})
         /\ UNCHANGED <<clock, publisherVars, gutted, merged, indexETag, cache, mishaps>>
  <1>1. answer \in Answers
    BY DEF FlowInv, FlowTypes
  <1>2. Going \subseteq {g \in Titles : ~InCatalogue(importing.bundle, g)} /\ (importing.full => Going = {})
    BY DEF Going, ToDelete
  <1>3. Reconcile => LET gone == Going IN
          /\ importing.pc = "reconcile" /\ importing' = [importing EXCEPT !.pc = "done"]
          /\ rows' = [g \in Titles |-> IF g \in gone THEN [p \in Locations |-> 0] ELSE rows[g]]
          /\ gameAt' = [g \in Titles |-> IF g \in gone THEN 0 ELSE gameAt[g]]
          /\ tombs' = [g \in Titles |-> IF g \in gone THEN clock ELSE tombs[g]]
          /\ Noted(gone, Unseen)
          /\ UNCHANGED <<clock, publisherVars, gutted, merged, indexETag, cache, mishaps>>
    BY DEF Reconcile, Going
  <1> HIDE DEF Going
  <1> QED
    BY <1>1, <1>2, <1>3 DEF Noted, Unseen, Answers

LEMMA ImportRowsKeepsFlow ==
  ASSUME FlowInv, ImportRows
  PROVE  FlowInv'
  <1> USE ImportRowsDoes
  <1>1. FlowTypes /\ importing \in Imports /\ importing.bundle \in Books /\ importing.pc = "rows"
    BY DEF FlowInv, FlowTypes, Imports
  <1>2. importing' \in Imports /\ importing'.pc = "games" /\ importing'.full = importing.full
        /\ importing'.want = importing.want /\ importing'.bundle = importing.bundle
    BY <1>1 DEF Imports
  <1>3. RowsUntil(rows', clock)
    <2>1. \A g \in Titles : importing.bundle[g].at \in Nat /\ importing.bundle[g].at <= clock
      BY <1>1 DEF FlowTypes, Until, Books
    <2>2. \A g \in Titles, p \in Locations : rows[g][p] \in Nat /\ rows[g][p] <= clock
      BY <1>1 DEF FlowTypes, RowsUntil, RowTables
    <2>3. \A g \in Titles, p \in Locations : rows'[g][p] \in Nat /\ rows'[g][p] <= clock
      BY <2>1, <2>2
    <2>4. rows' \in RowTables
      BY <2>1, <2>2 DEF RowTables
    <2> QED
      BY <2>3, <2>4 DEF RowsUntil
  <1>4. \A g \in Titles, p \in Locations :
          p \in importing.bundle[g].paths => rows'[g][p] = importing.bundle[g].at
    BY DEF Fresh
  <1>5. Published(importing.bundle, rows')
    BY <1>1, <1>4 DEF Published, Books
  <1>6. {g \in {h \in Titles : Fresh(h) # {}} : answer.pc # "none" /\ importing.bundle[g].at <= Cursor(Coming)} \in SUBSET Titles
    OBVIOUS
  <1>7. answer' \in Answers /\ answer'.games = answer.games
    BY <1>1, <1>6, NotingKeepsTypes
  <1>8. FlowTypes'
    BY <1>1, <1>2, <1>3, <1>7 DEF FlowTypes, publisherVars
  <1>9. merged = exported => importing.full
    BY <1>1 DEF FlowInv, FlowTypes, ImportInv, Imports
  <1>10. merged = exported => Published(asset, rows')
    BY <1>1, <1>5, <1>9 DEF FlowInv, ImportInv
  <1>11. ImportInv'
    BY <1>1, <1>2, <1>5, <1>10 DEF FlowInv, ImportInv, publisherVars
  <1> QED
    BY <1>8, <1>11 DEF FlowInv

LEMMA FullReplaceKeepsFlow ==
  ASSUME FlowInv, FullReplace
  PROVE  FlowInv'
  <1> USE FullReplaceDoes
  <1>1. FlowTypes /\ clock \in Nat /\ merged \in Nat /\ asset \in Books /\ ~importing.full
    BY DEF FlowInv, FlowTypes, Until, ImportInv
  <1>2. importing' \in Imports /\ importing'.pc = "rows" /\ importing'.full /\ importing'.want = merged /\ importing'.bundle = asset
    <2>1. ASSUME NEW i \in Imports, importing' = [i EXCEPT !.pc = "rows", !.full = TRUE, !.want = merged, !.bundle = asset]
          PROVE  importing' \in Imports /\ importing'.pc = "rows" /\ importing'.full /\ importing'.want = merged /\ importing'.bundle = asset
      BY <1>1, <2>1 DEF Imports
    <2> QED
      BY <2>1, EmptyTypes
  <1>3. RowsUntil(rows', clock) /\ StampsUntil(gameAt', clock) /\ StampsUntil(tombs', clock)
    BY <1>1 DEF FlowTypes, RowsUntil, RowTables, StampsUntil
  <1>4. {g \in {h \in Titles : HasRows(h)} : answer.pc # "none" /\ Day(tombs'[g]) <= Day(Cursor(Coming))} \in SUBSET Titles
    OBVIOUS
  <1>5. answer' \in Answers /\ answer'.games = answer.games
    BY <1>1, <1>4, NotingKeepsTypes
  <1>6. FlowTypes'
    BY <1>1, <1>2, <1>3, <1>5 DEF FlowTypes, publisherVars
  <1>7. ImportInv'
    BY <1>1, <1>2 DEF FlowInv, ImportInv, publisherVars
  <1> QED
    BY <1>6, <1>7 DEF FlowInv

LEMMA ReconcileKeepsFlow ==
  ASSUME FlowInv, Reconcile
  PROVE  FlowInv'
  <1> USE ReconcileDoes
  <1>1. FlowTypes /\ clock \in Nat /\ importing \in Imports /\ importing.pc = "reconcile"
    BY DEF FlowInv, FlowTypes
  <1>2. importing' \in Imports /\ importing'.pc = "done" /\ importing'.full = importing.full
        /\ importing'.want = importing.want /\ importing'.bundle = importing.bundle
    BY <1>1 DEF Imports
  <1>3. RowsUntil(rows', clock) /\ StampsUntil(gameAt', clock) /\ StampsUntil(tombs', clock)
    <2> DEFINE none == [p \in Locations |-> 0]
    <2>1. none \in [Locations -> Nat] /\ \A p \in Locations : none[p] = 0
      OBVIOUS
    <2>2. rows' = [g \in Titles |-> IF g \in Going THEN none ELSE rows[g]]
      OBVIOUS
    <2> HIDE DEF none
    <2>3. RowsUntil(rows', clock)
      BY <1>1, <2>1, <2>2 DEF FlowTypes, RowsUntil, RowTables
    <2>4. StampsUntil(gameAt', clock) /\ StampsUntil(tombs', clock)
      BY <1>1 DEF FlowTypes, StampsUntil
    <2> QED
      BY <2>3, <2>4
  <1>4. {g \in Going : answer.pc # "none" /\ Day(tombs'[g]) <= Day(Cursor(Coming))} \in SUBSET Titles
    OBVIOUS
  <1>5. answer' \in Answers /\ answer'.games = answer.games
    BY <1>1, <1>4, NotingKeepsTypes
  <1>6. FlowTypes'
    BY <1>1, <1>2, <1>3, <1>5 DEF FlowTypes, publisherVars
  <1>7. \A g \in Going : importing.bundle[g].paths = {}
    <2>1. importing.bundle \in Books /\ Pathless(importing.bundle)
      BY <1>1 DEF FlowInv, ImportInv, Imports
    <2>2. \A g \in Going : importing.bundle[g].at = 0
      BY <2>1 DEF InCatalogue, Books
    <2> QED
      BY <2>1, <2>2 DEF Pathless
  <1>8. Published(importing.bundle, rows')
    <2>1. Published(importing.bundle, rows)
      BY <1>1 DEF FlowInv, ImportInv
    <2> QED
      BY <2>1, <1>7 DEF Published
  <1>9. merged = exported => importing.full
    BY <1>1 DEF FlowInv, FlowTypes, ImportInv, Imports
  <1>10. importing.full => rows' = rows
    BY <1>1 DEF FlowTypes, RowsUntil, RowTables
  <1>11. ImportInv'
    BY <1>1, <1>2, <1>8, <1>9, <1>10 DEF FlowInv, ImportInv, publisherVars
  <1> QED
    BY <1>6, <1>11 DEF FlowInv

LEMMA ImportingKeepsFlow ==
  ASSUME FlowInv, FetchIndex \/ Download \/ ImportGames \/ ImportDone \/ ImportCut
  PROVE  FlowInv'
  <1>1. FlowTypes /\ ImportInv /\ clock \in Nat /\ importing \in Imports /\ exported \in Nat /\ indexed \in Nat /\ merged \in Nat
    BY DEF FlowInv, FlowTypes
  <1>2. UNCHANGED <<clock, publisherVars, rows, tombs, copyVars>>
    BY DEF FetchIndex, Download, ImportGames, ImportDone, ImportCut
  <1> USE <1>1, <1>2
  <1>3. CASE FetchIndex
    <2>1. importing.pc = "idle" /\ UNCHANGED <<gutted, gameAt, merged>>
      BY <1>3 DEF FetchIndex
    <2>2. CASE merged < indexed
      <3>1. importing' = [NotImporting EXCEPT !.pc = "download", !.want = indexed]
        BY <1>3, <2>2 DEF FetchIndex
      <3>2. ASSUME NEW i \in Imports, importing' = [i EXCEPT !.pc = "download", !.want = indexed]
            PROVE  importing' \in Imports /\ importing'.pc = "download" /\ importing'.full = i.full
                   /\ importing'.want = indexed /\ importing'.bundle = i.bundle
        BY <3>2 DEF Imports
      <3>3. importing' \in Imports /\ importing'.pc = "download" /\ ~importing'.full /\ importing'.want = indexed
            /\ importing'.bundle = NotImporting.bundle
        BY <3>1, <3>2, EmptyTypes
      <3>4. FlowTypes'
        BY <2>1, <3>3, EmptyTypes DEF FlowTypes, publisherVars, copyVars
      <3>5. ImportInv'
        BY <2>1, <2>2, <3>3, EmptyTypes DEF ImportInv, publisherVars
      <3> QED
        BY <3>4, <3>5 DEF FlowInv
    <2>3. CASE ~(merged < indexed)
      <3>1. UNCHANGED importing
        BY <1>3, <2>3 DEF FetchIndex
      <3> QED
        BY <2>1, <3>1 DEF FlowInv, FlowTypes, ImportInv, publisherVars, copyVars
    <2> QED
      BY <2>2, <2>3
  <1>4. CASE Download
    <2>1. importing.pc = "download" /\ UNCHANGED <<gutted, gameAt, merged>>
      BY <1>4 DEF Download
    <2>2. CASE exported = importing.want
      <3>1. importing' = [importing EXCEPT !.pc = "rows", !.bundle = asset] /\ asset \in Books
        BY <1>4, <2>2 DEF Download, FlowTypes, Until
      <3>2. importing' \in Imports /\ importing'.pc = "rows" /\ importing'.full = importing.full
            /\ importing'.want = importing.want /\ importing'.bundle = asset
        BY <3>1 DEF Imports
      <3>3. FlowTypes'
        BY <2>1, <3>2 DEF FlowTypes, publisherVars, copyVars
      <3>4. ImportInv'
        BY <2>1, <2>2, <3>2 DEF ImportInv, publisherVars
      <3> QED
        BY <3>3, <3>4 DEF FlowInv
    <2>3. CASE exported # importing.want
      <3>1. importing' = NotImporting
        BY <1>4, <2>3 DEF Download
      <3>2. FlowTypes'
        BY <2>1, <3>1, EmptyTypes DEF FlowTypes, publisherVars, copyVars
      <3>3. ImportInv'
        BY <2>1, <3>1, EmptyTypes DEF ImportInv, publisherVars
      <3> QED
        BY <3>2, <3>3 DEF FlowInv
    <2> QED
      BY <2>2, <2>3
  <1>5. CASE ImportGames
    <2>1. /\ importing.pc = "games" /\ importing' = [importing EXCEPT !.pc = "reconcile"] /\ UNCHANGED <<gutted, merged>>
          /\ \E changed : gameAt' = [g \in Titles |-> IF g \in changed THEN clock ELSE gameAt[g]]
      BY <1>5 DEF ImportGames
    <2>2. importing' \in Imports /\ importing'.pc = "reconcile" /\ importing'.full = importing.full
          /\ importing'.want = importing.want /\ importing'.bundle = importing.bundle
      BY <2>1 DEF Imports
    <2>3. StampsUntil(gameAt', clock)
      BY <2>1 DEF FlowTypes, StampsUntil
    <2>4. FlowTypes'
      BY <2>1, <2>2, <2>3 DEF FlowTypes, publisherVars, copyVars
    <2>5. ImportInv'
      BY <2>1, <2>2 DEF ImportInv, publisherVars
    <2> QED
      BY <2>4, <2>5 DEF FlowInv
  <1>6. CASE ImportDone
    <2>1. importing.pc = "done" /\ merged' = importing.want /\ importing' = NotImporting /\ UNCHANGED <<gutted, gameAt>>
      BY <1>6 DEF ImportDone
    <2>2. FlowTypes'
      BY <2>1, EmptyTypes DEF FlowTypes, publisherVars, copyVars, Imports
    <2>3. importing.want = exported => Published(asset, rows)
      BY <2>1 DEF ImportInv
    <2>4. importing'.pc = "idle" /\ ~importing'.full /\ importing'.want = 0 /\ Pathless(importing'.bundle)
      BY <2>1, EmptyTypes
    <2>5. ImportInv'
      BY <2>1, <2>3, <2>4 DEF ImportInv, publisherVars
    <2> QED
      BY <2>2, <2>5 DEF FlowInv
  <1>7. CASE ImportCut
    <2>1. importing' = NotImporting /\ gutted' = (gutted \/ (importing.full /\ importing.pc = "rows")) /\ UNCHANGED <<gameAt, merged>>
      BY <1>7 DEF ImportCut
    <2>2. FlowTypes'
      BY <2>1, EmptyTypes DEF FlowTypes, publisherVars, copyVars
    <2>3. importing'.pc = "idle" /\ ~importing'.full /\ importing'.want = 0 /\ Pathless(importing'.bundle)
      BY <2>1, EmptyTypes
    <2>4. merged = exported /\ ~gutted' => Published(asset, rows)
      BY <2>1 DEF ImportInv
    <2>5. ImportInv'
      BY <2>1, <2>3, <2>4 DEF ImportInv, publisherVars
    <2> QED
      BY <2>2, <2>5 DEF FlowInv
  <1> QED
    BY <1>3, <1>4, <1>5, <1>6, <1>7

LEMMA FlowSteps == FlowInv /\ [ManifestNext]_manifestVars => FlowInv'
  <1> SUFFICES ASSUME FlowInv, [ManifestNext]_manifestVars PROVE FlowInv'
    OBVIOUS
  <1>1. CASE UNCHANGED manifestVars
    BY <1>1 DEF manifestVars, FlowInv, FlowTypes, ImportInv
  <1> QED
    BY <1>1, OthersKeepFlow, ImportRowsKeepsFlow, FullReplaceKeepsFlow, ReconcileKeepsFlow, ImportingKeepsFlow
    DEF ManifestNext, ImportStep

\* A version that counts as merged is in the tables, whichever imports broke
\* off before (server/job/pcgw_bundle_indexed.go).
THEOREM MergedIsImportedHolds == ManifestSpec => []MergedIsImported
  <1>1. FlowInv => MergedIsImported
    BY DEF FlowInv, ImportInv, MergedIsImported, Published
  <1>2. ManifestSpec => []FlowInv
    BY FlowBegins, FlowSteps, PTL DEF ManifestSpec
  <1> QED
    BY <1>1, <1>2, PTL

---------------------------------------------------------------------------
(* What a delta will tell: of the cache as it is, and, when an answer is on  *)
(* its way, of the cache as it will be.                                      *)

Differs(had, row) ==
  \/ ~({p \in Locations : row[p] > 0 /\ row[p] = Newest(row)} \subseteq had)
  \/ \E p \in had : row[p] = 0
Rowless(row) == \A p \in Locations : row[p] = 0
Tells(cursor, row, tomb) == Newest(row) > cursor \/ (Rowless(row) /\ Day(tomb) > Day(cursor))
Told(book, known, table, stones) ==
  (\E h \in Titles : book[h].paths # {}) =>
    \A g \in Titles : Differs(book[g].paths, table[g]) => Tells(Cursor(book), table[g], stones[g]) \/ g \in known

CarriedBy(ans) == {g \in Titles : ans.games[g].paths # {}}
ComingOf(ans, book) ==
  IF ans.since = 0 THEN ans.games
  ELSE [g \in Titles |-> IF g \in CarriedBy(ans) THEN ans.games[g]
                         ELSE IF CarriedBy(ans) = {} /\ g \in ans.deleted THEN NoPaths ELSE book[g]]
KnownWith(ans, book, known, table) ==
  ans.late \cup
  IF ans.since = 0 THEN {}
  ELSE (known \ CarriedBy(ans))
       \cup {g \in Titles \ CarriedBy(ans) : Rowless(table[g]) /\ book[g].paths # {} /\ (ans.pc = "v1" \/ CarriedBy(ans) # {})}
       \cup {g \in ans.deleted \ CarriedBy(ans) : ~Rowless(table[g])}

DeltaInv ==
  /\ Told(cache, overlooked, rows, tombs)
  /\ answer.pc # "none" => Told(ComingOf(answer, cache), KnownWith(answer, cache, overlooked, rows), rows, tombs)

LEMMA RowsAre ==
  ASSUME FlowTypes, NEW g \in Titles
  PROVE  /\ clock \in Nat /\ rows[g] \in [Locations -> Nat] /\ \A p \in Locations : rows[g][p] <= clock
         /\ Newest(rows[g]) \in Nat /\ Newest(rows[g]) = NewestRow(g)
         /\ (HasRows(g) <=> ~Rowless(rows[g])) /\ (Newest(rows[g]) > 0 <=> ~Rowless(rows[g]))
         /\ \A p \in Locations : rows[g][p] <= Newest(rows[g])
         /\ \E p \in Locations : rows[g][p] = Newest(rows[g])
         /\ tombs[g] \in Nat /\ tombs[g] <= clock
  <1>1. clock \in Nat /\ rows[g] \in [Locations -> Nat] /\ \A p \in Locations : rows[g][p] <= clock
    BY DEF FlowTypes, RowsUntil, RowTables
  <1>2. /\ Newest(rows[g]) \in Nat
        /\ \A p \in Locations : rows[g][p] <= Newest(rows[g])
        /\ Newest(rows[g]) > 0 <=> \E p \in Locations : rows[g][p] > 0
        /\ \E p \in Locations : rows[g][p] = Newest(rows[g])
    BY <1>1, NewestRowIs
  <1>3. Newest(rows[g]) = NewestRow(g)
    BY DEF Newest, NewestRow
  <1>4. Rowless(rows[g]) <=> ~\E p \in Locations : rows[g][p] > 0
    BY <1>1 DEF Rowless
  <1>5. tombs[g] \in Nat /\ tombs[g] <= clock
    BY DEF FlowTypes, StampsUntil
  <1> QED
    BY <1>1, <1>2, <1>3, <1>4, <1>5 DEF HasRows

\* The model's own words for the same.
LEMMA ComingIs ==
  /\ Coming = ComingOf(answer, cache) /\ Carried = CarriedBy(answer)
  /\ CacheComplete <=> \E h \in Titles : cache[h].paths # {}
  BY DEF Coming, ComingOf, Carried, CarriedBy, MergedGame, CacheComplete

LEMMA ComingUntil ==
  ASSUME FlowTypes
  PROVE  /\ Until(ComingOf(answer, cache), clock)
         /\ Cursor(ComingOf(answer, cache)) \in Nat /\ Cursor(cache) \in Nat
  <1>1. answer.games \in Books /\ cache \in Books /\ \A g \in Titles : answer.games[g].at <= clock /\ cache[g].at <= clock
    BY DEF FlowTypes, Until
  <1> DEFINE mix == [g \in Titles |-> IF g \in CarriedBy(answer) THEN answer.games[g]
                         ELSE IF CarriedBy(answer) = {} /\ g \in answer.deleted THEN NoPaths ELSE cache[g]]
  <1>2. NoPaths \in [paths : SUBSET Locations, at : Nat] /\ NoPaths.at = 0 /\ clock \in Nat
    BY DEF NoPaths, FlowTypes
  <1> HIDE DEF NoPaths
  <1>3. mix \in Books
    BY <1>1, <1>2 DEF Books
  <1>4. \A g \in Titles : mix[g].at <= clock
    BY <1>1, <1>2
  <1>5. Until(ComingOf(answer, cache), clock)
    BY <1>1, <1>3, <1>4 DEF ComingOf, Until
  <1> QED
    BY <1>2, <1>5, CursorIs DEF FlowTypes

\* A step of the server: what it changes it notes, or a delta tells of it.
LEMMA ToldStays ==
  ASSUME FlowInv, FlowInv', NEW book, Cursor(book) \in Nat, NEW known, NEW known2, Told(book, known, rows, tombs),
         \A g \in Titles :
           \/ rows'[g] = rows[g] /\ tombs[g] <= tombs'[g] /\ (g \in known => g \in known2)
           \/ (\E h \in Titles : book[h].paths # {}) => Tells(Cursor(book), rows'[g], tombs'[g]) \/ g \in known2
  PROVE  Told(book, known2, rows', tombs')
  <1> SUFFICES ASSUME \E h \in Titles : book[h].paths # {}, NEW g \in Titles, Differs(book[g].paths, rows'[g])
               PROVE  Tells(Cursor(book), rows'[g], tombs'[g]) \/ g \in known2
    BY DEF Told
  <1>1. CASE rows'[g] = rows[g] /\ tombs[g] <= tombs'[g] /\ (g \in known => g \in known2)
    <2>1. Tells(Cursor(book), rows[g], tombs[g]) \/ g \in known
      BY <1>1 DEF Told
    <2>2. Tells(Cursor(book), rows[g], tombs[g]) => Tells(Cursor(book), rows'[g], tombs'[g])
      <3>1. tombs[g] \in Nat /\ tombs'[g] \in Nat
        BY DEF FlowInv, FlowTypes, StampsUntil
      <3>2. Day(tombs[g]) \in Nat /\ Day(tombs'[g]) \in Nat /\ Day(tombs[g]) <= Day(tombs'[g])
        BY <1>1, <3>1, DayGrows
      <3>3. Day(Cursor(book)) \in Nat
        BY DayGrows
      <3> QED
        BY <1>1, <3>2, <3>3 DEF Tells
    <2> QED
      BY <1>1, <2>1, <2>2
  <1>2. CASE ~(rows'[g] = rows[g] /\ tombs[g] <= tombs'[g] /\ (g \in known => g \in known2))
    BY <1>2
  <1> QED
    BY <1>1, <1>2

LEMMA ServerStepTells ==
  ASSUME FlowInv, FlowInv', DeltaInv, NEW O, NEW L \in SUBSET Titles, UNCHANGED cache, overlooked' = overlooked \cup O,
         answer' = [answer EXCEPT !.late = answer.late \cup L],
         \A g \in Titles :
           \/ rows'[g] = rows[g] /\ tombs[g] <= tombs'[g]
           \/ /\ CacheComplete => Tells(Cursor(cache), rows'[g], tombs'[g]) \/ g \in O
              /\ answer.pc # "none" => Tells(Cursor(Coming), rows'[g], tombs'[g]) \/ g \in L
  PROVE  DeltaInv'
  <1>1. FlowTypes
    BY DEF FlowInv
  <1>2. Told(cache, overlooked', rows', tombs')
    BY <1>1, ComingIs, ComingUntil, ToldStays DEF DeltaInv
  <1>3. ASSUME answer.pc # "none"
        PROVE  Told(ComingOf(answer, cache), KnownWith(answer', cache, overlooked', rows'), rows', tombs')
    <2>1. /\ answer'.pc = answer.pc /\ answer'.since = answer.since /\ answer'.games = answer.games
          /\ answer'.deleted = answer.deleted /\ answer'.late = answer.late \cup L
      BY <1>1, NotingKeepsTypes
    <2>2. L \subseteq KnownWith(answer', cache, overlooked', rows')
      BY <2>1 DEF KnownWith
    <2>3. ASSUME NEW g \in Titles, rows'[g] = rows[g], g \in KnownWith(answer, cache, overlooked, rows)
          PROVE  g \in KnownWith(answer', cache, overlooked', rows')
      BY <2>1, <2>3 DEF KnownWith, CarriedBy
    <2>4. Told(ComingOf(answer, cache), KnownWith(answer, cache, overlooked, rows), rows, tombs)
      BY <1>3 DEF DeltaInv
    <2> HIDE DEF KnownWith
    <2> DEFINE known == KnownWith(answer, cache, overlooked, rows)
               known2 == KnownWith(answer', cache, overlooked', rows')
               book == ComingOf(answer, cache)
    <2>5. \A g \in Titles :
            \/ rows'[g] = rows[g] /\ tombs[g] <= tombs'[g] /\ (g \in known => g \in known2)
            \/ (\E h \in Titles : book[h].paths # {}) => Tells(Cursor(book), rows'[g], tombs'[g]) \/ g \in known2
      BY <1>3, <2>2, <2>3, ComingIs
    <2>6. Cursor(book) \in Nat /\ Told(book, known, rows, tombs)
      BY <1>1, <2>4, ComingUntil
    <2> HIDE DEF known, known2, book
    <2>7. Told(book, known2, rows', tombs')
      BY <2>5, <2>6, ToldStays
    <2> QED
      BY <2>7 DEF book, known2
  <1>4. answer'.pc = answer.pc /\ ComingOf(answer, cache)' = ComingOf(answer, cache)
    BY <1>1, NotingKeepsTypes DEF ComingOf, CarriedBy
  <1> QED
    BY <1>2, <1>3, <1>4 DEF DeltaInv

LEMMA ImportRowsTells ==
  ASSUME FlowInv, FlowInv', DeltaInv, ImportRows
  PROVE  DeltaInv'
  <1> DEFINE O == {g \in {h \in Titles : Fresh(h) # {}} : CacheComplete /\ importing.bundle[g].at <= Cursor(cache)}
             L == {g \in {h \in Titles : Fresh(h) # {}} : answer.pc # "none" /\ importing.bundle[g].at <= Cursor(Coming)}
  <1>1. FlowTypes /\ FlowTypes'
    BY DEF FlowInv
  <1>2. /\ rows' = [g \in Titles |-> [p \in Locations |-> IF p \in Fresh(g) THEN importing.bundle[g].at ELSE rows[g][p]]]
        /\ UNCHANGED <<cache, tombs>> /\ overlooked' = overlooked \cup O /\ answer' = [answer EXCEPT !.late = answer.late \cup L]
    BY ImportRowsDoes
  <1>3. L \in SUBSET Titles
    OBVIOUS
  <1>4. ASSUME NEW g \in Titles
        PROVE  \/ rows'[g] = rows[g] /\ tombs[g] <= tombs'[g]
               \/ /\ CacheComplete => Tells(Cursor(cache), rows'[g], tombs'[g]) \/ g \in O
                  /\ answer.pc # "none" => Tells(Cursor(Coming), rows'[g], tombs'[g]) \/ g \in L
    <2>1. rows[g] \in [Locations -> Nat] /\ tombs[g] \in Nat
      BY <1>1, RowsAre
    <2>2. CASE Fresh(g) = {}
      <3>1. rows'[g] = [p \in Locations |-> rows[g][p]]
        BY <1>2, <2>2
      <3>2. rows'[g] = rows[g]
        BY <2>1, <3>1
      <3> QED
        BY <1>2, <2>1, <3>2
    <2>3. CASE Fresh(g) # {}
      <3>1. PICK p \in Locations : p \in Fresh(g)
        BY <1>1, <2>3 DEF Fresh, FlowTypes, Imports, Books
      <3>2. rows'[g][p] = importing.bundle[g].at
        BY <1>2, <3>1
      <3>3. importing.bundle[g].at \in Nat
        BY <1>1 DEF FlowTypes, Imports, Books
      <3>4. Newest(rows'[g]) \in Nat /\ rows'[g][p] <= Newest(rows'[g])
        <4>1. clock' \in Nat /\ rows'[g] \in [Locations -> Nat] /\ \A q \in Locations : rows'[g][q] <= clock'
          BY <1>1 DEF FlowTypes, RowsUntil, RowTables
        <4> QED
          BY <4>1, NewestRowIs
      <3>5. Cursor(cache) \in Nat /\ Cursor(Coming) \in Nat
        BY <1>1, ComingUntil, ComingIs
      <3>6. ASSUME NEW cursor \in Nat PROVE importing.bundle[g].at <= cursor \/ Tells(cursor, rows'[g], tombs'[g])
        BY <3>2, <3>3, <3>4 DEF Tells
      <3> QED
        BY <2>3, <3>5, <3>6
    <2> QED
      BY <2>2, <2>3
  <1> HIDE DEF O, L
  <1> QED
    BY <1>2, <1>3, <1>4, ServerStepTells

\* Games that go leave a tombstone that will be seen, or are noted.
LEMMA GoneIsTold ==
  ASSUME FlowTypes, FlowTypes', NEW g \in Titles, rows'[g] = [p \in Locations |-> 0]
  PROVE  /\ CacheComplete => Tells(Cursor(cache), rows'[g], tombs'[g]) \/ Day(tombs'[g]) <= Day(Cursor(cache))
         /\ answer.pc # "none" => Tells(Cursor(Coming), rows'[g], tombs'[g]) \/ Day(tombs'[g]) <= Day(Cursor(Coming))
  <1>1. Cursor(cache) \in Nat /\ Cursor(Coming) \in Nat
    BY ComingUntil, ComingIs
  <1>2. tombs'[g] \in Nat
    BY DEF FlowTypes, StampsUntil
  <1>3. Rowless(rows'[g])
    BY DEF Rowless
  <1>4. Day(Cursor(cache)) \in Nat /\ Day(Cursor(Coming)) \in Nat /\ Day(tombs'[g]) \in Nat
    BY <1>1, <1>2, DayGrows
  <1> QED
    BY <1>3, <1>4 DEF Tells

LEMMA FullReplaceTells ==
  ASSUME FlowInv, FlowInv', DeltaInv, FullReplace
  PROVE  DeltaInv'
  <1> DEFINE O == {g \in {h \in Titles : HasRows(h)} : CacheComplete /\ Day(tombs'[g]) <= Day(Cursor(cache))}
             L == {g \in {h \in Titles : HasRows(h)} : answer.pc # "none" /\ Day(tombs'[g]) <= Day(Cursor(Coming))}
  <1>1. FlowTypes /\ FlowTypes'
    BY DEF FlowInv
  <1>2. /\ rows' = [g \in Titles |-> [p \in Locations |-> 0]]
        /\ tombs' = [g \in Titles |-> IF gameAt[g] > 0 THEN clock ELSE tombs[g]]
        /\ UNCHANGED cache /\ overlooked' = overlooked \cup O /\ answer' = [answer EXCEPT !.late = answer.late \cup L]
    BY FullReplaceDoes
  <1>3. L \in SUBSET Titles
    OBVIOUS
  <1>4. ASSUME NEW g \in Titles
        PROVE  \/ rows'[g] = rows[g] /\ tombs[g] <= tombs'[g]
               \/ /\ CacheComplete => Tells(Cursor(cache), rows'[g], tombs'[g]) \/ g \in O
                  /\ answer.pc # "none" => Tells(Cursor(Coming), rows'[g], tombs'[g]) \/ g \in L
    <2>1. rows'[g] = [p \in Locations |-> 0]
      BY <1>2
    <2>2. CASE HasRows(g)
      BY <1>1, <2>1, <2>2, GoneIsTold
    <2>3. CASE ~HasRows(g)
      <3>1. rows[g] = [p \in Locations |-> 0]
        BY <1>1, <2>3, RowsAre DEF Rowless
      <3>2. tombs[g] <= tombs'[g]
        BY <1>1, <1>2, RowsAre
      <3> QED
        BY <2>1, <3>1, <3>2
    <2> QED
      BY <2>2, <2>3
  <1> HIDE DEF O, L
  <1> QED
    BY <1>2, <1>3, <1>4, ServerStepTells

LEMMA ReconcileTells ==
  ASSUME FlowInv, FlowInv', DeltaInv, Reconcile
  PROVE  DeltaInv'
  <1> DEFINE O == {g \in Going : CacheComplete /\ Day(tombs'[g]) <= Day(Cursor(cache))}
             L == {g \in Going : answer.pc # "none" /\ Day(tombs'[g]) <= Day(Cursor(Coming))}
  <1>1. FlowTypes /\ FlowTypes'
    BY DEF FlowInv
  <1>2. /\ rows' = [g \in Titles |-> IF g \in Going THEN [p \in Locations |-> 0] ELSE rows[g]]
        /\ tombs' = [g \in Titles |-> IF g \in Going THEN clock ELSE tombs[g]]
        /\ UNCHANGED cache /\ overlooked' = overlooked \cup O /\ answer' = [answer EXCEPT !.late = answer.late \cup L]
        /\ Going \subseteq Titles
    BY ReconcileDoes
  <1>3. L \in SUBSET Titles
    BY <1>2
  <1>4. ASSUME NEW g \in Titles
        PROVE  \/ rows'[g] = rows[g] /\ tombs[g] <= tombs'[g]
               \/ /\ CacheComplete => Tells(Cursor(cache), rows'[g], tombs'[g]) \/ g \in O
                  /\ answer.pc # "none" => Tells(Cursor(Coming), rows'[g], tombs'[g]) \/ g \in L
    <2>1. CASE g \in Going
      <3>1. rows'[g] = [p \in Locations |-> 0]
        BY <1>2, <2>1
      <3> QED
        BY <1>1, <2>1, <3>1, GoneIsTold
    <2>2. CASE g \notin Going
      BY <1>1, <1>2, <2>2, RowsAre
    <2> QED
      BY <2>1, <2>2
  <1> HIDE DEF O, L
  <1> QED
    BY <1>2, <1>3, <1>4, ServerStepTells

\* What is asked for: all, or what is newer than the newest the client has.
LEMMA FetchTells ==
  ASSUME FlowInv, FlowInv', DeltaInv, Fetch \/ FetchFallsBack
  PROVE  DeltaInv'
  <1>1. FlowTypes /\ FlowTypes' /\ UNCHANGED <<clock, rows, tombs, cache, overlooked>>
    BY DEF FlowInv, Fetch, FetchFallsBack, mirrorVars
  <1>2. PICK since \in {0, Cursor(cache)} : answer' = AnswerV2(since) \/ answer' = AnswerV1(since)
    BY DEF Fetch, FetchFallsBack
  <1>3. since \in Nat
    BY <1>1, <1>2, ComingUntil
  <1>4. /\ answer'.since = since /\ answer'.late = {}
        /\ \A g \in Titles : g \in CarriedBy(answer') <=> Newest(rows[g]) > since
        /\ \A g \in CarriedBy(answer') : ~Differs(answer'.games[g].paths, rows[g])
        /\ \A g \in Titles \ CarriedBy(answer') : answer'.games[g].paths = {}
        /\ since # 0 /\ answer'.pc # "v1" => answer'.deleted = {g \in Titles : Day(tombs[g]) > Day(since)}
    <2>1. ASSUME NEW g \in Titles
          PROVE  /\ answer'.games[g].paths # {} <=> Newest(rows[g]) > since
                 /\ answer'.games[g].paths # {} => ~Differs(answer'.games[g].paths, rows[g])
      <3>1. /\ rows[g] \in [Locations -> Nat] /\ Newest(rows[g]) \in Nat /\ Newest(rows[g]) = NewestRow(g)
            /\ \A p \in Locations : rows[g][p] <= Newest(rows[g])
            /\ \E p \in Locations : rows[g][p] = Newest(rows[g])
        BY <1>1, RowsAre
      <3>2. g \in Selected(since) <=> Newest(rows[g]) > since
        BY <3>1 DEF Selected
      <3>3. \/ answer'.games[g].paths = IF g \in Selected(since) THEN {p \in Locations : rows[g][p] > 0} ELSE {}
            \/ answer'.games[g].paths = IF g \in Selected(since) THEN {p \in Locations : rows[g][p] > since} ELSE {}
        <4>1. CASE answer' = AnswerV2(since)
          BY <4>1 DEF AnswerV2, NoPaths
        <4>2. CASE answer' = AnswerV1(since)
          BY <4>2 DEF AnswerV1, NoPaths
        <4> QED
          BY <1>2, <4>1, <4>2
      <3>4. g \in Selected(since) => (\E p \in Locations : rows[g][p] > since) /\ (\E p \in Locations : rows[g][p] > 0)
        BY <1>3, <3>1, <3>2
      <3>5. answer'.games[g].paths # {} <=> Newest(rows[g]) > since
        BY <3>2, <3>3, <3>4
      <3>6. ASSUME g \in Selected(since) PROVE ~Differs(answer'.games[g].paths, rows[g])
        <4>1. \A p \in Locations : rows[g][p] > since => rows[g][p] > 0 /\ rows[g][p] # 0
          BY <1>3, <3>1
        <4>2. \A p \in Locations : rows[g][p] > 0 => rows[g][p] # 0
          BY <3>1
        <4>3. Newest(rows[g]) > since
          BY <3>2, <3>6
        <4> QED
          BY <3>3, <3>6, <4>1, <4>2, <4>3 DEF Differs
      <3> QED
        BY <3>2, <3>5, <3>6
    <2>2. answer'.since = since /\ answer'.late = {}
      BY <1>2 DEF AnswerV1, AnswerV2
    <2>3. since # 0 /\ answer'.pc # "v1" => answer'.deleted = {g \in Titles : Day(tombs[g]) > Day(since)}
      BY <1>2 DEF AnswerV1, AnswerV2
    <2> QED
      BY <2>1, <2>2, <2>3 DEF CarriedBy
  <1>5. answer'.pc \in {"v1", "v2"}
    BY <1>2 DEF AnswerV1, AnswerV2
  <1> DEFINE book == ComingOf(answer', cache)
             known == KnownWith(answer', cache, overlooked, rows)
  <1>6. ASSUME NEW g \in Titles, Differs(book[g].paths, rows[g])
        PROVE  Tells(Cursor(book), rows[g], tombs[g]) \/ g \in known
    <2>1. g \notin CarriedBy(answer')
      <3>1. g \in CarriedBy(answer') => book[g] = answer'.games[g]
        BY DEF ComingOf
      <3> QED
        BY <1>4, <1>6, <3>1
    <2>2. Newest(rows[g]) \in Nat /\ ~(Newest(rows[g]) > since) /\ rows[g] \in [Locations -> Nat]
          /\ (Newest(rows[g]) > 0 <=> ~Rowless(rows[g]))
      BY <1>1, <1>4, <2>1, RowsAre
    <2>3. CASE since = 0
      <3>1. book[g].paths = {}
        BY <1>4, <2>1, <2>3 DEF ComingOf
      <3>2. Rowless(rows[g])
        BY <2>2, <2>3
      <3> QED
        BY <1>6, <2>2, <3>1, <3>2 DEF Differs, Rowless
    <2>4. CASE since # 0
      <3>1. since = Cursor(cache) /\ \E h \in Titles : cache[h].paths # {}
        <4>1. Cursor(cache) # 0 => \E h \in Titles : cache[h].paths # {}
          <5> SUFFICES ASSUME ~\E h \in Titles : cache[h].paths # {} PROVE Cursor(cache) = 0
            OBVIOUS
          <5>1. {cache[h].at : h \in {t \in Titles : cache[t].paths # {}}} = {}
            OBVIOUS
          <5> QED
            BY <5>1 DEF Cursor, NewestOf
        <4> QED
          BY <1>2, <2>4, <4>1
      <3>2. CASE CarriedBy(answer') = {} /\ g \in answer'.deleted
        <4>1. book[g].paths = {}
          BY <1>4, <2>1, <2>4, <3>2 DEF ComingOf, NoPaths
        <4>2. ~Rowless(rows[g])
          BY <1>6, <2>2, <4>1 DEF Differs, Rowless
        <4> QED
          BY <1>4, <2>1, <2>4, <3>2, <4>2 DEF KnownWith
      <3>3. CASE ~(CarriedBy(answer') = {} /\ g \in answer'.deleted)
        <4>1. book[g] = cache[g]
          BY <1>4, <2>1, <2>4, <3>3 DEF ComingOf
        <4>2. Tells(Cursor(cache), rows[g], tombs[g]) \/ g \in overlooked
          BY <1>6, <3>1, <4>1 DEF DeltaInv, Told
        <4>3. CASE g \in overlooked
          BY <1>4, <2>1, <2>4, <4>3 DEF KnownWith
        <4>4. CASE Tells(Cursor(cache), rows[g], tombs[g])
          <5>1. Rowless(rows[g]) /\ Day(tombs[g]) > Day(since)
            BY <2>2, <3>1, <4>4 DEF Tells
          <5>2. cache[g].paths # {}
            BY <1>6, <2>2, <4>1, <5>1 DEF Differs, Rowless
          <5>3. answer'.pc = "v1" \/ CarriedBy(answer') # {}
            BY <1>4, <2>4, <3>3, <5>1
          <5> QED
            BY <1>4, <2>1, <2>4, <5>1, <5>2, <5>3 DEF KnownWith
        <4> QED
          BY <4>2, <4>3, <4>4
      <3> QED
        BY <3>2, <3>3
    <2> QED
      BY <2>3, <2>4
  <1>7. Told(book, known, rows, tombs)
    BY <1>6 DEF Told
  <1> QED
    BY <1>1, <1>7 DEF DeltaInv, ComingOf, KnownWith, CarriedBy

LEMMA MergeTells ==
  ASSUME FlowInv, FlowInv', DeltaInv, MergeAnswer
  PROVE  DeltaInv'
  <1>1. /\ answer.pc # "none" /\ cache' = ComingOf(answer, cache) /\ answer' = NoAnswer /\ UNCHANGED <<rows, tombs>>
    BY ComingIs DEF MergeAnswer, mirrorVars
  <1>2. overlooked' = KnownWith(answer, cache, overlooked, rows)
    <2>1. \A g \in Titles : HasRows(g) <=> ~Rowless(rows[g])
      BY RowsAre DEF FlowInv
    <2>2. answer.deleted \in SUBSET Titles
      BY DEF FlowInv, FlowTypes, Answers
    <2>3. {g \in Titles \ Carried : ~HasRows(g) /\ cache[g].paths # {} /\ (answer.pc = "v1" \/ Carried # {})}
            = {g \in Titles \ CarriedBy(answer) : Rowless(rows[g]) /\ cache[g].paths # {} /\ (answer.pc = "v1" \/ CarriedBy(answer) # {})}
      BY <2>1, ComingIs
    <2>4. {g \in answer.deleted \ Carried : HasRows(g)} = {g \in answer.deleted \ CarriedBy(answer) : ~Rowless(rows[g])}
      BY <2>1, <2>2, ComingIs
    <2> QED
      BY <2>3, <2>4, ComingIs DEF MergeAnswer, KnownWith
  <1> QED
    BY <1>1, <1>2, EmptyTypes DEF DeltaInv

LEMMA DeltaBegins == ManifestInit => DeltaInv
  BY EmptyTypes DEF ManifestInit, DeltaInv, Told, NoPaths

LEMMA DeltaSteps == FlowInv /\ FlowInv' /\ DeltaInv /\ [ManifestNext]_manifestVars => DeltaInv'
  <1> SUFFICES ASSUME FlowInv, FlowInv', DeltaInv, [ManifestNext]_manifestVars PROVE DeltaInv'
    OBVIOUS
  <1>1. CASE TimePasses \/ ExportBundle \/ ExportIndex \/ FetchIndex \/ Download \/ ImportGames \/ ImportDone \/ ImportCut
             \/ UNCHANGED manifestVars
    <2>1. UNCHANGED <<rows, tombs, cache, answer, overlooked>>
      BY <1>1 DEF TimePasses, ExportBundle, ExportIndex, FetchIndex, Download, ImportGames, ImportDone, ImportCut,
                  manifestVars, mirrorVars, copyVars
    <2> QED
      BY <2>1 DEF DeltaInv
  <1>2. CASE AnswerLost
    BY <1>2, EmptyTypes DEF AnswerLost, DeltaInv, mirrorVars
  <1> QED
    BY <1>1, <1>2, ImportRowsTells, FullReplaceTells, ReconcileTells, FetchTells, MergeTells DEF ManifestNext, ImportStep

\* What the invariants say of what the next delta brings.
LEMMA DeltaTold == FlowInv /\ DeltaInv => DeltaWillTell
  <1> SUFFICES ASSUME FlowInv, DeltaInv, NEW g \in Titles, CacheComplete, Differs(cache[g].paths, rows[g])
               PROVE  \/ NewestRow(g) > Cursor(cache)
                      \/ ~HasRows(g) /\ Day(tombs[g]) > Day(Cursor(cache))
                      \/ g \in overlooked
    <2>1. ASSUME FlowInv, NEW g \in Titles
          PROVE  {p \in Locations : rows[g][p] > 0 /\ rows[g][p] = NewestRow(g)}
                   = {p \in Locations : rows[g][p] > 0 /\ rows[g][p] = Newest(rows[g])}
      BY <2>1, RowsAre DEF FlowInv
    <2> QED
      BY <2>1 DEF DeltaWillTell, Differs
  <1>1. Tells(Cursor(cache), rows[g], tombs[g]) \/ g \in overlooked
    BY ComingIs DEF DeltaInv, Told
  <1> QED
    BY <1>1, RowsAre DEF Tells, FlowInv

\* What a client lacks, or has too much, the next delta brings: however
\* imports, uploads of the whole and answers overlap, but for the changes no
\* delta can show (client/manifest.go DeltaSince, mergeManifestFetch).
THEOREM DeltaWillTellHolds == ManifestSpec => []DeltaWillTell
  <1>1. ManifestSpec => [](FlowInv /\ DeltaInv)
    <2>1. ManifestInit => FlowInv /\ DeltaInv
      BY FlowBegins, DeltaBegins
    <2>2. FlowInv /\ DeltaInv /\ [ManifestNext]_manifestVars => FlowInv' /\ DeltaInv'
      BY FlowSteps, DeltaSteps
    <2> QED
      BY <2>1, <2>2, PTL DEF ManifestSpec
  <1> QED
    BY <1>1, DeltaTold, PTL

---------------------------------------------------------------------------
(* The stamps there are. *)

\* The bounds hold, an ETag is of an index there was, and what is overlooked is a game.
FlowSmall ==
  /\ clock \in 1 .. LastSecond /\ exported \in 0 .. MaxExports /\ indexETag \in 0 .. exported
  /\ overlooked \subseteq Titles

LEMMA SmallStays ==
  ASSUME FlowInv, FlowSmall, clock' = clock, exported' = exported, indexETag' \in {indexETag, indexed, importing.want},
         overlooked' \subseteq Titles
  PROVE  FlowSmall'
  <1>1. indexed \in 0 .. exported /\ importing.want \in 0 .. exported
    BY DEF FlowInv, FlowTypes, ImportInv, Imports
  <1> QED
    BY <1>1 DEF FlowSmall

LEMMA SmallSteps == FlowInv /\ FlowSmall /\ [ManifestNext]_manifestVars => FlowSmall'
  <1> SUFFICES ASSUME FlowInv, FlowSmall, [ManifestNext]_manifestVars PROVE FlowSmall'
    OBVIOUS
  <1>0. answer \in Answers /\ overlooked \subseteq Titles
    BY DEF FlowInv, FlowTypes, FlowSmall
  <1>1. CASE TimePasses
    <2>1. clock' \in 1 .. LastSecond /\ UNCHANGED <<exported, indexETag, overlooked>>
      BY <1>1, ManifestBounds DEF TimePasses, FlowSmall, publisherVars, mirrorVars
    <2> QED
      BY <2>1 DEF FlowSmall
  <1>2. CASE ExportBundle
    <2>1. exported' \in 0 .. MaxExports /\ exported' = exported + 1 /\ UNCHANGED <<clock, indexETag, overlooked>>
      BY <1>2, ManifestBounds DEF ExportBundle, FlowSmall, mirrorVars
    <2>2. indexETag' \in 0 .. exported'
      BY <2>1 DEF FlowSmall
    <2> QED
      BY <2>1, <2>2 DEF FlowSmall
  <1>3. CASE ExportIndex \/ FetchIndex \/ Download \/ ImportGames \/ ImportDone \/ ImportCut
             \/ Fetch \/ FetchFallsBack \/ AnswerLost \/ UNCHANGED manifestVars
    <2>1. /\ UNCHANGED <<clock, exported, overlooked>>
          /\ indexETag' \in {indexETag, indexed, importing.want}
      BY <1>3 DEF ExportIndex, FetchIndex, Download, ImportGames, ImportDone, ImportCut, Fetch, FetchFallsBack,
                  AnswerLost, manifestVars, publisherVars, mirrorVars
    <2> QED
      BY <1>0, <2>1, SmallStays
  <1>4. CASE ImportRows
    <2>1. overlooked' \subseteq Titles /\ UNCHANGED <<clock, exported, indexETag>>
      BY <1>0, <1>4, ImportRowsDoes DEF publisherVars
    <2> QED
      BY <2>1, SmallStays
  <1>5. CASE FullReplace
    <2>1. overlooked' \subseteq Titles /\ UNCHANGED <<clock, exported, indexETag>>
      BY <1>0, <1>5, FullReplaceDoes DEF publisherVars
    <2> QED
      BY <2>1, SmallStays
  <1>6. CASE Reconcile
    <2>1. overlooked' \subseteq Titles /\ UNCHANGED <<clock, exported, indexETag>>
      BY <1>0, <1>6, ReconcileDoes DEF publisherVars
    <2> QED
      BY <2>1, SmallStays
  <1>7. CASE MergeAnswer
    <2>1. answer.late \subseteq Titles /\ answer.deleted \subseteq Titles
      BY <1>0 DEF Answers
    <2>2. overlooked' \subseteq Titles /\ UNCHANGED <<clock, exported, indexETag>>
      BY <1>0, <1>7, <2>1 DEF MergeAnswer, publisherVars, mirrorVars
    <2> QED
      BY <2>2, SmallStays
  <1> QED
    BY <1>1, <1>2, <1>3, <1>4, <1>5, <1>6, <1>7 DEF ManifestNext, ImportStep

\* No stamp of any table, cache or answer is of the future, and no version is
\* counted that was not exported.
LEMMA ManifestTyped == ManifestInit /\ [][ManifestNext]_manifestVars => []ManifestTypeOK
  <1>1. ManifestInit => FlowSmall
    <2> SUFFICES ASSUME ManifestInit PROVE FlowSmall
      OBVIOUS
    <2>1. 1 \in 1 .. LastSecond /\ 1 \in 0 .. MaxExports /\ 1 \in 0 .. 1
      BY ManifestBounds
    <2> QED
      BY <2>1 DEF ManifestInit, FlowSmall
  <1>2. FlowInv /\ FlowSmall => ManifestTypeOK
    <2> SUFFICES ASSUME FlowInv, FlowSmall PROVE ManifestTypeOK
      OBVIOUS
    <2>1. clock \in 1 .. LastSecond /\ LastSecond \in Nat
      BY ManifestBounds DEF FlowSmall
    <2>2. \A n \in Nat : n <= clock => n \in Seconds
      BY <2>1 DEF Seconds
    <2>3. rows \in [Titles -> [Locations -> Seconds]]
      BY <2>2 DEF FlowInv, FlowTypes, RowsUntil, RowTables
    <2>4. gameAt \in [Titles -> Seconds] /\ tombs \in [Titles -> Seconds]
      BY <2>2 DEF FlowInv, FlowTypes, StampsUntil
    <2>5. cache \in [Titles -> [paths : SUBSET Locations, at : Seconds]]
      <3>1. cache \in Books /\ \A g \in Titles : cache[g].at <= clock
        BY DEF FlowInv, FlowTypes, Until
      <3>2. \A g \in Titles : cache[g] \in [paths : SUBSET Locations, at : Seconds]
        BY <2>2, <3>1 DEF Books
      <3> QED
        BY <3>1, <3>2 DEF Books
    <2>6. indexed \in 0 .. exported /\ merged \in 0 .. exported
      BY DEF FlowInv, FlowTypes, ImportInv
    <2>7. clock \in Seconds
      BY <2>1, <2>2
    <2>8. exported \in 0 .. MaxExports /\ merged \in 0 .. MaxExports /\ indexETag \in 0 .. MaxExports
      BY <2>6, ManifestBounds DEF FlowSmall
    <2> QED
      BY <2>3, <2>4, <2>5, <2>6, <2>7, <2>8 DEF ManifestTypeOK, FlowSmall
  <1> QED
    BY FlowBegins, FlowSteps, <1>1, SmallSteps, <1>2, PTL

---------------------------------------------------------------------------
(* The components side by side.                                             *)

\* Each by itself, as far as safety goes.
JobsAlone == JobInit /\ [][JobNext]_jobVars
TokenAlone == TokenInit /\ [][TokenNext]_tokenVars
CatalogAlone == CatalogInit /\ [][CatalogNext]_catalogVars
ManifestAlone == ManifestInit /\ [][ManifestNext]_manifestVars

\* A step of the components side by side is a step of the one that runs, and the
\* others stay as they are.
LEMMA EachGoesAlone == ProgressSpec => JobsAlone /\ TokenAlone /\ CatalogAlone /\ ManifestAlone
  <1>1. ProgressInit => JobInit /\ TokenInit /\ CatalogInit /\ ManifestInit
    BY DEF ProgressInit
  <1>2. ProgressSpec => JobsAlone
    <2>1. [ProgressNext]_parts => [JobNext]_jobVars
      BY DEF ProgressNext, parts
    <2> QED
      BY <1>1, <2>1, PTL DEF ProgressSpec, JobsAlone
  <1>3. ProgressSpec => TokenAlone
    <2>1. [ProgressNext]_parts => [TokenNext]_tokenVars
      BY DEF ProgressNext, parts
    <2> QED
      BY <1>1, <2>1, PTL DEF ProgressSpec, TokenAlone
  <1>4. ProgressSpec => CatalogAlone
    <2>1. [ProgressNext]_parts => [CatalogNext]_catalogVars
      BY DEF ProgressNext, parts
    <2> QED
      BY <1>1, <2>1, PTL DEF ProgressSpec, CatalogAlone
  <1>5. ProgressSpec => ManifestAlone
    <2>1. [ProgressNext]_parts => [ManifestNext]_manifestVars
      BY DEF ProgressNext, parts
    <2> QED
      BY <1>1, <2>1, PTL DEF ProgressSpec, ManifestAlone
  <1> QED
    BY <1>2, <1>3, <1>4, <1>5

\* Whichever component runs, no variable leaves its type and no counter its
\* bound: no auto catch-up makes more cycles than its limit, no sync reads more
\* pages than its budget or counts more than there ever were, no request
\* carries a token that was not issued, and no stamp is of the future.
THEOREM ProgressTypeCorrect == ProgressSpec => []ProgressTypeOK
  <1>1. JobTypeOK /\ TokenTypeOK /\ CatalogTypeOK /\ ManifestTypeOK => ProgressTypeOK
    BY DEF ProgressTypeOK
  <1>2. ProgressSpec => []JobTypeOK
    BY EachGoesAlone, JobTyped DEF JobsAlone
  <1>3. ProgressSpec => []TokenTypeOK
    BY EachGoesAlone, TokenTyped DEF TokenAlone
  <1>4. ProgressSpec => []CatalogTypeOK
    BY EachGoesAlone, CatalogTyped DEF CatalogAlone
  <1>5. ProgressSpec => []ManifestTypeOK
    BY EachGoesAlone, ManifestTyped DEF ManifestAlone
  <1> QED
    BY <1>1, <1>2, <1>3, <1>4, <1>5, PTL

\* What is proved of each component in a behaviour of its own holds of all of
\* them in every behaviour of the whole: one goroutine for a job and rows that
\* tell of it, a token the server accepts, rows that are as new as they say, no
\* change of the wiki forgotten, no version counted that is not in the tables,
\* and no difference a delta does not tell.
THEOREM ProgressIsSafe ==
  ProgressSpec =>
    [](/\ OneRunPerJob /\ JobRowsTellTruth /\ TokenKept /\ RowTellsTruth /\ NoForgottenChange
       /\ MergedIsImported /\ DeltaWillTell)
  <1>1. ProgressSpec => [](OneRunPerJob /\ JobRowsTellTruth)
    <2>1. JobInv => OneRunPerJob /\ JobRowsTellTruth
      BY RowsTold DEF JobInv
    <2>2. JobsAlone => [](OneRunPerJob /\ JobRowsTellTruth)
      BY <2>1, JobInvHolds, JobStepKeeps, PTL DEF JobsAlone
    <2> QED
      BY <2>2, EachGoesAlone
  <1>2. ProgressSpec => []TokenKept
    <2>1. TokenInv => TokenKept
      BY DEF TokenInv, AcceptedInv, TokenKept
    <2>2. TokenAlone => []TokenKept
      BY <2>1, InitTokenInv, TokenSteps, PTL DEF TokenAlone
    <2> QED
      BY <2>2, EachGoesAlone
  <1>3. ProgressSpec => [](RowTellsTruth /\ NoForgottenChange)
    <2>1. SyncInv => RowTellsTruth /\ NoForgottenChange
      BY DEF SyncInv
    <2>2. CatalogAlone => [](RowTellsTruth /\ NoForgottenChange)
      BY <2>1, InitSyncInv, CatalogNextKeeps, PTL DEF CatalogAlone
    <2> QED
      BY <2>2, EachGoesAlone
  <1>4. ProgressSpec => [](MergedIsImported /\ DeltaWillTell)
    <2>1. FlowInv => MergedIsImported
      BY DEF FlowInv, ImportInv, MergedIsImported, Published
    <2>2. ManifestAlone => [](MergedIsImported /\ DeltaWillTell)
      BY <2>1, DeltaTold, FlowBegins, FlowSteps, DeltaBegins, DeltaSteps, PTL DEF ManifestAlone
    <2> QED
      BY <2>2, EachGoesAlone
  <1> QED
    BY <1>1, <1>2, <1>3, <1>4, PTL
=============================================================================
