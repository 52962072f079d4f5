-------------------------- MODULE TaskQueueProofs --------------------------
(* Invariance proofs for TaskQueue, for any number of workers and tasks,   *)
(* and at the end the order in which one worker takes a backlog.           *)
EXTENDS TaskQueue, TLAPS

(***************************************************************************)
(* The inductive invariant.  ExclusiveProcessing and NoLostBuild speak of  *)
(* rows, drivers and builds; the parts below tie the three together.       *)
(***************************************************************************)

\* A driver carries a task exactly while it is doing something with one.
JobInv == \A p \in Procs : job[p] = NoTask <=> pc[p] \in {"idle", "repoll"}

\* Which steps a driver takes: reclaiming is what the boot driver does, all it does,
\* and only while booting; re-polls and give-ups belong to the poll loop.
DriverInv ==
  /\ \A w \in Workers : mode[w] # "boot" => orphans[w] = {}
  /\ \A p \in Procs :
       /\ p[2] = "boot" => pc[p] \in {"idle", "unlocked", "condemned"}
       /\ p[2] # "boot" => pc[p] \notin {"unlocked", "condemned"}
       /\ p[2] # "poll" => pc[p] \notin {"repoll", "giveup", "fail"}
       /\ p[2] = "boot" /\ mode[p[1]] # "boot" => pc[p] = "idle"
       /\ p[2] # "boot" /\ mode[p[1]] \in {"down", "boot"} => pc[p] = "idle"

\* currentTaskId and claimInFlight say which driver of the worker holds a claim.
FlightInv ==
  /\ \A p \in Procs : /\ pc[p] \in Running => current[p[1]] = job[p]
                      /\ pc[p] = "reply" => inFlight[p[1]]
  /\ \A w \in Workers :
       current[w] # NoTask => \E p \in Procs : p[1] = w /\ pc[p] \in Running

\* Whoever holds an undisturbed task holds its lock, unless the row is gone.
LockInv ==
  \A t \in Tasks \ disturbed : \A p \in Procs :
    Holds(p, t) => (row[t] = "locked" /\ by[t] = p[1]) \/ row[t] = "gone"

\* The startup reclaim only ever touches disturbed tasks, and so does a shutdown.
ReclaimInv ==
  /\ \A w \in Workers : orphans[w] \subseteq disturbed
  /\ \A p \in Procs : pc[p] \in {"unlocked", "condemned"} => job[p] \in disturbed
  /\ \A w \in Workers : mode[w] \in {"released", "drained"}
                          => current[w] \in disturbed \cup {NoTask}

\* An undisturbed running build is being rendered by the worker it names.
OwnerInv ==
  \A t \in Tasks \ disturbed : build[t] = "running" =>
    \E p \in Procs : job[p] = t /\ pc[p] = "work" /\ owner[t] = p[1]

\* A row is only deleted at the end of a handler whose build is finished.
Finished(p) == \/ pc[p] = "done"
               \/ pc[p] = "failed" /\ err[p] \in {"permanent", "timeout"}

ClosedInv ==
  \A p \in Procs : Finished(p) /\ job[p] \notin disturbed => build[job[p]] = "closed"

IInv ==
  /\ TypeOK /\ JobInv /\ DriverInv /\ FlightInv /\ SingleFlight
  /\ LockInv /\ ExclusiveProcessing /\ ReclaimInv /\ OwnerInv /\ ClosedInv /\ NoLostBuild

\* Clearing a count, dropping a window and bumping a count stay within the maps.
LEMMA MapTypes ==
  ASSUME NEW S, NEW T, NEW N \in Nat, NEW w \in S, NEW t \in T,
         NEW f \in [S -> [T -> 0 .. N]], NEW g \in [S -> SUBSET T]
  PROVE  /\ Clear(f, w, t) \in [S -> [T -> 0 .. N]]
         /\ Bump(f, w, t, N) \in [S -> [T -> 0 .. N]]
         /\ Drop(g, w, t) \in [S -> SUBSET T]
         /\ [g EXCEPT ![w] = @ \cup {t}] \in [S -> SUBSET T]
<1>1. f[w] \in [T -> 0 .. N] /\ f[w][t] \in 0 .. N /\ g[w] \in SUBSET T
  OBVIOUS
<1>2. \A n \in 0 .. N : [f EXCEPT ![w] = [f[w] EXCEPT ![t] = n]] \in [S -> [T -> 0 .. N]]
  BY <1>1
<1>3. Clear(f, w, t) \in [S -> [T -> 0 .. N]]
  BY <1>1, <1>2, 0 \in 0 .. N DEF Clear
<1>4. Bump(f, w, t, N) \in [S -> [T -> 0 .. N]]
  <2>1. (IF f[w][t] < N THEN f[w][t] + 1 ELSE f[w][t]) \in 0 .. N
    BY <1>1
  <2>2. QED
    BY <2>1, <1>2 DEF Bump
<1>5. QED
  BY <1>1, <1>3, <1>4 DEF Drop

\* The updates of the four maps that the actions make.
MapUpdatesTyped(w, t) ==
  /\ Clear(fails, w, t) \in [Workers -> [Tasks -> 0 .. MaxRetryCount]]
  /\ Bump(fails, w, t, MaxRetryCount) \in [Workers -> [Tasks -> 0 .. MaxRetryCount]]
  /\ Clear(defers, w, t) \in [Workers -> [Tasks -> 0 .. MaxDeferCount]]
  /\ Bump(defers, w, t, MaxDeferCount) \in [Workers -> [Tasks -> 0 .. MaxDeferCount]]
  /\ Drop(backing, w, t) \in [Workers -> SUBSET Tasks]
  /\ [backing EXCEPT ![w] = @ \cup {t}] \in [Workers -> SUBSET Tasks]
  /\ Drop(deferring, w, t) \in [Workers -> SUBSET Tasks]
  /\ [deferring EXCEPT ![w] = @ \cup {t}] \in [Workers -> SUBSET Tasks]

\* Every edit a handler makes to the maps of its worker keeps their types.
LEMMA MapUpdates ==
  ASSUME TypeOK, NEW w \in Workers, NEW t \in Tasks
  PROVE  MapUpdatesTyped(w, t)
<1>1. /\ fails \in [Workers -> [Tasks -> 0 .. MaxRetryCount]] /\ MaxRetryCount \in Nat
      /\ defers \in [Workers -> [Tasks -> 0 .. MaxDeferCount]] /\ MaxDeferCount \in Nat
      /\ backing \in [Workers -> SUBSET Tasks] /\ deferring \in [Workers -> SUBSET Tasks]
  BY QueueAssumption DEF TypeOK
<1>2. /\ Clear(fails, w, t) \in [Workers -> [Tasks -> 0 .. MaxRetryCount]]
      /\ Bump(fails, w, t, MaxRetryCount) \in [Workers -> [Tasks -> 0 .. MaxRetryCount]]
      /\ Drop(backing, w, t) \in [Workers -> SUBSET Tasks]
      /\ [backing EXCEPT ![w] = @ \cup {t}] \in [Workers -> SUBSET Tasks]
  BY <1>1, MapTypes
<1>3. /\ Clear(defers, w, t) \in [Workers -> [Tasks -> 0 .. MaxDeferCount]]
      /\ Bump(defers, w, t, MaxDeferCount) \in [Workers -> [Tasks -> 0 .. MaxDeferCount]]
      /\ Drop(deferring, w, t) \in [Workers -> SUBSET Tasks]
      /\ [deferring EXCEPT ![w] = @ \cup {t}] \in [Workers -> SUBSET Tasks]
  BY <1>1, MapTypes
<1>4. QED
  BY <1>2, <1>3 DEF MapUpdatesTyped

\* A process that dies leaves every variable in its type.
LEMMA DiesType ==
  ASSUME TypeOK, NEW w \in Workers, Dies(w), signals' = signals, faults' = faults,
         crashes' \in 0 .. MaxCrashes
  PROVE  TypeOK'
<1> USE QueueAssumption DEF TypeOK, Dies, Procs, Drivers, Modes, Errors, Steps
<1>1. mode' \in [Workers -> Modes] /\ inFlight' \in [Workers -> BOOLEAN]
  OBVIOUS
<1>2. current' \in [Workers -> Tasks \cup {NoTask}] /\ job' \in [Procs -> Tasks \cup {NoTask}]
  OBVIOUS
<1>3. pc' \in [Procs -> Steps] /\ err' \in [Procs -> Errors]
  OBVIOUS
<1>4. fails' \in [Workers -> [Tasks -> 0 .. MaxRetryCount]]
  OBVIOUS
<1>5. defers' \in [Workers -> [Tasks -> 0 .. MaxDeferCount]]
  OBVIOUS
<1>6. /\ backing' \in [Workers -> SUBSET Tasks] /\ deferring' \in [Workers -> SUBSET Tasks]
      /\ notified' \in [Workers -> SUBSET Tasks] /\ orphans' \in [Workers -> SUBSET Tasks]
  OBVIOUS
<1>7. disturbed' \in SUBSET Tasks
  <2>1. \A d \in {"poll", "notify"} : job[<<w, d>>] \in Tasks \cup {NoTask}
    OBVIOUS
  <2>2. Jobs(w) \subseteq Tasks
    BY <2>1 DEF Jobs
  <2>3. QED
    BY <2>2
<1>8. QED
  BY <1>1, <1>2, <1>3, <1>4, <1>5, <1>6, <1>7 DEF rowVars, buildVars

\* So does the bookkeeping at the end of a handler that failed.
BooksTyped ==
  /\ current \in [Workers -> Tasks \cup {NoTask}]
  /\ inFlight \in [Workers -> BOOLEAN]
  /\ pc \in [Procs -> Steps] /\ job \in [Procs -> Tasks \cup {NoTask}]
  /\ err \in [Procs -> Errors]
  /\ fails \in [Workers -> [Tasks -> 0 .. MaxRetryCount]]
  /\ backing \in [Workers -> SUBSET Tasks]
  /\ defers \in [Workers -> [Tasks -> 0 .. MaxDeferCount]]
  /\ deferring \in [Workers -> SUBSET Tasks]

\* A failed handler leaves the bookkeeping of its worker well typed, retried, deferred or given up.
LEMMA RejectsType ==
  ASSUME TypeOK, NEW p \in Procs, NEW e \in Errors, job[p] \in Tasks, Rejects(p, e)
  PROVE  BooksTyped'
<1>1. p[1] \in Workers
  BY DEF Procs
<1>2. MapUpdatesTyped(p[1], job[p])
  BY <1>1, MapUpdates
<1>3. BooksTyped
  BY DEF TypeOK, BooksTyped
<1>4. {"idle", "repoll", "giveup"} \subseteq Steps /\ "none" \in Errors
  BY DEF Steps, Errors
<1> USE DEF BooksTyped, MapUpdatesTyped
<1>5. /\ current' \in [Workers -> Tasks \cup {NoTask}] /\ inFlight' \in [Workers -> BOOLEAN]
      /\ err' \in [Procs -> Errors]
  BY <1>1, <1>3, <1>4 DEF Rejects
<1>6. /\ \A s \in {"idle", "repoll", "giveup"} : [pc EXCEPT ![p] = s] \in [Procs -> Steps]
      /\ [job EXCEPT ![p] = NoTask] \in [Procs -> Tasks \cup {NoTask}]
  BY <1>3, <1>4
<1>7. CASE p[2] # "poll" \/ e = "permanent"
  <2>1. /\ fails' \in {fails, Clear(fails, p[1], job[p])}
        /\ backing' \in {backing, Drop(backing, p[1], job[p])}
        /\ defers' = defers /\ deferring' = deferring
        /\ pc' = [pc EXCEPT ![p] = "idle"] /\ job' = [job EXCEPT ![p] = NoTask]
    BY <1>7 DEF Rejects
  <2>2. QED
    BY <1>2, <1>3, <1>5, <1>6, <2>1
<1>8. CASE ~(p[2] # "poll" \/ e = "permanent") /\ e = "dependency"
  <2>1. Defers(p)
    BY <1>8 DEF Rejects
  <2>2. QED
    BY <1>2, <1>3, <1>5, <1>6, <2>1 DEF Defers
<1>9. CASE ~(p[2] # "poll" \/ e = "permanent") /\ e # "dependency"
  <2>1. BacksOff(p)
    BY <1>9 DEF Rejects
  <2>2. QED
    BY <1>2, <1>3, <1>5, <1>6, <2>1 DEF BacksOff
<1>10. QED
  BY <1>7, <1>8, <1>9

\* The unguarded statements on a row keep its three columns in their types.
RowsTyped ==
  /\ row \in [Tasks -> RowStates]
  /\ by \in [Tasks -> Workers \cup {NoWorker}]
  /\ attempts \in [Tasks -> 0 .. MaxTaskAttempts]

\* Releasing the lock of a row and deleting the row keep the types of the queue's columns.
LEMMA RowUpdates ==
  ASSUME TypeOK, NEW t \in Tasks, ReleaseLock(t) \/ DeleteTask(t)
  PROVE  RowsTyped'
<1> USE DEF TypeOK, RowsTyped, RowStates
<1>1. CASE ReleaseLock(t)
  BY <1>1 DEF ReleaseLock
<1>2. CASE DeleteTask(t)
  BY <1>2 DEF DeleteTask
<1>3. QED
  BY <1>1, <1>2

\* Every step keeps the variables in their types.
LEMMA TypeNext == TypeOK /\ JobInv /\ [Next]_vars => TypeOK'
<1> SUFFICES ASSUME TypeOK, JobInv, [Next]_vars PROVE TypeOK'
  OBVIOUS
<1>1. \A p \in Procs : pc[p] \notin {"idle", "repoll"} => job[p] \in Tasks
  BY DEF JobInv, TypeOK
<1>2. \A w \in Workers, t \in Tasks : MapUpdatesTyped(w, t)
  BY MapUpdates
<1>3. \A t \in Tasks : ReleaseLock(t) \/ DeleteTask(t) => RowsTyped'
  BY RowUpdates
<1>4. \A p \in Procs, e \in Errors : job[p] \in Tasks /\ Rejects(p, e) => BooksTyped'
  BY RejectsType
<1>5. ASSUME NEW w \in Workers, Dies(w), signals' = signals, faults' = faults,
             crashes' \in 0 .. MaxCrashes
      PROVE  TypeOK'
  BY <1>5, DiesType
<1>6. \A p \in Procs : p[1] \in Workers
  BY DEF Procs
<1> USE QueueAssumption DEF TypeOK, Drivers, RowStates, Modes, Errors, Steps, Holding,
                            rowVars, buildVars, mapVars, driverVars, faultVars, Queued
<1>7. ASSUME NEW t \in Tasks, Enqueue(t) PROVE TypeOK'
  BY <1>7, <1>1 DEF Enqueue
<1>8. ASSUME NEW t \in Tasks, LockExpires(t) PROVE TypeOK'
  BY <1>8, <1>1 DEF LockExpires
<1>9. ASSUME NEW w \in Workers, PollClaims(w) PROVE TypeOK'
  BY <1>9, <1>1 DEF PollClaims, ClaimNextTask, Idle, Procs
<1>10. ASSUME NEW w \in Workers, PollFindsNothing(w) PROVE TypeOK'
  BY <1>10, <1>1 DEF PollFindsNothing, Procs
<1>11. ASSUME NEW w \in Workers, NotifyClaims(w) PROVE TypeOK'
  BY <1>11, <1>1 DEF NotifyClaims, ClaimNextTask, Idle, Procs
<1>12. ASSUME NEW w \in Workers, NotifyFindsNothing(w) PROVE TypeOK'
  BY <1>12, <1>1 DEF NotifyFindsNothing
<1>13. ASSUME NEW p \in Procs, StartTask(p) PROVE TypeOK'
  BY <1>13, <1>1 DEF StartTask, Procs
<1>14. ASSUME NEW p \in Procs, RefuseTask(p) PROVE TypeOK'
  <2>1. job[p] \in Tasks /\ p[1] \in Workers
    BY <1>14, <1>1, <1>6 DEF RefuseTask
  <2>2. RowsTyped'
    BY <1>14, <1>3, <2>1 DEF RefuseTask
  <2>3. QED
    BY <1>14, <1>2, <2>1, <2>2 DEF RefuseTask, RowsTyped, MapUpdatesTyped
<1>15. ASSUME NEW p \in Procs, CheckBaseline(p) PROVE TypeOK'
  BY <1>15, <1>1 DEF CheckBaseline, Procs
<1>16. ASSUME NEW p \in Procs, StartBuild(p) PROVE TypeOK'
  BY <1>16, <1>1 DEF StartBuild, Procs
<1>17. ASSUME NEW p \in Procs, NEW e \in Errors \ {"dependency"}, WorkEnds(p, e) PROVE TypeOK'
  BY <1>17, <1>1 DEF WorkEnds, Procs
<1>18. ASSUME NEW p \in Procs, PoisonKills(p) PROVE TypeOK'
  BY <1>18, <1>5, <1>6 DEF PoisonKills
<1>19. ASSUME NEW p \in Procs, FinishTask(p) PROVE TypeOK'
  <2>1. job[p] \in Tasks /\ p[1] \in Workers
    BY <1>19, <1>1, <1>6 DEF FinishTask
  <2>2. RowsTyped'
    BY <1>19, <1>3, <2>1 DEF FinishTask
  <2>3. QED
    BY <1>19, <1>2, <2>1, <2>2 DEF FinishTask, RowsTyped, MapUpdatesTyped
<1>20. ASSUME NEW p \in Procs, FailTask(p) PROVE TypeOK'
  <2>1. job[p] \in Tasks /\ err[p] \in Errors /\ Rejects(p, err[p])
    BY <1>20, <1>1 DEF FailTask
  <2>2. BooksTyped'
    BY <1>4, <2>1
  <2>3. RowsTyped'
    BY <1>20, <1>3, <2>1 DEF FailTask
  <2>4. QED
    BY <1>20, <2>2, <2>3 DEF FailTask, BooksTyped, RowsTyped
<1>21. ASSUME NEW p \in Procs, GiveUpOnTask(p) PROVE TypeOK'
  BY <1>21, <1>1 DEF GiveUpOnTask, DeleteTask
<1>22. ASSUME NEW p \in Procs, GiveUpOnBuild(p) PROVE TypeOK'
  BY <1>22, <1>1 DEF GiveUpOnBuild
<1>23. ASSUME NEW p \in Procs, ClaimReplyLost(p) PROVE TypeOK'
  <2>1. p[1] \in Workers
    BY <1>6
  <2>2. QED
    BY <1>23, <2>1 DEF ClaimReplyLost
<1>24. ASSUME NEW p \in Procs, RefuseFails(p) PROVE TypeOK'
  <2>1. job[p] \in Tasks /\ p[1] \in Workers
    BY <1>24, <1>1, <1>6 DEF RefuseFails
  <2>2. MapUpdatesTyped(p[1], job[p])
    BY <1>2, <2>1
  <2>3. BooksTyped'
    <3> USE DEF BooksTyped, MapUpdatesTyped
    <3>1. CASE p[2] = "poll"
      <4>1. BacksOff(p) /\ current' = current /\ inFlight' = inFlight /\ err' = err
        BY <1>24, <3>1 DEF RefuseFails
      <4>2. \A s \in {"idle", "giveup"} : [pc EXCEPT ![p] = s] \in [Procs -> Steps]
        OBVIOUS
      <4>3. [job EXCEPT ![p] = NoTask] \in [Procs -> Tasks \cup {NoTask}]
        OBVIOUS
      <4>4. \/ pc' = [pc EXCEPT ![p] = "idle"] /\ job' = [job EXCEPT ![p] = NoTask]
            \/ pc' = [pc EXCEPT ![p] = "giveup"] /\ UNCHANGED job
        BY <4>1 DEF BacksOff
      <4>5. pc' \in [Procs -> Steps] /\ job' \in [Procs -> Tasks \cup {NoTask}]
        BY <4>2, <4>3, <4>4
      <4>6. /\ fails' \in [Workers -> [Tasks -> 0 .. MaxRetryCount]] /\ backing' \in [Workers -> SUBSET Tasks]
            /\ defers' \in [Workers -> [Tasks -> 0 .. MaxDeferCount]] /\ deferring' \in [Workers -> SUBSET Tasks]
        BY <2>2, <4>1 DEF BacksOff
      <4>7. QED
        BY <4>1, <4>5, <4>6
    <3>2. CASE p[2] # "poll"
      BY <1>24, <3>2 DEF RefuseFails
    <3>3. QED
      BY <3>1, <3>2
  <2>4. faults' \in 0 .. MaxFaults
    BY <1>24 DEF RefuseFails
  <2>5. QED
    BY <1>24, <2>3, <2>4 DEF RefuseFails, BooksTyped
<1>25. ASSUME NEW p \in Procs, GiveUpFails(p) PROVE TypeOK'
  <2>1. job[p] \in Tasks
    BY <1>25, <1>1 DEF GiveUpFails
  <2>2. disturbed' \in SUBSET Tasks
    BY <1>25, <2>1 DEF GiveUpFails
  <2>3. QED
    BY <1>25, <2>2 DEF GiveUpFails
<1>26. ASSUME NEW p \in Procs, StartFails(p) PROVE TypeOK'
  BY <1>26, <1>1 DEF StartFails
<1>27. ASSUME NEW p \in Procs, FinishFails(p) PROVE TypeOK'
  BY <1>27, <1>1 DEF FinishFails
<1>28. ASSUME NEW p \in Procs, FailTaskFails(p) PROVE TypeOK'
  <2>1. job[p] \in Tasks /\ "transient" \in Errors /\ Rejects(p, "transient")
    BY <1>28, <1>1 DEF FailTaskFails
  <2>2. BooksTyped'
    BY <1>4, <2>1
  <2>3. faults' \in 0 .. MaxFaults
    BY <1>28 DEF FailTaskFails
  <2>4. QED
    BY <1>28, <2>2, <2>3 DEF FailTaskFails, BooksTyped
<1>29. ASSUME NEW w \in Workers, NEW t \in Tasks, BackoffElapses(w, t) PROVE TypeOK'
  BY <1>29, <1>2 DEF BackoffElapses, MapUpdatesTyped
<1>30. ASSUME NEW w \in Workers, NEW t \in Tasks, DeferElapses(w, t) PROVE TypeOK'
  BY <1>30, <1>2 DEF DeferElapses, MapUpdatesTyped
<1>31. ASSUME NEW w \in Workers, HandleShutdownSignal(w) PROVE TypeOK'
  BY <1>31, <1>1 DEF HandleShutdownSignal
<1>32. ASSUME NEW w \in Workers, ShutdownReleases(w) PROVE TypeOK'
  <2>1. disturbed' \in SUBSET Tasks
    BY <1>32 DEF ShutdownReleases
  <2>2. faults' \in 0 .. MaxFaults
    BY <1>32, <1>1 DEF ShutdownReleases
  <2>3. RowsTyped'
    <3>1. CASE current[w] # NoTask /\ ReleaseLock(current[w])
      BY <1>3, <3>1
    <3>2. CASE UNCHANGED rowVars
      BY <3>2 DEF RowsTyped
    <3>3. QED
      BY <1>32, <3>1, <3>2 DEF ShutdownReleases
  <2>4. QED
    BY <1>32, <2>1, <2>2, <2>3 DEF ShutdownReleases, RowsTyped
<1>33. ASSUME NEW w \in Workers, ShutdownResets(w) PROVE TypeOK'
  <2>1. faults' \in 0 .. MaxFaults
    BY <1>33, <1>1 DEF ShutdownResets
  <2>2. QED
    BY <1>33, <1>1, <2>1 DEF ShutdownResets
<1>34. ASSUME NEW w \in Workers, ShutdownExits(w) PROVE TypeOK'
  BY <1>34, <1>5 DEF ShutdownExits
<1>35. ASSUME NEW w \in Workers, Crash(w) PROVE TypeOK'
  <2>1. crashes' \in 0 .. MaxCrashes
    BY <1>35 DEF Crash
  <2>2. QED
    BY <1>35, <1>5, <2>1 DEF Crash
<1>36. ASSUME NEW w \in Workers, Boot(w) PROVE TypeOK'
  BY <1>36, <1>1 DEF Boot
<1>37. ASSUME NEW w \in Workers, NEW t \in Tasks, ReclaimUnlocks(w, t) PROVE TypeOK'
  BY <1>37, <1>1 DEF ReclaimUnlocks, ReleaseLock, Procs
<1>38. ASSUME NEW w \in Workers, ReclaimRequeues(w) PROVE TypeOK'
  BY <1>38, <1>1 DEF ReclaimRequeues, Procs
<1>39. ASSUME NEW w \in Workers, NEW t \in Tasks, ReclaimFails(w, t) PROVE TypeOK'
  BY <1>39, <1>1 DEF ReclaimFails, Procs
<1>40. ASSUME NEW w \in Workers, ReclaimDeletes(w) PROVE TypeOK'
  BY <1>40, <1>1 DEF ReclaimDeletes, DeleteTask, Procs
<1>41. ASSUME NEW w \in Workers, BootEnds(w) PROVE TypeOK'
  BY <1>41, <1>1 DEF BootEnds, Procs
<1>42. CASE UNCHANGED vars
  BY <1>42 DEF vars
<1>43. QED
  BY <1>7, <1>8, <1>9, <1>10, <1>11, <1>12, <1>13, <1>14, <1>15, <1>16, <1>17,
    <1>18, <1>19, <1>20, <1>21, <1>22, <1>23, <1>24, <1>25, <1>26, <1>27,
    <1>28, <1>29, <1>30, <1>31, <1>32, <1>33, <1>34, <1>35, <1>36, <1>37,
    <1>38, <1>39, <1>40, <1>41, <1>42 DEF Next, Handler, Fault, Shutdown,
    Reclaim

\* What TypeOK says of the variables that the safety argument is about.
Facts ==
  /\ pc \in [Procs -> Steps] /\ job \in [Procs -> Tasks \cup {NoTask}]
  /\ err \in [Procs -> Errors] /\ "transient" \in Errors
  /\ row \in [Tasks -> RowStates] /\ by \in [Tasks -> Workers \cup {NoWorker}]
  /\ build \in [Tasks -> {"pending", "running", "closed"}]
  /\ owner \in [Tasks -> Workers \cup {NoWorker}]
  /\ mode \in [Workers -> Modes] /\ current \in [Workers -> Tasks \cup {NoTask}]
  /\ inFlight \in [Workers -> BOOLEAN]
  /\ orphans \in [Workers -> SUBSET Tasks] /\ disturbed \in SUBSET Tasks
  /\ NoTask \notin Tasks /\ NoWorker \notin Workers
  /\ \A w \in Workers, d \in Drivers : <<w, d>> \in Procs /\ <<w, d>>[1] = w /\ <<w, d>>[2] = d
  /\ \A p \in Procs : p[1] \in Workers /\ p[2] \in Drivers /\ p = <<p[1], p[2]>>

\* What the proofs below use of the types, as one fact.
LEMMA TypeFacts == ASSUME TypeOK PROVE Facts
  BY QueueAssumption DEF TypeOK, Facts, Procs, Errors

\* A driver takes a task with the claim and drops it when it is idle again.
LEMMA JobNext ==
  ASSUME TypeOK, JobInv, [Next]_vars
  PROVE  JobInv'
<1>1. /\ pc \in [Procs -> Steps] /\ job \in [Procs -> Tasks \cup {NoTask}]
      /\ orphans \in [Workers -> SUBSET Tasks] /\ NoTask \notin Tasks
      /\ \A w \in Workers, d \in Drivers : <<w, d>> \in Procs
  BY TypeFacts DEF Facts
<1> USE <1>1 DEF JobInv, Drivers, driverVars
<1>2. ASSUME NEW t \in Tasks, Enqueue(t) PROVE JobInv'
  BY <1>2 DEF Enqueue
<1>3. ASSUME NEW t \in Tasks, LockExpires(t) PROVE JobInv'
  BY <1>3 DEF LockExpires
<1>4. ASSUME NEW w \in Workers, PollClaims(w) PROVE JobInv'
  BY <1>4 DEF PollClaims, ClaimNextTask, Idle
<1>5. ASSUME NEW w \in Workers, PollFindsNothing(w) PROVE JobInv'
  BY <1>5 DEF PollFindsNothing
<1>6. ASSUME NEW w \in Workers, NotifyClaims(w) PROVE JobInv'
  BY <1>6 DEF NotifyClaims, ClaimNextTask, Idle
<1>7. ASSUME NEW w \in Workers, NotifyFindsNothing(w) PROVE JobInv'
  BY <1>7 DEF NotifyFindsNothing
<1>8. ASSUME NEW p \in Procs, StartTask(p) PROVE JobInv'
  BY <1>8 DEF StartTask
<1>9. ASSUME NEW p \in Procs, RefuseTask(p) PROVE JobInv'
  BY <1>9 DEF RefuseTask, ReleaseLock
<1>10. ASSUME NEW p \in Procs, CheckBaseline(p) PROVE JobInv'
  BY <1>10 DEF CheckBaseline
<1>11. ASSUME NEW p \in Procs, StartBuild(p) PROVE JobInv'
  BY <1>11 DEF StartBuild
<1>12. ASSUME NEW p \in Procs, NEW e \in Errors \ {"dependency"}, WorkEnds(p, e) PROVE JobInv'
  BY <1>12 DEF WorkEnds
<1>13. ASSUME NEW p \in Procs, PoisonKills(p) PROVE JobInv'
  BY <1>13 DEF PoisonKills, Dies
<1>14. ASSUME NEW p \in Procs, FinishTask(p) PROVE JobInv'
  BY <1>14 DEF FinishTask, DeleteTask
<1>15. ASSUME NEW p \in Procs, FailTask(p) PROVE JobInv'
  BY <1>15 DEF FailTask, DeleteTask, ReleaseLock, Rejects, Defers, BacksOff
<1>16. ASSUME NEW p \in Procs, GiveUpOnTask(p) PROVE JobInv'
  BY <1>16 DEF GiveUpOnTask, DeleteTask
<1>17. ASSUME NEW p \in Procs, GiveUpOnBuild(p) PROVE JobInv'
  BY <1>17 DEF GiveUpOnBuild
<1>18. ASSUME NEW p \in Procs, ClaimReplyLost(p) PROVE JobInv'
  BY <1>18 DEF ClaimReplyLost
<1>19. ASSUME NEW p \in Procs, RefuseFails(p) PROVE JobInv'
  BY <1>19 DEF RefuseFails, BacksOff
<1>20. ASSUME NEW p \in Procs, GiveUpFails(p) PROVE JobInv'
  BY <1>20 DEF GiveUpFails
<1>21. ASSUME NEW p \in Procs, StartFails(p) PROVE JobInv'
  BY <1>21 DEF StartFails
<1>22. ASSUME NEW p \in Procs, FinishFails(p) PROVE JobInv'
  BY <1>22 DEF FinishFails
<1>23. ASSUME NEW p \in Procs, FailTaskFails(p) PROVE JobInv'
  BY <1>23 DEF FailTaskFails, Rejects, Defers, BacksOff
<1>24. ASSUME NEW w \in Workers, NEW t \in Tasks, BackoffElapses(w, t) PROVE JobInv'
  BY <1>24 DEF BackoffElapses
<1>25. ASSUME NEW w \in Workers, NEW t \in Tasks, DeferElapses(w, t) PROVE JobInv'
  BY <1>25 DEF DeferElapses
<1>26. ASSUME NEW w \in Workers, HandleShutdownSignal(w) PROVE JobInv'
  BY <1>26 DEF HandleShutdownSignal
<1>27. ASSUME NEW w \in Workers, ShutdownReleases(w) PROVE JobInv'
  BY <1>27 DEF ShutdownReleases, ReleaseLock
<1>28. ASSUME NEW w \in Workers, ShutdownResets(w) PROVE JobInv'
  BY <1>28 DEF ShutdownResets
<1>29. ASSUME NEW w \in Workers, ShutdownExits(w) PROVE JobInv'
  BY <1>29 DEF ShutdownExits, Dies
<1>30. ASSUME NEW w \in Workers, Crash(w) PROVE JobInv'
  BY <1>30 DEF Crash, Dies
<1>31. ASSUME NEW w \in Workers, Boot(w) PROVE JobInv'
  BY <1>31 DEF Boot
<1>32. ASSUME NEW w \in Workers, NEW t \in Tasks, ReclaimUnlocks(w, t) PROVE JobInv'
  BY <1>32 DEF ReclaimUnlocks, ReleaseLock
<1>33. ASSUME NEW w \in Workers, ReclaimRequeues(w) PROVE JobInv'
  BY <1>33 DEF ReclaimRequeues
<1>34. ASSUME NEW w \in Workers, NEW t \in Tasks, ReclaimFails(w, t) PROVE JobInv'
  BY <1>34 DEF ReclaimFails
<1>35. ASSUME NEW w \in Workers, ReclaimDeletes(w) PROVE JobInv'
  BY <1>35 DEF ReclaimDeletes, DeleteTask
<1>36. ASSUME NEW w \in Workers, BootEnds(w) PROVE JobInv'
  BY <1>36 DEF BootEnds
<1>37. CASE UNCHANGED vars
  BY <1>37 DEF vars
<1>38. QED
  BY <1>2, <1>3, <1>4, <1>5, <1>6, <1>7, <1>8, <1>9, <1>10, <1>11, <1>12,
    <1>13, <1>14, <1>15, <1>16, <1>17, <1>18, <1>19, <1>20, <1>21, <1>22,
    <1>23, <1>24, <1>25, <1>26, <1>27, <1>28, <1>29, <1>30, <1>31, <1>32,
    <1>33, <1>34, <1>35, <1>36, <1>37 DEF Next, Handler, Fault, Shutdown,
    Reclaim

\* Every driver keeps to its own steps.
LEMMA DriverNext ==
  ASSUME TypeOK, DriverInv, [Next]_vars
  PROVE  DriverInv'
<1>1. /\ pc \in [Procs -> Steps] /\ mode \in [Workers -> Modes]
      /\ orphans \in [Workers -> SUBSET Tasks]
      /\ \A w \in Workers, d \in Drivers : <<w, d>> \in Procs /\ <<w, d>>[1] = w /\ <<w, d>>[2] = d
      /\ \A p \in Procs : p[1] \in Workers /\ p[2] \in Drivers /\ p = <<p[1], p[2]>>
  BY TypeFacts DEF Facts
<1> USE <1>1 DEF DriverInv, Drivers, driverVars
<1>2. ASSUME NEW t \in Tasks, Enqueue(t) PROVE DriverInv'
  BY <1>2 DEF Enqueue
<1>3. ASSUME NEW t \in Tasks, LockExpires(t) PROVE DriverInv'
  BY <1>3 DEF LockExpires
<1>4. ASSUME NEW w \in Workers, PollClaims(w) PROVE DriverInv'
  BY <1>4 DEF PollClaims, ClaimNextTask, Idle
<1>5. ASSUME NEW w \in Workers, PollFindsNothing(w) PROVE DriverInv'
  BY <1>5 DEF PollFindsNothing
<1>6. ASSUME NEW w \in Workers, NotifyClaims(w) PROVE DriverInv'
  BY <1>6 DEF NotifyClaims, ClaimNextTask, Idle
<1>7. ASSUME NEW w \in Workers, NotifyFindsNothing(w) PROVE DriverInv'
  BY <1>7 DEF NotifyFindsNothing
<1>8. ASSUME NEW p \in Procs, StartTask(p) PROVE DriverInv'
  <2>1. p[2] # "boot" /\ mode[p[1]] \notin {"down", "boot"}
    BY <1>8 DEF StartTask
  <2>2. QED
    BY <1>8, <2>1 DEF StartTask
<1>9. ASSUME NEW p \in Procs, RefuseTask(p) PROVE DriverInv'
  BY <1>9 DEF RefuseTask, ReleaseLock
<1>10. ASSUME NEW p \in Procs, CheckBaseline(p) PROVE DriverInv'
  <2>1. p[2] # "boot" /\ mode[p[1]] \notin {"down", "boot"}
    BY <1>10 DEF CheckBaseline
  <2>2. QED
    BY <1>10, <2>1 DEF CheckBaseline
<1>11. ASSUME NEW p \in Procs, StartBuild(p) PROVE DriverInv'
  <2>1. p[2] # "boot" /\ mode[p[1]] \notin {"down", "boot"}
    BY <1>11 DEF StartBuild
  <2>2. QED
    BY <1>11, <2>1 DEF StartBuild
<1>12. ASSUME NEW p \in Procs, NEW e \in Errors \ {"dependency"}, WorkEnds(p, e) PROVE DriverInv'
  <2>1. p[2] # "boot" /\ mode[p[1]] \notin {"down", "boot"}
    BY <1>12 DEF WorkEnds
  <2>2. QED
    BY <1>12, <2>1 DEF WorkEnds
<1>13. ASSUME NEW p \in Procs, PoisonKills(p) PROVE DriverInv'
  BY <1>13 DEF PoisonKills, Dies
<1>14. ASSUME NEW p \in Procs, FinishTask(p) PROVE DriverInv'
  BY <1>14 DEF FinishTask, DeleteTask
<1>15. ASSUME NEW p \in Procs, FailTask(p) PROVE DriverInv'
  BY <1>15 DEF FailTask, DeleteTask, ReleaseLock, Rejects, Defers, BacksOff
<1>16. ASSUME NEW p \in Procs, GiveUpOnTask(p) PROVE DriverInv'
  BY <1>16 DEF GiveUpOnTask, DeleteTask
<1>17. ASSUME NEW p \in Procs, GiveUpOnBuild(p) PROVE DriverInv'
  BY <1>17 DEF GiveUpOnBuild
<1>18. ASSUME NEW p \in Procs, ClaimReplyLost(p) PROVE DriverInv'
  BY <1>18 DEF ClaimReplyLost
<1>19. ASSUME NEW p \in Procs, RefuseFails(p) PROVE DriverInv'
  BY <1>19 DEF RefuseFails, BacksOff
<1>20. ASSUME NEW p \in Procs, GiveUpFails(p) PROVE DriverInv'
  BY <1>20 DEF GiveUpFails
<1>21. ASSUME NEW p \in Procs, StartFails(p) PROVE DriverInv'
  <2>1. p[2] # "boot" /\ mode[p[1]] \notin {"down", "boot"}
    BY <1>21 DEF StartFails
  <2>2. QED
    BY <1>21, <2>1 DEF StartFails
<1>22. ASSUME NEW p \in Procs, FinishFails(p) PROVE DriverInv'
  <2>1. p[2] # "boot" /\ mode[p[1]] \notin {"down", "boot"}
    BY <1>22 DEF FinishFails
  <2>2. QED
    BY <1>22, <2>1 DEF FinishFails
<1>23. ASSUME NEW p \in Procs, FailTaskFails(p) PROVE DriverInv'
  BY <1>23 DEF FailTaskFails, Rejects, Defers, BacksOff
<1>24. ASSUME NEW w \in Workers, NEW t \in Tasks, BackoffElapses(w, t) PROVE DriverInv'
  BY <1>24 DEF BackoffElapses
<1>25. ASSUME NEW w \in Workers, NEW t \in Tasks, DeferElapses(w, t) PROVE DriverInv'
  BY <1>25 DEF DeferElapses
<1>26. ASSUME NEW w \in Workers, HandleShutdownSignal(w) PROVE DriverInv'
  BY <1>26 DEF HandleShutdownSignal
<1>27. ASSUME NEW w \in Workers, ShutdownReleases(w) PROVE DriverInv'
  BY <1>27 DEF ShutdownReleases, ReleaseLock
<1>28. ASSUME NEW w \in Workers, ShutdownResets(w) PROVE DriverInv'
  BY <1>28 DEF ShutdownResets
<1>29. ASSUME NEW w \in Workers, ShutdownExits(w) PROVE DriverInv'
  BY <1>29 DEF ShutdownExits, Dies
<1>30. ASSUME NEW w \in Workers, Crash(w) PROVE DriverInv'
  BY <1>30 DEF Crash, Dies
<1>31. ASSUME NEW w \in Workers, Boot(w) PROVE DriverInv'
  BY <1>31 DEF Boot
<1>32. ASSUME NEW w \in Workers, NEW t \in Tasks, ReclaimUnlocks(w, t) PROVE DriverInv'
  BY <1>32 DEF ReclaimUnlocks, ReleaseLock
<1>33. ASSUME NEW w \in Workers, ReclaimRequeues(w) PROVE DriverInv'
  BY <1>33 DEF ReclaimRequeues
<1>34. ASSUME NEW w \in Workers, NEW t \in Tasks, ReclaimFails(w, t) PROVE DriverInv'
  BY <1>34 DEF ReclaimFails
<1>35. ASSUME NEW w \in Workers, ReclaimDeletes(w) PROVE DriverInv'
  BY <1>35 DEF ReclaimDeletes, DeleteTask
<1>36. ASSUME NEW w \in Workers, BootEnds(w) PROVE DriverInv'
  BY <1>36 DEF BootEnds
<1>37. CASE UNCHANGED vars
  BY <1>37 DEF vars
<1>38. QED
  BY <1>2, <1>3, <1>4, <1>5, <1>6, <1>7, <1>8, <1>9, <1>10, <1>11, <1>12,
    <1>13, <1>14, <1>15, <1>16, <1>17, <1>18, <1>19, <1>20, <1>21, <1>22,
    <1>23, <1>24, <1>25, <1>26, <1>27, <1>28, <1>29, <1>30, <1>31, <1>32,
    <1>33, <1>34, <1>35, <1>36, <1>37 DEF Next, Handler, Fault, Shutdown,
    Reclaim

\* A handler that rejects lets go of its task, unless it goes on to give it up.
RejectsShape(p) ==
  /\ \A q \in Procs : q # p => pc'[q] = pc[q] /\ job'[q] = job[q] /\ err'[q] = err[q]
  /\ pc'[p] \in {"idle", "repoll", "giveup"}
  /\ p[2] # "poll" => pc'[p] = "idle"
  /\ pc'[p] = "giveup" => job'[p] = job[p]
  /\ pc'[p] # "giveup" => job'[p] = NoTask
  /\ current' = [current EXCEPT ![p[1]] = NoTask]
  /\ inFlight' = inFlight

\* How a failed handler steps, whichever of retry, deferral and rejection it comes to.
LEMMA RejectsStep ==
  ASSUME TypeOK, NEW p \in Procs, NEW e, Rejects(p, e)
  PROVE  RejectsShape(p)
<1>1. pc \in [Procs -> Steps] /\ job \in [Procs -> Tasks \cup {NoTask}] /\ err \in [Procs -> Errors]
  BY DEF TypeOK
<1>2. QED
  BY <1>1 DEF Rejects, Defers, BacksOff, RejectsShape

\* While a driver does something else, the claims of its worker stay as they are.
QuietStep(p) ==
  /\ \A q \in Procs : q # p => pc'[q] = pc[q] /\ job'[q] = job[q]
  /\ pc[p] \notin Running /\ pc'[p] \notin Holding
  /\ current' = current /\ inFlight' = inFlight

\* Such a step leaves every claim of every worker accounted for.
LEMMA QuietFlight ==
  ASSUME FlightInv, NEW p \in Procs, QuietStep(p)
  PROVE  FlightInv'
<1> USE DEF FlightInv, QuietStep, Running, Holding
<1>1. ASSUME NEW q \in Procs
      PROVE  /\ pc'[q] \in Running => current'[q[1]] = job'[q]
             /\ pc'[q] = "reply" => inFlight'[q[1]]
  <2>1. CASE q = p
    BY <2>1
  <2>2. CASE q # p
    BY <2>2
  <2>3. QED
    BY <2>1, <2>2
<1>2. ASSUME NEW w \in Workers, current'[w] # NoTask
      PROVE  \E q \in Procs : q[1] = w /\ pc'[q] \in Running
  <2>1. PICK q \in Procs : q[1] = w /\ pc[q] \in Running
    BY <1>2
  <2>2. q # p
    BY <2>1
  <2>3. QED
    BY <2>1, <2>2
<1>3. QED
  BY <1>1, <1>2

\* currentTaskId and claimInFlight keep naming the one driver that holds a claim.
LEMMA FlightNext ==
  ASSUME TypeOK, JobInv, DriverInv, FlightInv, SingleFlight, [Next]_vars
  PROVE  FlightInv'
<1>1. /\ pc \in [Procs -> Steps] /\ job \in [Procs -> Tasks \cup {NoTask}]
      /\ mode \in [Workers -> Modes] /\ current \in [Workers -> Tasks \cup {NoTask}]
      /\ inFlight \in [Workers -> BOOLEAN] /\ NoTask \notin Tasks
      /\ \A w \in Workers, d \in Drivers : <<w, d>> \in Procs /\ <<w, d>>[1] = w /\ <<w, d>>[2] = d
      /\ \A p \in Procs : p[1] \in Workers /\ p[2] \in Drivers /\ p = <<p[1], p[2]>>
  BY TypeFacts DEF Facts
<1>2. \A p \in Procs : QuietStep(p) => FlightInv'
  BY QuietFlight
<1>3. \A p \in Procs, e \in Errors : Rejects(p, e) => RejectsShape(p)
  BY RejectsStep
<1>4. err \in [Procs -> Errors] /\ "transient" \in Errors
  BY TypeFacts DEF Facts
<1> USE <1>1 DEF FlightInv, SingleFlight, JobInv, DriverInv, Drivers, Holding, Running,
                 driverVars, ShuttingDown
<1>5. ASSUME NEW t \in Tasks, Enqueue(t) PROVE FlightInv'
  BY <1>5 DEF Enqueue
<1>6. ASSUME NEW t \in Tasks, LockExpires(t) PROVE FlightInv'
  BY <1>6 DEF LockExpires
<1>7. ASSUME NEW w \in Workers, PollClaims(w) PROVE FlightInv'
  BY <1>7 DEF PollClaims, ClaimNextTask, Idle
<1>8. ASSUME NEW w \in Workers, PollFindsNothing(w) PROVE FlightInv'
  <2>1. <<w, "poll">> \in Procs
    OBVIOUS
  <2>2. QuietStep(<<w, "poll">>)
    BY <1>8 DEF PollFindsNothing, QuietStep
  <2>3. QED
    BY <1>2, <2>1, <2>2
<1>9. ASSUME NEW w \in Workers, NotifyClaims(w) PROVE FlightInv'
  BY <1>9 DEF NotifyClaims, ClaimNextTask, Idle
<1>10. ASSUME NEW w \in Workers, NotifyFindsNothing(w) PROVE FlightInv'
  BY <1>10 DEF NotifyFindsNothing
<1>11. ASSUME NEW p \in Procs, StartTask(p) PROVE FlightInv'
  BY <1>11 DEF StartTask
<1>12. ASSUME NEW p \in Procs, RefuseTask(p) PROVE FlightInv'
  <2>1. p \in Procs
    OBVIOUS
  <2>2. QuietStep(p)
    BY <1>12 DEF RefuseTask, ReleaseLock, QuietStep
  <2>3. QED
    BY <1>2, <2>1, <2>2
<1>13. ASSUME NEW p \in Procs, CheckBaseline(p) PROVE FlightInv'
  BY <1>13 DEF CheckBaseline
<1>14. ASSUME NEW p \in Procs, StartBuild(p) PROVE FlightInv'
  BY <1>14 DEF StartBuild
<1>15. ASSUME NEW p \in Procs, NEW e \in Errors \ {"dependency"}, WorkEnds(p, e) PROVE FlightInv'
  BY <1>15 DEF WorkEnds
<1>16. ASSUME NEW p \in Procs, PoisonKills(p) PROVE FlightInv'
  BY <1>16 DEF PoisonKills, Dies
<1>17. ASSUME NEW p \in Procs, FinishTask(p) PROVE FlightInv'
  BY <1>17 DEF FinishTask, DeleteTask
<1>18. ASSUME NEW p \in Procs, FailTask(p) PROVE FlightInv'
  <2>1. RejectsShape(p) /\ pc[p] = "failed"
    BY <1>18, <1>3, <1>4 DEF FailTask
  <2>2. \A q \in Procs : q[1] = p[1] /\ q # p => pc[q] \notin Holding
    BY <2>1
  <2>3. QED
    BY <2>1, <2>2 DEF RejectsShape
<1>19. ASSUME NEW p \in Procs, GiveUpOnTask(p) PROVE FlightInv'
  <2>1. p \in Procs
    OBVIOUS
  <2>2. QuietStep(p)
    BY <1>19 DEF GiveUpOnTask, DeleteTask, QuietStep
  <2>3. QED
    BY <1>2, <2>1, <2>2
<1>20. ASSUME NEW p \in Procs, GiveUpOnBuild(p) PROVE FlightInv'
  <2>1. p \in Procs
    OBVIOUS
  <2>2. QuietStep(p)
    BY <1>20 DEF GiveUpOnBuild, QuietStep
  <2>3. QED
    BY <1>2, <2>1, <2>2
<1>21. ASSUME NEW p \in Procs, ClaimReplyLost(p) PROVE FlightInv'
  <2>1. \A q \in Procs : q[1] = p[1] /\ q # p => pc[q] \notin Holding
    BY <1>21 DEF ClaimReplyLost
  <2>2. /\ \A q \in Procs : q # p => pc'[q] = pc[q] /\ job'[q] = job[q]
        /\ pc[p] \notin Running /\ pc'[p] = "idle" /\ current' = current
        /\ \A v \in Workers : v # p[1] => inFlight'[v] = inFlight[v]
    BY <1>21 DEF ClaimReplyLost
  <2>3. ASSUME NEW q \in Procs
        PROVE  /\ pc'[q] \in Running => current'[q[1]] = job'[q]
               /\ pc'[q] = "reply" => inFlight'[q[1]]
    <3>1. CASE q = p
      BY <2>2, <3>1
    <3>2. CASE q # p
      BY <2>1, <2>2, <3>2
    <3>3. QED
      BY <3>1, <3>2
  <2>4. ASSUME NEW v \in Workers, current'[v] # NoTask
        PROVE  \E q \in Procs : q[1] = v /\ pc'[q] \in Running
    <3>1. PICK q \in Procs : q[1] = v /\ pc[q] \in Running
      BY <2>2, <2>4
    <3>2. q # p
      BY <2>2, <3>1
    <3>3. QED
      BY <2>2, <3>1, <3>2
  <2>5. QED
    BY <2>3, <2>4
<1>22. ASSUME NEW p \in Procs, RefuseFails(p) PROVE FlightInv'
  <2>1. /\ \A q \in Procs : q # p => pc'[q] = pc[q] /\ job'[q] = job[q]
        /\ pc[p] = "refuse" /\ pc'[p] \in {"idle", "giveup"}
        /\ current' = current /\ inFlight' = inFlight /\ mode' = mode
    <3>1. CASE p[2] = "poll"
      BY <1>22, <3>1 DEF RefuseFails, BacksOff
    <3>2. CASE p[2] # "poll"
      BY <1>22, <3>2 DEF RefuseFails
    <3>3. QED
      BY <3>1, <3>2
  <2>2. QuietStep(p)
    BY <2>1 DEF QuietStep
  <2>3. QED
    BY <1>2, <2>2
<1>23. ASSUME NEW p \in Procs, GiveUpFails(p) PROVE FlightInv'
  BY <1>23 DEF GiveUpFails
<1>24. ASSUME NEW p \in Procs, StartFails(p) PROVE FlightInv'
  BY <1>24 DEF StartFails
<1>25. ASSUME NEW p \in Procs, FinishFails(p) PROVE FlightInv'
  BY <1>25 DEF FinishFails
<1>26. ASSUME NEW p \in Procs, FailTaskFails(p) PROVE FlightInv'
  <2>1. RejectsShape(p) /\ pc[p] = "failed"
    BY <1>26, <1>3, <1>4 DEF FailTaskFails
  <2>2. \A q \in Procs : q[1] = p[1] /\ q # p => pc[q] \notin Holding
    BY <2>1
  <2>3. QED
    BY <2>1, <2>2 DEF RejectsShape
<1>27. ASSUME NEW w \in Workers, NEW t \in Tasks, BackoffElapses(w, t) PROVE FlightInv'
  BY <1>27 DEF BackoffElapses
<1>28. ASSUME NEW w \in Workers, NEW t \in Tasks, DeferElapses(w, t) PROVE FlightInv'
  BY <1>28 DEF DeferElapses
<1>29. ASSUME NEW w \in Workers, HandleShutdownSignal(w) PROVE FlightInv'
  BY <1>29 DEF HandleShutdownSignal
<1>30. ASSUME NEW w \in Workers, ShutdownReleases(w) PROVE FlightInv'
  BY <1>30 DEF ShutdownReleases, ReleaseLock
<1>31. ASSUME NEW w \in Workers, ShutdownResets(w) PROVE FlightInv'
  BY <1>31 DEF ShutdownResets
<1>32. ASSUME NEW w \in Workers, ShutdownExits(w) PROVE FlightInv'
  BY <1>32 DEF ShutdownExits, Dies
<1>33. ASSUME NEW w \in Workers, Crash(w) PROVE FlightInv'
  BY <1>33 DEF Crash, Dies
<1>34. ASSUME NEW w \in Workers, Boot(w) PROVE FlightInv'
  BY <1>34 DEF Boot
<1>35. ASSUME NEW w \in Workers, NEW t \in Tasks, ReclaimUnlocks(w, t) PROVE FlightInv'
  <2>1. <<w, "boot">> \in Procs
    OBVIOUS
  <2>2. QuietStep(<<w, "boot">>)
    BY <1>35 DEF ReclaimUnlocks, ReleaseLock, QuietStep
  <2>3. QED
    BY <1>2, <2>1, <2>2
<1>36. ASSUME NEW w \in Workers, ReclaimRequeues(w) PROVE FlightInv'
  <2>1. <<w, "boot">> \in Procs
    OBVIOUS
  <2>2. QuietStep(<<w, "boot">>)
    BY <1>36 DEF ReclaimRequeues, QuietStep
  <2>3. QED
    BY <1>2, <2>1, <2>2
<1>37. ASSUME NEW w \in Workers, NEW t \in Tasks, ReclaimFails(w, t) PROVE FlightInv'
  <2>1. <<w, "boot">> \in Procs
    OBVIOUS
  <2>2. QuietStep(<<w, "boot">>)
    BY <1>37 DEF ReclaimFails, QuietStep
  <2>3. QED
    BY <1>2, <2>1, <2>2
<1>38. ASSUME NEW w \in Workers, ReclaimDeletes(w) PROVE FlightInv'
  <2>1. <<w, "boot">> \in Procs
    OBVIOUS
  <2>2. QuietStep(<<w, "boot">>)
    BY <1>38 DEF ReclaimDeletes, DeleteTask, QuietStep
  <2>3. QED
    BY <1>2, <2>1, <2>2
<1>39. ASSUME NEW w \in Workers, BootEnds(w) PROVE FlightInv'
  <2>1. pc[<<w, "boot">>] \notin Running /\ <<w, "boot">> \in Procs
    OBVIOUS
  <2>2. QuietStep(<<w, "boot">>)
    BY <1>39, <2>1 DEF BootEnds, QuietStep
  <2>3. QED
    BY <1>2, <2>1, <2>2
<1>40. CASE UNCHANGED vars
  BY <1>40 DEF vars
<1>41. QED
  BY <1>5, <1>6, <1>7, <1>8, <1>9, <1>10, <1>11, <1>12, <1>13, <1>14, <1>15,
    <1>16, <1>17, <1>18, <1>19, <1>20, <1>21, <1>22, <1>23, <1>24, <1>25,
    <1>26, <1>27, <1>28, <1>29, <1>30, <1>31, <1>32, <1>33, <1>34, <1>35,
    <1>36, <1>37, <1>38, <1>39, <1>40 DEF Next, Handler, Fault, Shutdown,
    Reclaim

\* A worker never holds two claims.
LEMMA SingleFlightNext ==
  ASSUME TypeOK, JobInv, DriverInv, FlightInv, SingleFlight, [Next]_vars
  PROVE  SingleFlight'
<1>1. /\ pc \in [Procs -> Steps] /\ job \in [Procs -> Tasks \cup {NoTask}]
      /\ mode \in [Workers -> Modes] /\ current \in [Workers -> Tasks \cup {NoTask}]
      /\ inFlight \in [Workers -> BOOLEAN] /\ NoTask \notin Tasks
      /\ \A w \in Workers, d \in Drivers : <<w, d>> \in Procs /\ <<w, d>>[1] = w /\ <<w, d>>[2] = d
      /\ \A p \in Procs : p[1] \in Workers /\ p[2] \in Drivers /\ p = <<p[1], p[2]>>
  BY TypeFacts DEF Facts
<1>2. \A p \in Procs, e \in Errors : Rejects(p, e) => RejectsShape(p)
  BY RejectsStep
<1>3. err \in [Procs -> Errors] /\ "transient" \in Errors
  BY TypeFacts DEF Facts
<1> USE <1>1 DEF FlightInv, SingleFlight, JobInv, DriverInv, Drivers, Holding, Running,
                 driverVars, ShuttingDown
<1>4. ASSUME NEW t \in Tasks, Enqueue(t) PROVE SingleFlight'
  BY <1>4 DEF Enqueue
<1>5. ASSUME NEW t \in Tasks, LockExpires(t) PROVE SingleFlight'
  BY <1>5 DEF LockExpires
<1>6. ASSUME NEW w \in Workers, PollClaims(w) PROVE SingleFlight'
  <2>1. Idle(w) /\ \E t \in Tasks : ClaimNextTask(w, "poll", t)
    BY <1>6 DEF PollClaims
  <2>2. \A q \in Procs : q[1] = w => pc[q] \notin Holding
    BY <2>1 DEF Idle
  <2>3. pc' = [pc EXCEPT ![<<w, "poll">>] = "reply"] /\ mode' = mode
    BY <2>1 DEF ClaimNextTask
  <2>4. QED
    BY <2>2, <2>3
<1>7. ASSUME NEW w \in Workers, PollFindsNothing(w) PROVE SingleFlight'
  BY <1>7 DEF PollFindsNothing
<1>8. ASSUME NEW w \in Workers, NotifyClaims(w) PROVE SingleFlight'
  <2>1. Idle(w) /\ \E t \in Tasks : ClaimNextTask(w, "notify", t)
    BY <1>8 DEF NotifyClaims
  <2>2. \A q \in Procs : q[1] = w => pc[q] \notin Holding
    BY <2>1 DEF Idle
  <2>3. pc' = [pc EXCEPT ![<<w, "notify">>] = "reply"] /\ mode' = mode
    BY <2>1 DEF ClaimNextTask
  <2>4. QED
    BY <2>2, <2>3
<1>9. ASSUME NEW w \in Workers, NotifyFindsNothing(w) PROVE SingleFlight'
  BY <1>9 DEF NotifyFindsNothing
<1>10. ASSUME NEW p \in Procs, StartTask(p) PROVE SingleFlight'
  <2>1. current[p[1]] = NoTask
    BY <1>10 DEF StartTask
  <2>2. pc' = [pc EXCEPT ![p] = IF ShuttingDown(p[1]) THEN "refuse" ELSE "gate"] /\ mode' = mode
    BY <1>10, <2>1 DEF StartTask
  <2>3. QED
    BY <1>10, <2>2 DEF StartTask
<1>11. ASSUME NEW p \in Procs, RefuseTask(p) PROVE SingleFlight'
  BY <1>11 DEF RefuseTask, ReleaseLock
<1>12. ASSUME NEW p \in Procs, CheckBaseline(p) PROVE SingleFlight'
  BY <1>12 DEF CheckBaseline
<1>13. ASSUME NEW p \in Procs, StartBuild(p) PROVE SingleFlight'
  BY <1>13 DEF StartBuild
<1>14. ASSUME NEW p \in Procs, NEW e \in Errors \ {"dependency"}, WorkEnds(p, e) PROVE SingleFlight'
  BY <1>14 DEF WorkEnds
<1>15. ASSUME NEW p \in Procs, PoisonKills(p) PROVE SingleFlight'
  BY <1>15 DEF PoisonKills, Dies
<1>16. ASSUME NEW p \in Procs, FinishTask(p) PROVE SingleFlight'
  BY <1>16 DEF FinishTask, DeleteTask
<1>17. ASSUME NEW p \in Procs, FailTask(p) PROVE SingleFlight'
  <2>1. RejectsShape(p) /\ pc[p] = "failed"
    BY <1>17, <1>2, <1>3 DEF FailTask
  <2>2. \A q \in Procs : q[1] = p[1] /\ q # p => pc[q] \notin Holding
    BY <2>1
  <2>3. QED
    BY <1>17, <2>1, <2>2 DEF RejectsShape, FailTask
<1>18. ASSUME NEW p \in Procs, GiveUpOnTask(p) PROVE SingleFlight'
  BY <1>18 DEF GiveUpOnTask, DeleteTask
<1>19. ASSUME NEW p \in Procs, GiveUpOnBuild(p) PROVE SingleFlight'
  BY <1>19 DEF GiveUpOnBuild
<1>20. ASSUME NEW p \in Procs, ClaimReplyLost(p) PROVE SingleFlight'
  BY <1>20 DEF ClaimReplyLost
<1>21. ASSUME NEW p \in Procs, RefuseFails(p) PROVE SingleFlight'
  BY <1>21 DEF RefuseFails, BacksOff
<1>22. ASSUME NEW p \in Procs, GiveUpFails(p) PROVE SingleFlight'
  BY <1>22 DEF GiveUpFails
<1>23. ASSUME NEW p \in Procs, StartFails(p) PROVE SingleFlight'
  BY <1>23 DEF StartFails
<1>24. ASSUME NEW p \in Procs, FinishFails(p) PROVE SingleFlight'
  BY <1>24 DEF FinishFails
<1>25. ASSUME NEW p \in Procs, FailTaskFails(p) PROVE SingleFlight'
  <2>1. RejectsShape(p) /\ pc[p] = "failed"
    BY <1>25, <1>2, <1>3 DEF FailTaskFails
  <2>2. \A q \in Procs : q[1] = p[1] /\ q # p => pc[q] \notin Holding
    BY <2>1
  <2>3. QED
    BY <1>25, <2>1, <2>2 DEF RejectsShape, FailTaskFails
<1>26. ASSUME NEW w \in Workers, NEW t \in Tasks, BackoffElapses(w, t) PROVE SingleFlight'
  BY <1>26 DEF BackoffElapses
<1>27. ASSUME NEW w \in Workers, NEW t \in Tasks, DeferElapses(w, t) PROVE SingleFlight'
  BY <1>27 DEF DeferElapses
<1>28. ASSUME NEW w \in Workers, HandleShutdownSignal(w) PROVE SingleFlight'
  BY <1>28 DEF HandleShutdownSignal
<1>29. ASSUME NEW w \in Workers, ShutdownReleases(w) PROVE SingleFlight'
  BY <1>29 DEF ShutdownReleases, ReleaseLock
<1>30. ASSUME NEW w \in Workers, ShutdownResets(w) PROVE SingleFlight'
  BY <1>30 DEF ShutdownResets
<1>31. ASSUME NEW w \in Workers, ShutdownExits(w) PROVE SingleFlight'
  BY <1>31 DEF ShutdownExits, Dies
<1>32. ASSUME NEW w \in Workers, Crash(w) PROVE SingleFlight'
  BY <1>32 DEF Crash, Dies
<1>33. ASSUME NEW w \in Workers, Boot(w) PROVE SingleFlight'
  BY <1>33 DEF Boot
<1>34. ASSUME NEW w \in Workers, NEW t \in Tasks, ReclaimUnlocks(w, t) PROVE SingleFlight'
  BY <1>34 DEF ReclaimUnlocks, ReleaseLock
<1>35. ASSUME NEW w \in Workers, ReclaimRequeues(w) PROVE SingleFlight'
  BY <1>35 DEF ReclaimRequeues
<1>36. ASSUME NEW w \in Workers, NEW t \in Tasks, ReclaimFails(w, t) PROVE SingleFlight'
  BY <1>36 DEF ReclaimFails
<1>37. ASSUME NEW w \in Workers, ReclaimDeletes(w) PROVE SingleFlight'
  BY <1>37 DEF ReclaimDeletes, DeleteTask
<1>38. ASSUME NEW w \in Workers, BootEnds(w) PROVE SingleFlight'
  BY <1>38 DEF BootEnds
<1>39. CASE UNCHANGED vars
  BY <1>39 DEF vars
<1>40. QED
  BY <1>4, <1>5, <1>6, <1>7, <1>8, <1>9, <1>10, <1>11, <1>12, <1>13, <1>14,
    <1>15, <1>16, <1>17, <1>18, <1>19, <1>20, <1>21, <1>22, <1>23, <1>24,
    <1>25, <1>26, <1>27, <1>28, <1>29, <1>30, <1>31, <1>32, <1>33, <1>34,
    <1>35, <1>36, <1>37, <1>38, <1>39 DEF Next, Handler, Fault, Shutdown,
    Reclaim

\* A process that dies disturbs every task its two queue drivers carried.
DiesShape(w) ==
  /\ \A q \in Procs : q[1] # w => pc'[q] = pc[q] /\ job'[q] = job[q] /\ err'[q] = err[q]
  /\ \A q \in Procs : q[1] = w => pc'[q] = "idle" /\ job'[q] = NoTask
  /\ \A q \in Procs : q[1] = w /\ q[2] # "boot" /\ job[q] # NoTask => job[q] \in disturbed'
  /\ disturbed \subseteq disturbed'
  /\ \A v \in Workers : /\ v # w => orphans'[v] = orphans[v] /\ mode'[v] = mode[v]
                                    /\ current'[v] = current[v]
                        /\ v = w => orphans'[v] = {} /\ mode'[v] = "down"
  /\ UNCHANGED <<row, by, build, owner>>

\* How a crash looks to the rest of the queue: the rows the worker held are disturbed.
LEMMA DiesStep ==
  ASSUME TypeOK, NEW w \in Workers, Dies(w)
  PROVE  DiesShape(w)
<1>1. /\ pc \in [Procs -> Steps] /\ job \in [Procs -> Tasks \cup {NoTask}]
      /\ err \in [Procs -> Errors] /\ orphans \in [Workers -> SUBSET Tasks]
      /\ mode \in [Workers -> Modes] /\ current \in [Workers -> Tasks \cup {NoTask}]
  BY DEF TypeOK
<1>2. ASSUME NEW q \in Procs, q[1] = w, q[2] # "boot", job[q] # NoTask
      PROVE  job[q] \in disturbed'
  <2>1. q = <<w, q[2]>> /\ q[2] \in {"poll", "notify"}
    BY <1>2 DEF Procs, Drivers
  <2>2. QED
    BY <1>2, <2>1 DEF Dies, Jobs
<1>3. QED
  BY <1>1, <1>2 DEF Dies, DiesShape, rowVars, buildVars

\* A claim makes one driver, which held nothing, the only holder of a row.
ClaimShape(p, t) ==
  /\ \A q \in Procs : q # p => pc'[q] = pc[q] /\ job'[q] = job[q]
  /\ pc[p] \notin Holding \cup {"fail"} /\ pc'[p] = "reply" /\ job'[p] = t
  /\ t \notin disturbed => \A q \in Procs : ~Holds(q, t)
  /\ row[t] # "gone" /\ row' = [row EXCEPT ![t] = "locked"] /\ by' = [by EXCEPT ![t] = p[1]]
  /\ UNCHANGED <<build, owner, err, disturbed>>

\* A claim, by the poll loop or on a notification, gives one driver a row nobody holds.
LEMMA ClaimStep ==
  ASSUME TypeOK, JobInv, DriverInv, FlightInv, SingleFlight, LockInv,
         NEW w \in Workers, PollClaims(w) \/ NotifyClaims(w)
  PROVE  \E p \in Procs, t \in Tasks : ClaimShape(p, t)
<1>1. /\ pc \in [Procs -> Steps] /\ job \in [Procs -> Tasks \cup {NoTask}]
      /\ row \in [Tasks -> RowStates] /\ current \in [Workers -> Tasks \cup {NoTask}]
      /\ \A d \in Drivers : <<w, d>> \in Procs /\ <<w, d>>[1] = w /\ <<w, d>>[2] = d
  BY DEF TypeOK, Procs
<1>2. PICK d \in {"poll", "notify"}, t \in Tasks :
             ClaimNextTask(w, d, t) /\ (d = "poll" => pc[<<w, "poll">>] \in {"idle", "repoll"})
  BY DEF PollClaims, NotifyClaims
<1>3. Idle(w)
  BY DEF PollClaims, NotifyClaims
<1>4. \A q \in Procs : q[1] = w => pc[q] \notin Holding
  BY <1>3, <1>1 DEF FlightInv, SingleFlight, JobInv, Idle, Holding, Running, ShuttingDown
<1>5. d \in Drivers /\ <<w, d>> \in Procs
  BY <1>1 DEF Drivers
<1>6. pc[<<w, d>>] # "fail"
  BY <1>1, <1>2, <1>5 DEF DriverInv
<1>7. \A q \in Procs : t \notin disturbed => ~Holds(q, t)
  BY <1>2 DEF LockInv, ClaimNextTask, Eligible
<1>8. row[t] # "gone"
  BY <1>2 DEF ClaimNextTask, Eligible
<1>9. ClaimShape(<<w, d>>, t)
  BY <1>1, <1>2, <1>4, <1>5, <1>6, <1>7, <1>8 DEF ClaimShape, ClaimNextTask, buildVars, Drivers
<1>10. QED
  BY <1>5, <1>9

\* The two parts of the invariant about holders stand or fall together.
HeldInv == LockInv /\ ExclusiveProcessing

\* Steps that add no holder, and leave the rows of undisturbed held tasks alone.
LEMMA HoldersFrame ==
  ASSUME LockInv, ExclusiveProcessing, disturbed \subseteq disturbed',
         \A p \in Procs, t \in Tasks \ disturbed' :
           Holds(p, t)' => /\ Holds(p, t)
                           /\ \/ row'[t] = row[t] /\ by'[t] = by[t]
                              \/ row'[t] = "gone"
  PROVE  LockInv' /\ ExclusiveProcessing'
<1>1. LockInv'
  BY DEF LockInv
<1>2. ExclusiveProcessing'
  BY DEF ExclusiveProcessing
<1>3. QED
  BY <1>1, <1>2

\* While one driver that is not rendering moves on, the others keep their builds.
OthersKeep(p) ==
  /\ \A q \in Procs : q # p => pc'[q] = pc[q] /\ job'[q] = job[q]
  /\ disturbed \subseteq disturbed'

\* A step that starts no build and ends no work leaves each running build to its owner.
LEMMA OwnerFrame ==
  ASSUME OwnerInv, NEW p \in Procs, OthersKeep(p), pc[p] # "work",
         \A t \in Tasks : build'[t] = "running" => build[t] = "running" /\ owner'[t] = owner[t]
  PROVE  OwnerInv'
<1> USE DEF OwnerInv, OthersKeep
<1> SUFFICES ASSUME NEW t \in Tasks \ disturbed', build'[t] = "running"
             PROVE  \E q \in Procs : job'[q] = t /\ pc'[q] = "work" /\ owner'[t] = q[1]
  OBVIOUS
<1>1. PICK q \in Procs : job[q] = t /\ pc[q] = "work" /\ owner[t] = q[1]
  OBVIOUS
<1>2. q # p
  BY <1>1
<1>3. QED
  BY <1>1, <1>2

\* A step that drops no row without closing its build loses no build.
LEMMA LostFrame ==
  ASSUME NoLostBuild, NEW p \in Procs, OthersKeep(p), pc[p] \notin {"work", "fail"},
         \A t \in Tasks : build[t] = "closed" => build'[t] = "closed",
         \A t \in Tasks \ disturbed' : row'[t] = "gone" => row[t] = "gone" \/ build'[t] = "closed"
  PROVE  NoLostBuild'
<1> USE DEF NoLostBuild, OthersKeep
<1> SUFFICES ASSUME NEW t \in Tasks \ disturbed', row'[t] = "gone", build'[t] # "closed"
             PROVE  \E q \in Procs : job'[q] = t /\ pc'[q] \in {"work", "fail"}
  OBVIOUS
<1>1. PICK q \in Procs : job[q] = t /\ pc[q] \in {"work", "fail"}
  OBVIOUS
<1>2. q # p
  BY <1>1
<1>3. QED
  BY <1>1, <1>2

\* The startup reclaim and a shutdown only meet tasks that are disturbed.
LEMMA ReclaimNext ==
  ASSUME TypeOK, DriverInv, ReclaimInv, OwnerInv, [Next]_vars
  PROVE  ReclaimInv'
<1>1. Facts
  BY TypeFacts
<1>2. \A p \in Procs, e \in Errors : Rejects(p, e) => RejectsShape(p)
  BY RejectsStep
<1>3. \A w \in Workers : Dies(w) => DiesShape(w)
  BY DiesStep
<1> USE <1>1 DEF Facts, ReclaimInv, DriverInv, ShuttingDown, Drivers, Holding,
                Running, rowVars, buildVars, driverVars, Queued
<1>4. ASSUME NEW w \in Workers, DiesShape(w) PROVE ReclaimInv'
  <2>1. \A v \in Workers : orphans'[v] \subseteq disturbed'
    BY <1>4 DEF DiesShape
  <2>2. ASSUME NEW q \in Procs, pc'[q] \in {"unlocked", "condemned"}
        PROVE  job'[q] \in disturbed'
    <3>1. q[1] # w
      BY <1>4, <2>2 DEF DiesShape
    <3>2. pc'[q] = pc[q] /\ job'[q] = job[q] /\ disturbed \subseteq disturbed'
      BY <1>4, <3>1 DEF DiesShape
    <3>3. QED
      BY <2>2, <3>2
  <2>3. \A v \in Workers :
          mode'[v] \in {"released", "drained"} => current'[v] \in disturbed' \cup {NoTask}
    BY <1>4 DEF DiesShape
  <2>4. QED
    BY <2>1, <2>2, <2>3
<1>5. ASSUME NEW t \in Tasks, Enqueue(t) PROVE ReclaimInv'
  BY <1>5 DEF Enqueue
<1>6. ASSUME NEW t \in Tasks, LockExpires(t) PROVE ReclaimInv'
  BY <1>6 DEF LockExpires
<1>7. ASSUME NEW w \in Workers, PollClaims(w) PROVE ReclaimInv'
  BY <1>7 DEF PollClaims, ClaimNextTask, Idle
<1>8. ASSUME NEW w \in Workers, PollFindsNothing(w) PROVE ReclaimInv'
  BY <1>8 DEF PollFindsNothing
<1>9. ASSUME NEW w \in Workers, NotifyClaims(w) PROVE ReclaimInv'
  BY <1>9 DEF NotifyClaims, ClaimNextTask, Idle
<1>10. ASSUME NEW w \in Workers, NotifyFindsNothing(w) PROVE ReclaimInv'
  BY <1>10 DEF NotifyFindsNothing
<1>11. ASSUME NEW p \in Procs, StartTask(p) PROVE ReclaimInv'
  BY <1>11 DEF StartTask
<1>12. ASSUME NEW p \in Procs, RefuseTask(p) PROVE ReclaimInv'
  BY <1>12 DEF RefuseTask, ReleaseLock
<1>13. ASSUME NEW p \in Procs, CheckBaseline(p) PROVE ReclaimInv'
  BY <1>13 DEF CheckBaseline
<1>14. ASSUME NEW p \in Procs, StartBuild(p) PROVE ReclaimInv'
  BY <1>14 DEF StartBuild
<1>15. ASSUME NEW p \in Procs, NEW e \in Errors \ {"dependency"}, WorkEnds(p, e) PROVE ReclaimInv'
  BY <1>15 DEF WorkEnds
<1>16. ASSUME NEW p \in Procs, PoisonKills(p) PROVE ReclaimInv'
  BY <1>16, <1>3, <1>4 DEF PoisonKills
<1>17. ASSUME NEW p \in Procs, FinishTask(p) PROVE ReclaimInv'
  BY <1>17 DEF FinishTask, DeleteTask
<1>18. ASSUME NEW p \in Procs, FailTask(p) PROVE ReclaimInv'
  <2>1. RejectsShape(p) /\ pc[p] = "failed"
    BY <1>18, <1>2, <1>1 DEF FailTask
  <2>2. QED
    BY <1>18, <2>1 DEF RejectsShape, FailTask
<1>19. ASSUME NEW p \in Procs, GiveUpOnTask(p) PROVE ReclaimInv'
  BY <1>19 DEF GiveUpOnTask, DeleteTask
<1>20. ASSUME NEW p \in Procs, GiveUpOnBuild(p) PROVE ReclaimInv'
  BY <1>20 DEF GiveUpOnBuild
<1>21. ASSUME NEW p \in Procs, ClaimReplyLost(p) PROVE ReclaimInv'
  BY <1>21 DEF ClaimReplyLost
<1>22. ASSUME NEW p \in Procs, RefuseFails(p) PROVE ReclaimInv'
  BY <1>22 DEF RefuseFails, BacksOff
<1>23. ASSUME NEW p \in Procs, GiveUpFails(p) PROVE ReclaimInv'
  BY <1>23 DEF GiveUpFails
<1>24. ASSUME NEW p \in Procs, StartFails(p) PROVE ReclaimInv'
  BY <1>24 DEF StartFails
<1>25. ASSUME NEW p \in Procs, FinishFails(p) PROVE ReclaimInv'
  BY <1>25 DEF FinishFails
<1>26. ASSUME NEW p \in Procs, FailTaskFails(p) PROVE ReclaimInv'
  <2>1. RejectsShape(p) /\ pc[p] = "failed"
    BY <1>26, <1>2, <1>1 DEF FailTaskFails
  <2>2. QED
    BY <1>26, <2>1 DEF RejectsShape, FailTaskFails
<1>27. ASSUME NEW w \in Workers, NEW t \in Tasks, BackoffElapses(w, t) PROVE ReclaimInv'
  BY <1>27 DEF BackoffElapses
<1>28. ASSUME NEW w \in Workers, NEW t \in Tasks, DeferElapses(w, t) PROVE ReclaimInv'
  BY <1>28 DEF DeferElapses
<1>29. ASSUME NEW w \in Workers, HandleShutdownSignal(w) PROVE ReclaimInv'
  BY <1>29 DEF HandleShutdownSignal
<1>30. ASSUME NEW w \in Workers, ShutdownReleases(w) PROVE ReclaimInv'
  BY <1>30 DEF ShutdownReleases, ReleaseLock
<1>31. ASSUME NEW w \in Workers, ShutdownResets(w) PROVE ReclaimInv'
  BY <1>31 DEF ShutdownResets
<1>32. ASSUME NEW w \in Workers, ShutdownExits(w) PROVE ReclaimInv'
  BY <1>32, <1>3, <1>4 DEF ShutdownExits
<1>33. ASSUME NEW w \in Workers, Crash(w) PROVE ReclaimInv'
  BY <1>33, <1>3, <1>4 DEF Crash
<1>34. ASSUME NEW w \in Workers, Boot(w) PROVE ReclaimInv'
  <2>1. ASSUME NEW q \in Procs, q[1] = w
        PROVE  pc[q] # "work"
    <3>1. mode[q[1]] = "down"
      BY <1>34, <2>1 DEF Boot
    <3>2. pc[q] = "idle"
      BY <3>1
    <3>3. QED
      BY <3>2
  <2>2. \A t \in Tasks : build[t] = "running" /\ owner[t] = w => t \in disturbed
    BY <2>1 DEF OwnerInv
  <2>3. QED
    BY <1>34, <2>2 DEF Boot
<1>35. ASSUME NEW w \in Workers, NEW t \in Tasks, ReclaimUnlocks(w, t) PROVE ReclaimInv'
  BY <1>35 DEF ReclaimUnlocks, ReleaseLock
<1>36. ASSUME NEW w \in Workers, ReclaimRequeues(w) PROVE ReclaimInv'
  BY <1>36 DEF ReclaimRequeues
<1>37. ASSUME NEW w \in Workers, NEW t \in Tasks, ReclaimFails(w, t) PROVE ReclaimInv'
  BY <1>37 DEF ReclaimFails
<1>38. ASSUME NEW w \in Workers, ReclaimDeletes(w) PROVE ReclaimInv'
  BY <1>38 DEF ReclaimDeletes, DeleteTask
<1>39. ASSUME NEW w \in Workers, BootEnds(w) PROVE ReclaimInv'
  BY <1>39 DEF BootEnds
<1>40. CASE UNCHANGED vars
  BY <1>40 DEF vars
<1>41. QED
  BY <1>5, <1>6, <1>7, <1>8, <1>9, <1>10, <1>11, <1>12, <1>13, <1>14, <1>15,
    <1>16, <1>17, <1>18, <1>19, <1>20, <1>21, <1>22, <1>23, <1>24, <1>25,
    <1>26, <1>27, <1>28, <1>29, <1>30, <1>31, <1>32, <1>33, <1>34, <1>35,
    <1>36, <1>37, <1>38, <1>39, <1>40 DEF Next, Handler, Fault, Shutdown,
    Reclaim

\* A lock is never taken from under the one driver that holds an undisturbed task.
LEMMA LockNext ==
  ASSUME TypeOK, JobInv, DriverInv, FlightInv, SingleFlight, LockInv,
        ExclusiveProcessing, ReclaimInv, [Next]_vars
  PROVE  HeldInv'
<1>1. Facts
  BY TypeFacts
<1>2. \A p \in Procs, e \in Errors : Rejects(p, e) => RejectsShape(p)
  BY RejectsStep
<1>3. \A w \in Workers : Dies(w) => DiesShape(w)
  BY DiesStep
<1>4. \A p \in Procs : pc[p] \notin {"idle", "repoll"} => job[p] \in Tasks
  BY <1>1 DEF Facts, JobInv
<1>5. \A w \in Workers : PollClaims(w) \/ NotifyClaims(w)
                         => \E p \in Procs, t \in Tasks : ClaimShape(p, t)
  BY ClaimStep
<1>6. ASSUME disturbed \subseteq disturbed',
             \A p \in Procs, t \in Tasks \ disturbed' :
               Holds(p, t)' => /\ Holds(p, t)
                               /\ \/ row'[t] = row[t] /\ by'[t] = by[t]
                                  \/ row'[t] = "gone"
      PROVE  LockInv' /\ ExclusiveProcessing'
  BY <1>6, HoldersFrame
<1> USE <1>1 DEF Facts, HeldInv, LockInv, ExclusiveProcessing, ReclaimInv,
                Holds, JobInv, DriverInv, Drivers, Holding, Running, rowVars,
                buildVars, driverVars, Queued
<1>7. ASSUME NEW p \in Procs, NEW t \in Tasks, ClaimShape(p, t) PROVE HeldInv'
  <2>1. \A q \in Procs, u \in Tasks : q # p => (Holds(q, u)' <=> Holds(q, u))
    BY <1>7 DEF ClaimShape
  <2>2. \A u \in Tasks : Holds(p, u)' => u = t
    BY <1>7 DEF ClaimShape
  <2>3. ASSUME NEW u \in Tasks \ disturbed', NEW q \in Procs, Holds(q, u)'
        PROVE  (row'[u] = "locked" /\ by'[u] = q[1]) \/ row'[u] = "gone"
    <3>1. CASE q = p
      BY <1>7, <2>2, <2>3, <3>1 DEF ClaimShape
    <3>2. CASE q # p
      BY <1>7, <2>1, <2>3, <3>2 DEF ClaimShape
    <3>3. QED
      BY <3>1, <3>2
  <2>4. LockInv'
    BY <2>3
  <2>5. ASSUME NEW u \in Tasks \ disturbed', NEW q \in Procs, NEW r \in Procs,
               Holds(q, u)', Holds(r, u)'
        PROVE  q = r
    <3>1. CASE q # p /\ r # p
      BY <1>7, <2>1, <2>5, <3>1 DEF ClaimShape
    <3>2. CASE q = p \/ r = p
      <4>1. u = t /\ t \notin disturbed
        BY <1>7, <2>2, <2>5, <3>2 DEF ClaimShape
      <4>2. \A v \in Procs : v # p => ~Holds(v, t)'
        BY <1>7, <2>1, <4>1 DEF ClaimShape
      <4>3. QED
        BY <2>5, <4>1, <4>2
    <3>3. QED
      BY <3>1, <3>2
  <2>6. ExclusiveProcessing'
    BY <2>5
  <2>7. QED
    BY <2>4, <2>6
<1>8. ASSUME NEW w \in Workers, DiesShape(w) PROVE HeldInv'
  <2>1. \A q \in Procs, u \in Tasks \ disturbed' :
          Holds(q, u)' => /\ Holds(q, u)
                          /\ \/ row'[u] = row[u] /\ by'[u] = by[u]
                             \/ row'[u] = "gone"
    BY <1>8 DEF DiesShape
  <2>2. disturbed \subseteq disturbed'
    BY <1>8 DEF DiesShape
  <2>3. QED
    BY <1>6, <2>1, <2>2
<1>9. ASSUME NEW t \in Tasks, Enqueue(t) PROVE HeldInv'
  <2>1. \A q \in Procs : t \notin disturbed => ~Holds(q, t)
    <3> SUFFICES ASSUME NEW q \in Procs, t \in Tasks \ disturbed, Holds(q, t)
                 PROVE  FALSE
      OBVIOUS
    <3>1. row[t] = "locked" \/ row[t] = "gone"
      OBVIOUS
    <3>2. QED
      BY <1>9, <3>1 DEF Enqueue
  <2>2. \A q \in Procs, u \in Tasks \ disturbed' :
          Holds(q, u)' => /\ Holds(q, u)
                          /\ \/ row'[u] = row[u] /\ by'[u] = by[u]
                             \/ row'[u] = "gone"
    BY <1>9, <2>1 DEF Enqueue
  <2>3. disturbed \subseteq disturbed'
    BY <1>9, <2>1 DEF Enqueue
  <2>4. QED
    BY <1>6, <2>2, <2>3
<1>10. ASSUME NEW t \in Tasks, LockExpires(t) PROVE HeldInv'
  <2>1. \A q \in Procs : t \notin disturbed => ~Holds(q, t)
    <3> SUFFICES ASSUME NEW q \in Procs, t \notin disturbed, Holds(q, t)
                 PROVE  FALSE
      OBVIOUS
    <3>1. by[t] = q[1] /\ q[1] \in Workers /\ q[2] \in Drivers /\ q = <<q[1], q[2]>>
      BY <1>10 DEF LockExpires
    <3>2. <<by[t], q[2]>> = q
      BY <3>1
    <3>3. job[<<by[t], q[2]>>] = t /\ pc[<<by[t], q[2]>>] \in Holding
      BY <3>2
    <3>4. Beating(t)
      BY <3>1, <3>3 DEF Beating
    <3>5. QED
      BY <1>10, <3>4 DEF LockExpires
  <2>2. \A q \in Procs, u \in Tasks \ disturbed' :
          Holds(q, u)' => /\ Holds(q, u)
                          /\ \/ row'[u] = row[u] /\ by'[u] = by[u]
                             \/ row'[u] = "gone"
    BY <1>10, <2>1 DEF LockExpires
  <2>3. disturbed \subseteq disturbed'
    BY <1>10, <2>1 DEF LockExpires
  <2>4. QED
    BY <1>6, <2>2, <2>3
<1>11. ASSUME NEW w \in Workers, PollClaims(w) PROVE HeldInv'
  BY <1>11, <1>5, <1>7
<1>12. ASSUME NEW w \in Workers, PollFindsNothing(w) PROVE HeldInv'
  BY <1>12 DEF PollFindsNothing
<1>13. ASSUME NEW w \in Workers, NotifyClaims(w) PROVE HeldInv'
  BY <1>13, <1>5, <1>7
<1>14. ASSUME NEW w \in Workers, NotifyFindsNothing(w) PROVE HeldInv'
  BY <1>14 DEF NotifyFindsNothing
<1>15. ASSUME NEW p \in Procs, StartTask(p) PROVE HeldInv'
  BY <1>15 DEF StartTask
<1>16. ASSUME NEW p \in Procs, RefuseTask(p) PROVE HeldInv'
  BY <1>16 DEF RefuseTask, ReleaseLock
<1>17. ASSUME NEW p \in Procs, CheckBaseline(p) PROVE HeldInv'
  BY <1>17 DEF CheckBaseline
<1>18. ASSUME NEW p \in Procs, StartBuild(p) PROVE HeldInv'
  BY <1>18 DEF StartBuild
<1>19. ASSUME NEW p \in Procs, NEW e \in Errors \ {"dependency"}, WorkEnds(p, e) PROVE HeldInv'
  BY <1>19 DEF WorkEnds
<1>20. ASSUME NEW p \in Procs, PoisonKills(p) PROVE HeldInv'
  BY <1>20, <1>3, <1>8 DEF PoisonKills
<1>21. ASSUME NEW p \in Procs, FinishTask(p) PROVE HeldInv'
  BY <1>21 DEF FinishTask, DeleteTask
<1>22. ASSUME NEW p \in Procs, FailTask(p) PROVE HeldInv'
  <2>1. RejectsShape(p) /\ pc[p] = "failed"
    BY <1>22, <1>2, <1>1 DEF FailTask
  <2>2. \A q \in Procs, u \in Tasks \ disturbed' :
          Holds(q, u)' => /\ Holds(q, u)
                          /\ \/ row'[u] = row[u] /\ by'[u] = by[u]
                             \/ row'[u] = "gone"
    BY <1>22, <2>1 DEF RejectsShape, FailTask, DeleteTask, ReleaseLock
  <2>3. disturbed \subseteq disturbed'
    BY <1>22, <2>1 DEF RejectsShape, FailTask, DeleteTask, ReleaseLock
  <2>4. QED
    BY <1>6, <2>2, <2>3
<1>23. ASSUME NEW p \in Procs, GiveUpOnTask(p) PROVE HeldInv'
  BY <1>23 DEF GiveUpOnTask, DeleteTask
<1>24. ASSUME NEW p \in Procs, GiveUpOnBuild(p) PROVE HeldInv'
  BY <1>24 DEF GiveUpOnBuild
<1>25. ASSUME NEW p \in Procs, ClaimReplyLost(p) PROVE HeldInv'
  BY <1>25 DEF ClaimReplyLost
<1>26. ASSUME NEW p \in Procs, RefuseFails(p) PROVE HeldInv'
  <2>1. /\ \A q \in Procs : q # p => pc'[q] = pc[q] /\ job'[q] = job[q]
        /\ pc'[p] \in {"idle", "giveup"}
        /\ UNCHANGED <<row, by, disturbed>>
    <3>1. CASE p[2] = "poll"
      BY <1>26, <3>1 DEF RefuseFails, BacksOff
    <3>2. CASE p[2] # "poll"
      BY <1>26, <3>2 DEF RefuseFails
    <3>3. QED
      BY <3>1, <3>2
  <2>2. \A q \in Procs, u \in Tasks \ disturbed' :
          Holds(q, u)' => /\ Holds(q, u)
                          /\ \/ row'[u] = row[u] /\ by'[u] = by[u]
                             \/ row'[u] = "gone"
    BY <2>1
  <2>3. disturbed \subseteq disturbed'
    BY <2>1
  <2>4. QED
    BY <1>6, <2>2, <2>3
<1>27. ASSUME NEW p \in Procs, GiveUpFails(p) PROVE HeldInv'
  BY <1>27 DEF GiveUpFails
<1>28. ASSUME NEW p \in Procs, StartFails(p) PROVE HeldInv'
  BY <1>28 DEF StartFails
<1>29. ASSUME NEW p \in Procs, FinishFails(p) PROVE HeldInv'
  BY <1>29 DEF FinishFails
<1>30. ASSUME NEW p \in Procs, FailTaskFails(p) PROVE HeldInv'
  <2>1. RejectsShape(p) /\ pc[p] = "failed"
    BY <1>30, <1>2, <1>1 DEF FailTaskFails
  <2>2. \A q \in Procs, u \in Tasks \ disturbed' :
          Holds(q, u)' => /\ Holds(q, u)
                          /\ \/ row'[u] = row[u] /\ by'[u] = by[u]
                             \/ row'[u] = "gone"
    BY <1>30, <2>1 DEF RejectsShape, FailTaskFails, DeleteTask, ReleaseLock
  <2>3. disturbed \subseteq disturbed'
    BY <1>30, <2>1 DEF RejectsShape, FailTaskFails, DeleteTask, ReleaseLock
  <2>4. QED
    BY <1>6, <2>2, <2>3
<1>31. ASSUME NEW w \in Workers, NEW t \in Tasks, BackoffElapses(w, t) PROVE HeldInv'
  BY <1>31 DEF BackoffElapses
<1>32. ASSUME NEW w \in Workers, NEW t \in Tasks, DeferElapses(w, t) PROVE HeldInv'
  BY <1>32 DEF DeferElapses
<1>33. ASSUME NEW w \in Workers, HandleShutdownSignal(w) PROVE HeldInv'
  BY <1>33 DEF HandleShutdownSignal
<1>34. ASSUME NEW w \in Workers, ShutdownReleases(w) PROVE HeldInv'
  <2>1. current[w] # NoTask => current[w] \in disturbed'
    BY <1>34 DEF ShutdownReleases
  <2>2. \A u \in Tasks : u # current[w] => row'[u] = row[u] /\ by'[u] = by[u]
    BY <1>34 DEF ShutdownReleases, ReleaseLock
  <2>3. pc' = pc /\ job' = job /\ disturbed \subseteq disturbed'
    BY <1>34 DEF ShutdownReleases
  <2>4. \A q \in Procs, u \in Tasks \ disturbed' :
          Holds(q, u)' => /\ Holds(q, u)
                          /\ \/ row'[u] = row[u] /\ by'[u] = by[u]
                             \/ row'[u] = "gone"
    BY <2>1, <2>2, <2>3
  <2>5. disturbed \subseteq disturbed'
    BY <2>1, <2>2, <2>3
  <2>6. QED
    BY <1>6, <2>4, <2>5
<1>35. ASSUME NEW w \in Workers, ShutdownResets(w) PROVE HeldInv'
  BY <1>35 DEF ShutdownResets
<1>36. ASSUME NEW w \in Workers, ShutdownExits(w) PROVE HeldInv'
  BY <1>36, <1>3, <1>8 DEF ShutdownExits
<1>37. ASSUME NEW w \in Workers, Crash(w) PROVE HeldInv'
  BY <1>37, <1>3, <1>8 DEF Crash
<1>38. ASSUME NEW w \in Workers, Boot(w) PROVE HeldInv'
  BY <1>38 DEF Boot
<1>39. ASSUME NEW w \in Workers, NEW t \in Tasks, ReclaimUnlocks(w, t) PROVE HeldInv'
  BY <1>39 DEF ReclaimUnlocks, ReleaseLock
<1>40. ASSUME NEW w \in Workers, ReclaimRequeues(w) PROVE HeldInv'
  BY <1>40 DEF ReclaimRequeues
<1>41. ASSUME NEW w \in Workers, NEW t \in Tasks, ReclaimFails(w, t) PROVE HeldInv'
  BY <1>41 DEF ReclaimFails
<1>42. ASSUME NEW w \in Workers, ReclaimDeletes(w) PROVE HeldInv'
  BY <1>42 DEF ReclaimDeletes, DeleteTask
<1>43. ASSUME NEW w \in Workers, BootEnds(w) PROVE HeldInv'
  BY <1>43 DEF BootEnds
<1>44. CASE UNCHANGED vars
  BY <1>44 DEF vars
<1>45. QED
  BY <1>9, <1>10, <1>11, <1>12, <1>13, <1>14, <1>15, <1>16, <1>17, <1>18, <1>19,
    <1>20, <1>21, <1>22, <1>23, <1>24, <1>25, <1>26, <1>27, <1>28, <1>29,
    <1>30, <1>31, <1>32, <1>33, <1>34, <1>35, <1>36, <1>37, <1>38, <1>39,
    <1>40, <1>41, <1>42, <1>43, <1>44 DEF Next, Handler, Fault, Shutdown,
    Reclaim

\* A running build loses its renderer only by a death that disturbs it.
LEMMA OwnerNext ==
  ASSUME TypeOK, JobInv, DriverInv, FlightInv, SingleFlight, LockInv,
        ReclaimInv, OwnerInv, [Next]_vars
  PROVE  OwnerInv'
<1>1. Facts
  BY TypeFacts
<1>2. \A p \in Procs, e \in Errors : Rejects(p, e) => RejectsShape(p)
  BY RejectsStep
<1>3. \A w \in Workers : Dies(w) => DiesShape(w)
  BY DiesStep
<1>4. \A p \in Procs : pc[p] \notin {"idle", "repoll"} => job[p] \in Tasks
  BY <1>1 DEF Facts, JobInv
<1>5. \A w \in Workers : PollClaims(w) \/ NotifyClaims(w)
                         => \E p \in Procs, t \in Tasks : ClaimShape(p, t)
  BY ClaimStep
<1>6. ASSUME NEW p \in Procs, OthersKeep(p), pc[p] # "work",
             \A u \in Tasks : build'[u] = "running" => build[u] = "running" /\ owner'[u] = owner[u]
      PROVE  OwnerInv'
  BY <1>6, OwnerFrame
<1> USE <1>1 DEF Facts, OwnerInv, ReclaimInv, DriverInv, JobInv, Drivers,
                Holding, Running, rowVars, buildVars, driverVars, Queued
<1>7. ASSUME NEW p \in Procs, NEW t \in Tasks, ClaimShape(p, t) PROVE OwnerInv'
  <2>1. /\ OthersKeep(p) /\ p \in Procs /\ pc[p] # "work"
        /\ \A u \in Tasks : build'[u] = "running" => build[u] = "running" /\ owner'[u] = owner[u]
    BY <1>7 DEF OthersKeep, ClaimShape
  <2>2. QED
    BY <1>6, <2>1
<1>8. ASSUME NEW w \in Workers, DiesShape(w) PROVE OwnerInv'
  <2>1. ASSUME NEW t \in Tasks \ disturbed', build'[t] = "running"
        PROVE  \E q \in Procs : job'[q] = t /\ pc'[q] = "work" /\ owner'[t] = q[1]
    <3>1. PICK q \in Procs : job[q] = t /\ pc[q] = "work" /\ owner[t] = q[1]
      BY <1>8, <2>1 DEF DiesShape
    <3>2. q[1] # w
      BY <1>8, <2>1, <3>1 DEF DiesShape
    <3>3. job'[q] = t /\ pc'[q] = pc[q] /\ owner'[t] = owner[t]
      BY <1>8, <3>1, <3>2 DEF DiesShape
    <3>4. QED
      BY <3>1, <3>3
  <2>2. QED
    BY <2>1
<1>9. ASSUME NEW t \in Tasks, Enqueue(t) PROVE OwnerInv'
  BY <1>9 DEF Enqueue
<1>10. ASSUME NEW t \in Tasks, LockExpires(t) PROVE OwnerInv'
  BY <1>10 DEF LockExpires
<1>11. ASSUME NEW w \in Workers, PollClaims(w) PROVE OwnerInv'
  BY <1>11, <1>5, <1>7
<1>12. ASSUME NEW w \in Workers, PollFindsNothing(w) PROVE OwnerInv'
  <2>1. <<w, "poll">> \in Procs /\ pc[<<w, "poll">>] \notin {"work", "fail"}
    BY <1>12 DEF PollFindsNothing
  <2>2. \A q \in Procs : q # <<w, "poll">> => pc'[q] = pc[q] /\ job'[q] = job[q]
    BY <1>12 DEF PollFindsNothing
  <2>3. disturbed' = disturbed
    BY <1>12 DEF PollFindsNothing
  <2>4. /\ OthersKeep(<<w, "poll">>) /\ <<w, "poll">> \in Procs /\ pc[<<w, "poll">>] # "work"
        /\ \A u \in Tasks : build'[u] = "running" => build[u] = "running" /\ owner'[u] = owner[u]
    BY <1>12, <2>1, <2>2, <2>3 DEF OthersKeep, PollFindsNothing
  <2>5. QED
    BY <1>6, <2>4
<1>13. ASSUME NEW w \in Workers, NotifyClaims(w) PROVE OwnerInv'
  BY <1>13, <1>5, <1>7
<1>14. ASSUME NEW w \in Workers, NotifyFindsNothing(w) PROVE OwnerInv'
  BY <1>14 DEF NotifyFindsNothing
<1>15. ASSUME NEW p \in Procs, StartTask(p) PROVE OwnerInv'
  BY <1>15 DEF StartTask
<1>16. ASSUME NEW p \in Procs, RefuseTask(p) PROVE OwnerInv'
  <2>1. /\ OthersKeep(p) /\ p \in Procs /\ pc[p] # "work"
        /\ \A u \in Tasks : build'[u] = "running" => build[u] = "running" /\ owner'[u] = owner[u]
    BY <1>16 DEF OthersKeep, RefuseTask, ReleaseLock
  <2>2. QED
    BY <1>6, <2>1
<1>17. ASSUME NEW p \in Procs, CheckBaseline(p) PROVE OwnerInv'
  BY <1>17 DEF CheckBaseline
<1>18. ASSUME NEW p \in Procs, StartBuild(p) PROVE OwnerInv'
  BY <1>18 DEF StartBuild
<1>19. ASSUME NEW p \in Procs, NEW e \in Errors \ {"dependency"}, WorkEnds(p, e) PROVE OwnerInv'
  BY <1>19 DEF WorkEnds
<1>20. ASSUME NEW p \in Procs, PoisonKills(p) PROVE OwnerInv'
  BY <1>20, <1>3, <1>8 DEF PoisonKills
<1>21. ASSUME NEW p \in Procs, FinishTask(p) PROVE OwnerInv'
  <2>1. /\ OthersKeep(p) /\ p \in Procs /\ pc[p] # "work"
        /\ \A u \in Tasks : build'[u] = "running" => build[u] = "running" /\ owner'[u] = owner[u]
    BY <1>21 DEF OthersKeep, FinishTask, DeleteTask
  <2>2. QED
    BY <1>6, <2>1
<1>22. ASSUME NEW p \in Procs, FailTask(p) PROVE OwnerInv'
  <2>1. RejectsShape(p) /\ pc[p] = "failed"
    BY <1>22, <1>2, <1>1 DEF FailTask
  <2>2. /\ OthersKeep(p) /\ p \in Procs /\ pc[p] # "work"
        /\ \A u \in Tasks : build'[u] = "running" => build[u] = "running" /\ owner'[u] = owner[u]
    BY <1>22, <2>1 DEF OthersKeep, RejectsShape, FailTask
  <2>3. QED
    BY <1>6, <2>2
<1>23. ASSUME NEW p \in Procs, GiveUpOnTask(p) PROVE OwnerInv'
  <2>1. /\ OthersKeep(p) /\ p \in Procs /\ pc[p] # "work"
        /\ \A u \in Tasks : build'[u] = "running" => build[u] = "running" /\ owner'[u] = owner[u]
    BY <1>23 DEF OthersKeep, GiveUpOnTask, DeleteTask
  <2>2. QED
    BY <1>6, <2>1
<1>24. ASSUME NEW p \in Procs, GiveUpOnBuild(p) PROVE OwnerInv'
  <2>1. /\ OthersKeep(p) /\ p \in Procs /\ pc[p] # "work"
        /\ \A u \in Tasks : build'[u] = "running" => build[u] = "running" /\ owner'[u] = owner[u]
    BY <1>24 DEF OthersKeep, GiveUpOnBuild
  <2>2. QED
    BY <1>6, <2>1
<1>25. ASSUME NEW p \in Procs, ClaimReplyLost(p) PROVE OwnerInv'
  <2>1. /\ OthersKeep(p) /\ p \in Procs /\ pc[p] # "work"
        /\ \A u \in Tasks : build'[u] = "running" => build[u] = "running" /\ owner'[u] = owner[u]
    BY <1>25 DEF OthersKeep, ClaimReplyLost
  <2>2. QED
    BY <1>6, <2>1
<1>26. ASSUME NEW p \in Procs, RefuseFails(p) PROVE OwnerInv'
  BY <1>26 DEF RefuseFails, BacksOff
<1>27. ASSUME NEW p \in Procs, GiveUpFails(p) PROVE OwnerInv'
  BY <1>27 DEF GiveUpFails
<1>28. ASSUME NEW p \in Procs, StartFails(p) PROVE OwnerInv'
  BY <1>28 DEF StartFails
<1>29. ASSUME NEW p \in Procs, FinishFails(p) PROVE OwnerInv'
  BY <1>29 DEF FinishFails
<1>30. ASSUME NEW p \in Procs, FailTaskFails(p) PROVE OwnerInv'
  <2>1. RejectsShape(p) /\ pc[p] = "failed"
    BY <1>30, <1>2, <1>1 DEF FailTaskFails
  <2>2. /\ OthersKeep(p) /\ p \in Procs /\ pc[p] # "work"
        /\ \A u \in Tasks : build'[u] = "running" => build[u] = "running" /\ owner'[u] = owner[u]
    BY <1>30, <2>1 DEF OthersKeep, RejectsShape, FailTaskFails
  <2>3. QED
    BY <1>6, <2>2
<1>31. ASSUME NEW w \in Workers, NEW t \in Tasks, BackoffElapses(w, t) PROVE OwnerInv'
  BY <1>31 DEF BackoffElapses
<1>32. ASSUME NEW w \in Workers, NEW t \in Tasks, DeferElapses(w, t) PROVE OwnerInv'
  BY <1>32 DEF DeferElapses
<1>33. ASSUME NEW w \in Workers, HandleShutdownSignal(w) PROVE OwnerInv'
  BY <1>33 DEF HandleShutdownSignal
<1>34. ASSUME NEW w \in Workers, ShutdownReleases(w) PROVE OwnerInv'
  BY <1>34 DEF ShutdownReleases, ReleaseLock
<1>35. ASSUME NEW w \in Workers, ShutdownResets(w) PROVE OwnerInv'
  BY <1>35 DEF ShutdownResets
<1>36. ASSUME NEW w \in Workers, ShutdownExits(w) PROVE OwnerInv'
  BY <1>36, <1>3, <1>8 DEF ShutdownExits
<1>37. ASSUME NEW w \in Workers, Crash(w) PROVE OwnerInv'
  BY <1>37, <1>3, <1>8 DEF Crash
<1>38. ASSUME NEW w \in Workers, Boot(w) PROVE OwnerInv'
  BY <1>38 DEF Boot
<1>39. ASSUME NEW w \in Workers, NEW t \in Tasks, ReclaimUnlocks(w, t) PROVE OwnerInv'
  <2>1. <<w, "boot">> \in Procs /\ pc[<<w, "boot">>] \notin {"work", "fail"}
    BY <1>39 DEF ReclaimUnlocks, ReleaseLock
  <2>2. \A q \in Procs : q # <<w, "boot">> => pc'[q] = pc[q] /\ job'[q] = job[q]
    BY <1>39 DEF ReclaimUnlocks, ReleaseLock
  <2>3. disturbed' = disturbed
    BY <1>39 DEF ReclaimUnlocks, ReleaseLock
  <2>4. /\ OthersKeep(<<w, "boot">>) /\ <<w, "boot">> \in Procs /\ pc[<<w, "boot">>] # "work"
        /\ \A u \in Tasks : build'[u] = "running" => build[u] = "running" /\ owner'[u] = owner[u]
    BY <1>39, <2>1, <2>2, <2>3 DEF OthersKeep, ReclaimUnlocks, ReleaseLock
  <2>5. QED
    BY <1>6, <2>4
<1>40. ASSUME NEW w \in Workers, ReclaimRequeues(w) PROVE OwnerInv'
  <2>1. ASSUME NEW u \in Tasks \ disturbed', build'[u] = "running"
        PROVE  \E q \in Procs : job'[q] = u /\ pc'[q] = "work" /\ owner'[u] = q[1]
    <3>1. u # job[<<w, "boot">>] /\ build[u] = "running" /\ u \notin disturbed
      BY <1>40, <2>1 DEF ReclaimRequeues
    <3>2. PICK q \in Procs : job[q] = u /\ pc[q] = "work" /\ owner[u] = q[1]
      BY <3>1
    <3>3. q # <<w, "boot">>
      BY <3>2
    <3>4. QED
      BY <1>40, <3>1, <3>2, <3>3 DEF ReclaimRequeues
  <2>2. QED
    BY <2>1
<1>41. ASSUME NEW w \in Workers, NEW t \in Tasks, ReclaimFails(w, t) PROVE OwnerInv'
  <2>1. ASSUME NEW u \in Tasks \ disturbed', build'[u] = "running"
        PROVE  \E q \in Procs : job'[q] = u /\ pc'[q] = "work" /\ owner'[u] = q[1]
    <3>1. u # t /\ build[u] = "running" /\ u \notin disturbed
      BY <1>41, <2>1 DEF ReclaimFails
    <3>2. PICK q \in Procs : job[q] = u /\ pc[q] = "work" /\ owner[u] = q[1]
      BY <3>1
    <3>3. q # <<w, "boot">>
      BY <3>2
    <3>4. QED
      BY <1>41, <3>1, <3>2, <3>3 DEF ReclaimFails
  <2>2. QED
    BY <2>1
<1>42. ASSUME NEW w \in Workers, ReclaimDeletes(w) PROVE OwnerInv'
  <2>1. <<w, "boot">> \in Procs /\ pc[<<w, "boot">>] \notin {"work", "fail"}
    BY <1>42 DEF ReclaimDeletes, DeleteTask
  <2>2. \A q \in Procs : q # <<w, "boot">> => pc'[q] = pc[q] /\ job'[q] = job[q]
    BY <1>42 DEF ReclaimDeletes, DeleteTask
  <2>3. disturbed' = disturbed
    BY <1>42 DEF ReclaimDeletes, DeleteTask
  <2>4. /\ OthersKeep(<<w, "boot">>) /\ <<w, "boot">> \in Procs /\ pc[<<w, "boot">>] # "work"
        /\ \A u \in Tasks : build'[u] = "running" => build[u] = "running" /\ owner'[u] = owner[u]
    BY <1>42, <2>1, <2>2, <2>3 DEF OthersKeep, ReclaimDeletes, DeleteTask
  <2>5. QED
    BY <1>6, <2>4
<1>43. ASSUME NEW w \in Workers, BootEnds(w) PROVE OwnerInv'
  <2>1. <<w, "boot">> \in Procs /\ pc[<<w, "boot">>] \notin {"work", "fail"}
    BY <1>43 DEF BootEnds
  <2>2. \A q \in Procs : q # <<w, "boot">> => pc'[q] = pc[q] /\ job'[q] = job[q]
    BY <1>43 DEF BootEnds
  <2>3. disturbed' = disturbed
    BY <1>43 DEF BootEnds
  <2>4. /\ OthersKeep(<<w, "boot">>) /\ <<w, "boot">> \in Procs /\ pc[<<w, "boot">>] # "work"
        /\ \A u \in Tasks : build'[u] = "running" => build[u] = "running" /\ owner'[u] = owner[u]
    BY <1>43, <2>1, <2>2, <2>3 DEF OthersKeep, BootEnds
  <2>5. QED
    BY <1>6, <2>4
<1>44. CASE UNCHANGED vars
  BY <1>44 DEF vars
<1>45. QED
  BY <1>9, <1>10, <1>11, <1>12, <1>13, <1>14, <1>15, <1>16, <1>17, <1>18, <1>19,
    <1>20, <1>21, <1>22, <1>23, <1>24, <1>25, <1>26, <1>27, <1>28, <1>29,
    <1>30, <1>31, <1>32, <1>33, <1>34, <1>35, <1>36, <1>37, <1>38, <1>39,
    <1>40, <1>41, <1>42, <1>43, <1>44 DEF Next, Handler, Fault, Shutdown,
    Reclaim

\* A finished build stays finished until its one holder has ended.
LEMMA ClosedNext ==
  ASSUME TypeOK, JobInv, DriverInv, FlightInv, SingleFlight, LockInv,
        ReclaimInv, ExclusiveProcessing, ClosedInv, [Next]_vars
  PROVE  ClosedInv'
<1>1. Facts
  BY TypeFacts
<1>2. \A p \in Procs, e \in Errors : Rejects(p, e) => RejectsShape(p)
  BY RejectsStep
<1>3. \A w \in Workers : Dies(w) => DiesShape(w)
  BY DiesStep
<1>4. \A p \in Procs : pc[p] \notin {"idle", "repoll"} => job[p] \in Tasks
  BY <1>1 DEF Facts, JobInv
<1>5. \A w \in Workers : PollClaims(w) \/ NotifyClaims(w)
                         => \E p \in Procs, t \in Tasks : ClaimShape(p, t)
  BY ClaimStep
<1> USE <1>1 DEF Facts, ClosedInv, ReclaimInv, DriverInv, JobInv,
                ExclusiveProcessing, Holds, Drivers, Holding, Running,
                rowVars, buildVars, driverVars, Queued
<1>6. ASSUME NEW p \in Procs, NEW t \in Tasks, ClaimShape(p, t) PROVE ClosedInv'
  <2>1. ASSUME NEW q \in Procs, Finished(q)'
        PROVE  Finished(q) /\ job'[q] = job[q] /\ build' = build /\ disturbed' = disturbed
    <3>1. q # p
      BY <1>6, <2>1 DEF ClaimShape, Finished
    <3>2. QED
      BY <1>6, <2>1, <3>1 DEF ClaimShape, Finished
  <2>2. QED
    BY <2>1
<1>7. ASSUME NEW w \in Workers, DiesShape(w) PROVE ClosedInv'
  <2>1. ASSUME NEW q \in Procs, job'[q] \notin disturbed', Finished(q)'
        PROVE  build'[job'[q]] = "closed"
    <3>1. /\ pc'[q] = pc[q] /\ job'[q] = job[q] /\ err'[q] = err[q] /\ build' = build
          /\ job[q] \notin disturbed
      BY <1>7, <2>1 DEF DiesShape, Finished
    <3>2. Finished(q)
      BY <2>1, <3>1 DEF Finished
    <3>3. build[job[q]] = "closed"
      BY <3>1, <3>2
    <3>4. QED
      BY <3>1, <3>3
  <2>2. QED
    BY <2>1
<1>8. ASSUME NEW t \in Tasks, Enqueue(t) PROVE ClosedInv'
  BY <1>8 DEF Enqueue, Finished
<1>9. ASSUME NEW t \in Tasks, LockExpires(t) PROVE ClosedInv'
  BY <1>9 DEF LockExpires, Finished
<1>10. ASSUME NEW w \in Workers, PollClaims(w) PROVE ClosedInv'
  BY <1>10, <1>5, <1>6
<1>11. ASSUME NEW w \in Workers, PollFindsNothing(w) PROVE ClosedInv'
  BY <1>11 DEF PollFindsNothing, Finished
<1>12. ASSUME NEW w \in Workers, NotifyClaims(w) PROVE ClosedInv'
  BY <1>12, <1>5, <1>6
<1>13. ASSUME NEW w \in Workers, NotifyFindsNothing(w) PROVE ClosedInv'
  BY <1>13 DEF NotifyFindsNothing, Finished
<1>14. ASSUME NEW p \in Procs, StartTask(p) PROVE ClosedInv'
  BY <1>14 DEF StartTask, Finished
<1>15. ASSUME NEW p \in Procs, RefuseTask(p) PROVE ClosedInv'
  BY <1>15 DEF RefuseTask, ReleaseLock, Finished
<1>16. ASSUME NEW p \in Procs, CheckBaseline(p) PROVE ClosedInv'
  BY <1>16 DEF CheckBaseline, Finished
<1>17. ASSUME NEW p \in Procs, StartBuild(p) PROVE ClosedInv'
  BY <1>17 DEF StartBuild, Finished
<1>18. ASSUME NEW p \in Procs, NEW e \in Errors \ {"dependency"}, WorkEnds(p, e) PROVE ClosedInv'
  <2>1. job[p] \in Tasks
    BY <1>4, <1>18 DEF WorkEnds
  <2>2. build' = [build EXCEPT ![job[p]] = "closed"]
        /\ job' = job /\ disturbed' = disturbed
    BY <1>18, <2>1 DEF WorkEnds
  <2>3. \A t \in Tasks : build[t] = "closed" => build'[t] = "closed"
    BY <1>18 DEF WorkEnds
  <2>4. \A q \in Procs : q # p => pc'[q] = pc[q] /\ err'[q] = err[q]
    BY <1>18 DEF WorkEnds
  <2>5. ASSUME NEW q \in Procs, job'[q] \notin disturbed', Finished(q)'
        PROVE  build'[job'[q]] = "closed"
    <3>1. CASE q = p
      BY <2>1, <2>2, <3>1
    <3>2. CASE q # p
      BY <2>2, <2>3, <2>4, <2>5, <3>2 DEF Finished
    <3>3. QED
      BY <3>1, <3>2
  <2>6. QED
    BY <2>5
<1>19. ASSUME NEW p \in Procs, PoisonKills(p) PROVE ClosedInv'
  BY <1>19, <1>3, <1>7 DEF PoisonKills
<1>20. ASSUME NEW p \in Procs, FinishTask(p) PROVE ClosedInv'
  BY <1>20 DEF FinishTask, DeleteTask, Finished
<1>21. ASSUME NEW p \in Procs, FailTask(p) PROVE ClosedInv'
  <2>1. RejectsShape(p) /\ pc[p] = "failed"
    BY <1>21, <1>2, <1>1 DEF FailTask
  <2>2. ASSUME NEW q \in Procs, pc'[q] \in {"done", "failed"}
        PROVE  pc'[q] = pc[q] /\ job'[q] = job[q] /\ err'[q] = err[q]
    BY <2>1, <2>2 DEF RejectsShape
  <2>3. QED
    BY <1>21, <2>2 DEF FailTask, Finished
<1>22. ASSUME NEW p \in Procs, GiveUpOnTask(p) PROVE ClosedInv'
  BY <1>22 DEF GiveUpOnTask, DeleteTask, Finished
<1>23. ASSUME NEW p \in Procs, GiveUpOnBuild(p) PROVE ClosedInv'
  BY <1>23 DEF GiveUpOnBuild, Finished
<1>24. ASSUME NEW p \in Procs, ClaimReplyLost(p) PROVE ClosedInv'
  BY <1>24 DEF ClaimReplyLost, Finished
<1>25. ASSUME NEW p \in Procs, RefuseFails(p) PROVE ClosedInv'
  BY <1>25 DEF RefuseFails, BacksOff, Finished
<1>26. ASSUME NEW p \in Procs, GiveUpFails(p) PROVE ClosedInv'
  BY <1>26 DEF GiveUpFails, Finished
<1>27. ASSUME NEW p \in Procs, StartFails(p) PROVE ClosedInv'
  BY <1>27 DEF StartFails, Finished
<1>28. ASSUME NEW p \in Procs, FinishFails(p) PROVE ClosedInv'
  BY <1>28 DEF FinishFails, Finished
<1>29. ASSUME NEW p \in Procs, FailTaskFails(p) PROVE ClosedInv'
  <2>1. RejectsShape(p) /\ pc[p] = "failed"
    BY <1>29, <1>2, <1>1 DEF FailTaskFails
  <2>2. ASSUME NEW q \in Procs, pc'[q] \in {"done", "failed"}
        PROVE  pc'[q] = pc[q] /\ job'[q] = job[q] /\ err'[q] = err[q]
    BY <2>1, <2>2 DEF RejectsShape
  <2>3. QED
    BY <1>29, <2>2 DEF FailTaskFails, Finished
<1>30. ASSUME NEW w \in Workers, NEW t \in Tasks, BackoffElapses(w, t) PROVE ClosedInv'
  BY <1>30 DEF BackoffElapses, Finished
<1>31. ASSUME NEW w \in Workers, NEW t \in Tasks, DeferElapses(w, t) PROVE ClosedInv'
  BY <1>31 DEF DeferElapses, Finished
<1>32. ASSUME NEW w \in Workers, HandleShutdownSignal(w) PROVE ClosedInv'
  BY <1>32 DEF HandleShutdownSignal, Finished
<1>33. ASSUME NEW w \in Workers, ShutdownReleases(w) PROVE ClosedInv'
  BY <1>33 DEF ShutdownReleases, ReleaseLock, Finished
<1>34. ASSUME NEW w \in Workers, ShutdownResets(w) PROVE ClosedInv'
  <2>1. \A t \in Tasks : build[t] = "closed" => build'[t] = "closed"
    BY <1>34 DEF ShutdownResets
  <2>2. UNCHANGED <<pc, job, err, disturbed>>
    BY <1>34 DEF ShutdownResets
  <2>3. ASSUME NEW q \in Procs, Finished(q)'
        PROVE  Finished(q) /\ job'[q] = job[q] /\ disturbed' = disturbed
    BY <2>2, <2>3 DEF Finished
  <2>4. ASSUME NEW q \in Procs, Finished(q)', job'[q] \notin disturbed'
        PROVE  build'[job'[q]] = "closed"
    <3>1. build[job[q]] = "closed" /\ job[q] \in Tasks
      BY <1>4, <2>3, <2>4 DEF Finished
    <3>2. QED
      BY <2>1, <2>3, <2>4, <3>1
  <2>5. QED
    BY <2>4
<1>35. ASSUME NEW w \in Workers, ShutdownExits(w) PROVE ClosedInv'
  BY <1>35, <1>3, <1>7 DEF ShutdownExits
<1>36. ASSUME NEW w \in Workers, Crash(w) PROVE ClosedInv'
  BY <1>36, <1>3, <1>7 DEF Crash
<1>37. ASSUME NEW w \in Workers, Boot(w) PROVE ClosedInv'
  BY <1>37 DEF Boot, Finished
<1>38. ASSUME NEW w \in Workers, NEW t \in Tasks, ReclaimUnlocks(w, t) PROVE ClosedInv'
  BY <1>38 DEF ReclaimUnlocks, ReleaseLock, Finished
<1>39. ASSUME NEW w \in Workers, ReclaimRequeues(w) PROVE ClosedInv'
  BY <1>39 DEF ReclaimRequeues, Finished
<1>40. ASSUME NEW w \in Workers, NEW t \in Tasks, ReclaimFails(w, t) PROVE ClosedInv'
  BY <1>40 DEF ReclaimFails, Finished
<1>41. ASSUME NEW w \in Workers, ReclaimDeletes(w) PROVE ClosedInv'
  BY <1>41 DEF ReclaimDeletes, DeleteTask, Finished
<1>42. ASSUME NEW w \in Workers, BootEnds(w) PROVE ClosedInv'
  BY <1>42 DEF BootEnds, Finished
<1>43. CASE UNCHANGED vars
  BY <1>43 DEF vars, Finished
<1>44. QED
  BY <1>8, <1>9, <1>10, <1>11, <1>12, <1>13, <1>14, <1>15, <1>16, <1>17, <1>18,
    <1>19, <1>20, <1>21, <1>22, <1>23, <1>24, <1>25, <1>26, <1>27, <1>28,
    <1>29, <1>30, <1>31, <1>32, <1>33, <1>34, <1>35, <1>36, <1>37, <1>38,
    <1>39, <1>40, <1>41, <1>42, <1>43 DEF Next, Handler, Fault, Shutdown,
    Reclaim

\* A row is deleted after its build is finished, or by a give-up that then finishes it.
LEMMA NoLostNext ==
  ASSUME TypeOK, JobInv, DriverInv, FlightInv, SingleFlight, LockInv,
        ReclaimInv, ClosedInv, NoLostBuild, [Next]_vars
  PROVE  NoLostBuild'
<1>1. Facts
  BY TypeFacts
<1>2. \A p \in Procs, e \in Errors : Rejects(p, e) => RejectsShape(p)
  BY RejectsStep
<1>3. \A w \in Workers : Dies(w) => DiesShape(w)
  BY DiesStep
<1>4. \A p \in Procs : pc[p] \notin {"idle", "repoll"} => job[p] \in Tasks
  BY <1>1 DEF Facts, JobInv
<1>5. \A w \in Workers : PollClaims(w) \/ NotifyClaims(w)
                         => \E p \in Procs, t \in Tasks : ClaimShape(p, t)
  BY ClaimStep
<1>6. ASSUME NEW p \in Procs, OthersKeep(p), pc[p] \notin {"work", "fail"},
             \A u \in Tasks : build[u] = "closed" => build'[u] = "closed",
             \A u \in Tasks \ disturbed' :
               row'[u] = "gone" => row[u] = "gone" \/ build'[u] = "closed"
      PROVE  NoLostBuild'
  BY <1>6, LostFrame
<1> USE <1>1 DEF Facts, NoLostBuild, ClosedInv, ReclaimInv, DriverInv, JobInv,
                Drivers, Holding, Running, rowVars, buildVars, driverVars,
                Queued
<1>7. ASSUME NEW p \in Procs, NEW t \in Tasks, ClaimShape(p, t) PROVE NoLostBuild'
  <2>1. /\ p \in Procs /\ OthersKeep(p) /\ pc[p] \notin {"work", "fail"}
        /\ \A u \in Tasks : build[u] = "closed" => build'[u] = "closed"
    BY <1>7 DEF OthersKeep, ClaimShape
  <2>2. \A u \in Tasks \ disturbed' : row'[u] = "gone" => row[u] = "gone" \/ build'[u] = "closed"
    BY <1>7 DEF ClaimShape
  <2>3. QED
    BY <1>6, <2>1, <2>2
<1>8. ASSUME NEW w \in Workers, DiesShape(w) PROVE NoLostBuild'
  <2>1. ASSUME NEW t \in Tasks \ disturbed', row'[t] = "gone", build'[t] # "closed"
        PROVE  \E q \in Procs : job'[q] = t /\ pc'[q] \in {"work", "fail"}
    <3>1. PICK q \in Procs : job[q] = t /\ pc[q] \in {"work", "fail"}
      BY <1>8, <2>1 DEF DiesShape
    <3>2. q[1] # w
      BY <1>8, <2>1, <3>1 DEF DiesShape
    <3>3. job'[q] = t /\ pc'[q] = pc[q] /\ owner'[t] = owner[t]
      BY <1>8, <3>1, <3>2 DEF DiesShape
    <3>4. QED
      BY <3>1, <3>3
  <2>2. QED
    BY <2>1
<1>9. ASSUME NEW t \in Tasks, Enqueue(t) PROVE NoLostBuild'
  BY <1>9 DEF Enqueue
<1>10. ASSUME NEW t \in Tasks, LockExpires(t) PROVE NoLostBuild'
  BY <1>10 DEF LockExpires
<1>11. ASSUME NEW w \in Workers, PollClaims(w) PROVE NoLostBuild'
  BY <1>11, <1>5, <1>7
<1>12. ASSUME NEW w \in Workers, PollFindsNothing(w) PROVE NoLostBuild'
  <2>1. <<w, "poll">> \in Procs /\ pc[<<w, "poll">>] \notin {"work", "fail"}
    BY <1>12 DEF PollFindsNothing
  <2>2. \A q \in Procs : q # <<w, "poll">> => pc'[q] = pc[q] /\ job'[q] = job[q]
    BY <1>12 DEF PollFindsNothing
  <2>3. disturbed' = disturbed
    BY <1>12 DEF PollFindsNothing
  <2>4. /\ <<w, "poll">> \in Procs /\ OthersKeep(<<w, "poll">>) /\ pc[<<w, "poll">>] \notin {"work", "fail"}
        /\ \A u \in Tasks : build[u] = "closed" => build'[u] = "closed"
    BY <1>12, <2>1, <2>2, <2>3 DEF OthersKeep, PollFindsNothing
  <2>5. \A u \in Tasks \ disturbed' : row'[u] = "gone" => row[u] = "gone" \/ build'[u] = "closed"
    BY <1>12, <2>1, <2>2, <2>3 DEF PollFindsNothing
  <2>6. QED
    BY <1>6, <2>4, <2>5
<1>13. ASSUME NEW w \in Workers, NotifyClaims(w) PROVE NoLostBuild'
  BY <1>13, <1>5, <1>7
<1>14. ASSUME NEW w \in Workers, NotifyFindsNothing(w) PROVE NoLostBuild'
  BY <1>14 DEF NotifyFindsNothing
<1>15. ASSUME NEW p \in Procs, StartTask(p) PROVE NoLostBuild'
  <2>1. /\ p \in Procs /\ OthersKeep(p) /\ pc[p] \notin {"work", "fail"}
        /\ \A u \in Tasks : build[u] = "closed" => build'[u] = "closed"
    BY <1>15 DEF OthersKeep, StartTask
  <2>2. \A u \in Tasks \ disturbed' : row'[u] = "gone" => row[u] = "gone" \/ build'[u] = "closed"
    BY <1>15 DEF StartTask
  <2>3. QED
    BY <1>6, <2>1, <2>2
<1>16. ASSUME NEW p \in Procs, RefuseTask(p) PROVE NoLostBuild'
  <2>1. /\ p \in Procs /\ OthersKeep(p) /\ pc[p] \notin {"work", "fail"}
        /\ \A u \in Tasks : build[u] = "closed" => build'[u] = "closed"
    BY <1>16 DEF OthersKeep, RefuseTask, ReleaseLock
  <2>2. \A u \in Tasks \ disturbed' : row'[u] = "gone" => row[u] = "gone" \/ build'[u] = "closed"
    BY <1>16 DEF RefuseTask, ReleaseLock
  <2>3. QED
    BY <1>6, <2>1, <2>2
<1>17. ASSUME NEW p \in Procs, CheckBaseline(p) PROVE NoLostBuild'
  <2>1. /\ p \in Procs /\ OthersKeep(p) /\ pc[p] \notin {"work", "fail"}
        /\ \A u \in Tasks : build[u] = "closed" => build'[u] = "closed"
    BY <1>17 DEF OthersKeep, CheckBaseline
  <2>2. \A u \in Tasks \ disturbed' : row'[u] = "gone" => row[u] = "gone" \/ build'[u] = "closed"
    BY <1>17 DEF CheckBaseline
  <2>3. QED
    BY <1>6, <2>1, <2>2
<1>18. ASSUME NEW p \in Procs, StartBuild(p) PROVE NoLostBuild'
  BY <1>18 DEF StartBuild
<1>19. ASSUME NEW p \in Procs, NEW e \in Errors \ {"dependency"}, WorkEnds(p, e) PROVE NoLostBuild'
  BY <1>19 DEF WorkEnds
<1>20. ASSUME NEW p \in Procs, PoisonKills(p) PROVE NoLostBuild'
  BY <1>20, <1>3, <1>8 DEF PoisonKills
<1>21. ASSUME NEW p \in Procs, FinishTask(p) PROVE NoLostBuild'
  <2>1. OthersKeep(p) /\ pc[p] = "done" /\ build' = build /\ disturbed' = disturbed
    BY <1>21 DEF OthersKeep, FinishTask
  <2>2. DeleteTask(job[p])
    BY <1>21 DEF FinishTask
  <2>3. ASSUME NEW u \in Tasks \ disturbed', row'[u] = "gone"
        PROVE  row[u] = "gone" \/ build'[u] = "closed"
    <3>1. CASE u # job[p]
      BY <2>2, <2>3, <3>1 DEF DeleteTask
    <3>2. CASE u = job[p]
      <4>1. Finished(p)
        BY <2>1 DEF Finished
      <4>2. job[p] \notin disturbed
        BY <2>1, <2>3, <3>2
      <4>3. QED
        BY <2>1, <3>2, <4>1, <4>2
    <3>3. QED
      BY <3>1, <3>2
  <2>4. QED
    BY <1>6, <2>1, <2>3
<1>22. ASSUME NEW p \in Procs, FailTask(p) PROVE NoLostBuild'
  <2>1. RejectsShape(p) /\ pc[p] = "failed"
    BY <1>22, <1>2, <1>1 DEF FailTask
  <2>2. /\ OthersKeep(p) /\ pc[p] \notin {"work", "fail"}
        /\ build' = build /\ disturbed' = disturbed
    BY <1>22, <2>1 DEF OthersKeep, FailTask, RejectsShape
  <2>3. ASSUME NEW u \in Tasks \ disturbed', row'[u] = "gone"
        PROVE  row[u] = "gone" \/ build'[u] = "closed"
    <3>1. CASE Finished(p) /\ DeleteTask(job[p])
      <4>1. \A t \in Tasks : t # job[p] => row'[t] = row[t]
        BY <3>1 DEF DeleteTask
      <4>2. QED
        BY <2>2, <2>3, <3>1, <4>1
    <3>2. CASE ReleaseLock(job[p])
      BY <2>3, <3>2 DEF ReleaseLock
    <3>3. QED
      BY <1>22, <3>1, <3>2 DEF FailTask, Finished
  <2>4. QED
    BY <1>6, <2>2, <2>3
<1>23. ASSUME NEW p \in Procs, GiveUpOnTask(p) PROVE NoLostBuild'
  <2>1. ASSUME NEW u \in Tasks \ disturbed', row'[u] = "gone", build'[u] # "closed"
        PROVE  \E q \in Procs : job'[q] = u /\ pc'[q] \in {"work", "fail"}
    <3>1. CASE row[u] = "gone"
      <4>1. PICK q \in Procs : job[q] = u /\ pc[q] \in {"work", "fail"}
        BY <1>23, <2>1, <3>1 DEF GiveUpOnTask
      <4>2. q # p
        BY <1>23, <4>1 DEF GiveUpOnTask
      <4>3. QED
        BY <1>23, <4>1, <4>2 DEF GiveUpOnTask
    <3>2. CASE row[u] # "gone"
      <4>1. u = job[p] /\ Queued(job[p])
        BY <1>23, <2>1, <3>2 DEF GiveUpOnTask, DeleteTask
      <4>2. job'[p] = u /\ pc'[p] = "fail"
        BY <1>23, <4>1 DEF GiveUpOnTask
      <4>3. QED
        BY <4>2
    <3>3. QED
      BY <3>1, <3>2
  <2>2. QED
    BY <2>1
<1>24. ASSUME NEW p \in Procs, GiveUpOnBuild(p) PROVE NoLostBuild'
  BY <1>24 DEF GiveUpOnBuild
<1>25. ASSUME NEW p \in Procs, ClaimReplyLost(p) PROVE NoLostBuild'
  <2>1. /\ p \in Procs /\ OthersKeep(p) /\ pc[p] \notin {"work", "fail"}
        /\ \A u \in Tasks : build[u] = "closed" => build'[u] = "closed"
    BY <1>25 DEF OthersKeep, ClaimReplyLost
  <2>2. \A u \in Tasks \ disturbed' : row'[u] = "gone" => row[u] = "gone" \/ build'[u] = "closed"
    BY <1>25 DEF ClaimReplyLost
  <2>3. QED
    BY <1>6, <2>1, <2>2
<1>26. ASSUME NEW p \in Procs, RefuseFails(p) PROVE NoLostBuild'
  BY <1>26 DEF RefuseFails, BacksOff
<1>27. ASSUME NEW p \in Procs, GiveUpFails(p) PROVE NoLostBuild'
  BY <1>27 DEF GiveUpFails
<1>28. ASSUME NEW p \in Procs, StartFails(p) PROVE NoLostBuild'
  <2>1. /\ p \in Procs /\ OthersKeep(p) /\ pc[p] \notin {"work", "fail"}
        /\ \A u \in Tasks : build[u] = "closed" => build'[u] = "closed"
    BY <1>28 DEF OthersKeep, StartFails
  <2>2. \A u \in Tasks \ disturbed' : row'[u] = "gone" => row[u] = "gone" \/ build'[u] = "closed"
    BY <1>28 DEF StartFails
  <2>3. QED
    BY <1>6, <2>1, <2>2
<1>29. ASSUME NEW p \in Procs, FinishFails(p) PROVE NoLostBuild'
  <2>1. /\ p \in Procs /\ OthersKeep(p) /\ pc[p] \notin {"work", "fail"}
        /\ \A u \in Tasks : build[u] = "closed" => build'[u] = "closed"
    BY <1>29 DEF OthersKeep, FinishFails
  <2>2. \A u \in Tasks \ disturbed' : row'[u] = "gone" => row[u] = "gone" \/ build'[u] = "closed"
    BY <1>29 DEF FinishFails
  <2>3. QED
    BY <1>6, <2>1, <2>2
<1>30. ASSUME NEW p \in Procs, FailTaskFails(p) PROVE NoLostBuild'
  <2>1. RejectsShape(p) /\ pc[p] = "failed"
    BY <1>30, <1>2, <1>1 DEF FailTaskFails
  <2>2. /\ p \in Procs /\ OthersKeep(p) /\ pc[p] \notin {"work", "fail"}
        /\ \A u \in Tasks : build[u] = "closed" => build'[u] = "closed"
    BY <1>30, <2>1 DEF OthersKeep, RejectsShape, FailTaskFails, DeleteTask, ReleaseLock
  <2>3. \A u \in Tasks \ disturbed' : row'[u] = "gone" => row[u] = "gone" \/ build'[u] = "closed"
    BY <1>30, <2>1 DEF RejectsShape, FailTaskFails, DeleteTask, ReleaseLock
  <2>4. QED
    BY <1>6, <2>2, <2>3
<1>31. ASSUME NEW w \in Workers, NEW t \in Tasks, BackoffElapses(w, t) PROVE NoLostBuild'
  BY <1>31 DEF BackoffElapses
<1>32. ASSUME NEW w \in Workers, NEW t \in Tasks, DeferElapses(w, t) PROVE NoLostBuild'
  BY <1>32 DEF DeferElapses
<1>33. ASSUME NEW w \in Workers, HandleShutdownSignal(w) PROVE NoLostBuild'
  BY <1>33 DEF HandleShutdownSignal
<1>34. ASSUME NEW w \in Workers, ShutdownReleases(w) PROVE NoLostBuild'
  BY <1>34 DEF ShutdownReleases, ReleaseLock
<1>35. ASSUME NEW w \in Workers, ShutdownResets(w) PROVE NoLostBuild'
  BY <1>35 DEF ShutdownResets
<1>36. ASSUME NEW w \in Workers, ShutdownExits(w) PROVE NoLostBuild'
  BY <1>36, <1>3, <1>8 DEF ShutdownExits
<1>37. ASSUME NEW w \in Workers, Crash(w) PROVE NoLostBuild'
  BY <1>37, <1>3, <1>8 DEF Crash
<1>38. ASSUME NEW w \in Workers, Boot(w) PROVE NoLostBuild'
  BY <1>38 DEF Boot
<1>39. ASSUME NEW w \in Workers, NEW t \in Tasks, ReclaimUnlocks(w, t) PROVE NoLostBuild'
  BY <1>39 DEF ReclaimUnlocks, ReleaseLock
<1>40. ASSUME NEW w \in Workers, ReclaimRequeues(w) PROVE NoLostBuild'
  BY <1>40 DEF ReclaimRequeues
<1>41. ASSUME NEW w \in Workers, NEW t \in Tasks, ReclaimFails(w, t) PROVE NoLostBuild'
  BY <1>41 DEF ReclaimFails
<1>42. ASSUME NEW w \in Workers, ReclaimDeletes(w) PROVE NoLostBuild'
  <2>1. <<w, "boot">> \in Procs /\ pc[<<w, "boot">>] \notin {"work", "fail"}
    BY <1>42 DEF ReclaimDeletes, DeleteTask
  <2>2. \A q \in Procs : q # <<w, "boot">> => pc'[q] = pc[q] /\ job'[q] = job[q]
    BY <1>42 DEF ReclaimDeletes, DeleteTask
  <2>3. disturbed' = disturbed
    BY <1>42 DEF ReclaimDeletes, DeleteTask
  <2>4. OthersKeep(<<w, "boot">>) /\ build' = build /\ job[<<w, "boot">>] \in disturbed
    BY <1>42, <2>1, <2>2, <2>3 DEF OthersKeep, ReclaimDeletes
  <2>5. \A u \in Tasks : u # job[<<w, "boot">>] => row'[u] = row[u]
    BY <1>42 DEF ReclaimDeletes, DeleteTask
  <2>6. ASSUME NEW u \in Tasks \ disturbed', row'[u] = "gone"
         PROVE  row[u] = "gone" \/ build'[u] = "closed"
    <3>1. u # job[<<w, "boot">>]
      BY <2>3, <2>4
    <3>2. QED
      BY <2>5, <2>6, <3>1
  <2>7. \A u \in Tasks : build[u] = "closed" => build'[u] = "closed"
    BY <2>4
  <2>8. QED
    BY <1>6, <2>1, <2>4, <2>6, <2>7
<1>43. ASSUME NEW w \in Workers, BootEnds(w) PROVE NoLostBuild'
  BY <1>43 DEF BootEnds
<1>44. CASE UNCHANGED vars
  BY <1>44 DEF vars
<1>45. QED
  BY <1>9, <1>10, <1>11, <1>12, <1>13, <1>14, <1>15, <1>16, <1>17, <1>18, <1>19,
    <1>20, <1>21, <1>22, <1>23, <1>24, <1>25, <1>26, <1>27, <1>28, <1>29,
    <1>30, <1>31, <1>32, <1>33, <1>34, <1>35, <1>36, <1>37, <1>38, <1>39,
    <1>40, <1>41, <1>42, <1>43, <1>44 DEF Next, Handler, Fault, Shutdown,
    Reclaim

\* The inductive invariant holds at the start.
LEMMA InitInv == Init => IInv
<1> SUFFICES ASSUME Init PROVE IInv
  OBVIOUS
<1> USE QueueAssumption DEF Init
<1>1. TypeOK
  BY DEF TypeOK, RowStates, Modes, Errors, Steps, Procs, Drivers
<1>2. \A p \in Procs : pc[p] = "idle" /\ job[p] = NoTask
  OBVIOUS
<1>3. JobInv /\ DriverInv
  BY <1>2 DEF JobInv, DriverInv
<1>4. FlightInv /\ SingleFlight
  BY <1>2 DEF FlightInv, SingleFlight, Holding, Running
<1>5. LockInv /\ ExclusiveProcessing
  BY <1>2 DEF LockInv, ExclusiveProcessing, Holds, Holding
<1>6. ReclaimInv
  BY <1>2 DEF ReclaimInv
<1>7. OwnerInv /\ ClosedInv
  BY <1>2 DEF OwnerInv, ClosedInv, Finished
<1>8. NoLostBuild
  BY DEF NoLostBuild
<1>9. QED
  BY <1>1, <1>3, <1>4, <1>5, <1>6, <1>7, <1>8 DEF IInv

\* Every step keeps it.
LEMMA StepInv == IInv /\ [Next]_vars => IInv'
<1> SUFFICES ASSUME IInv, [Next]_vars PROVE IInv'
  OBVIOUS
<1>1. /\ TypeOK /\ JobInv /\ DriverInv /\ FlightInv /\ SingleFlight
      /\ LockInv /\ ExclusiveProcessing /\ ReclaimInv /\ OwnerInv /\ ClosedInv /\ NoLostBuild
  BY DEF IInv
<1>2. TypeOK' /\ JobInv' /\ DriverInv'
  BY <1>1, TypeNext, JobNext, DriverNext
<1>3. FlightInv' /\ SingleFlight'
  BY <1>1, FlightNext, SingleFlightNext
<1>4. LockInv' /\ ExclusiveProcessing' /\ ReclaimInv'
  BY <1>1, LockNext, ReclaimNext DEF HeldInv
<1>5. OwnerInv' /\ ClosedInv' /\ NoLostBuild'
  BY <1>1, OwnerNext, ClosedNext, NoLostNext
<1>6. QED
  BY <1>2, <1>3, <1>4, <1>5 DEF IInv

\* Every reachable state of the queue satisfies the inductive invariant.
THEOREM Invariance == Spec => []IInv
  BY InitInv, StepInv, PTL DEF Spec

(***************************************************************************)
(* What the invariant says of the queue.                                   *)
(***************************************************************************)

\* Every variable keeps to its type, for any number of workers and tasks.
THEOREM TypeCorrect == Spec => []TypeOK
<1>1. IInv => TypeOK
  BY DEF IInv
<1>2. QED
  BY <1>1, Invariance, PTL

\* Until a signal or a crash disturbs a task, one driver at most processes it.
THEOREM Exclusive == Spec => []ExclusiveProcessing
<1>1. IInv => ExclusiveProcessing
  BY DEF IInv
<1>2. QED
  BY <1>1, Invariance, PTL

\* No worker ever locks a row it cannot process at once.
THEOREM OneFlight == Spec => []SingleFlight
<1>1. IInv => SingleFlight
  BY DEF IInv
<1>2. QED
  BY <1>1, Invariance, PTL

\* No undisturbed build is left behind without its row.
THEOREM NoBuildLost == Spec => []NoLostBuild
<1>1. IInv => NoLostBuild
  BY DEF IInv
<1>2. QED
  BY <1>1, Invariance, PTL

----------------------------------------------------------------------------
(***************************************************************************)
(* The order of a backlog, for one worker.  Of the tasks that are older    *)
(* than their baseline there is one at most: of two, each may be claimed   *)
(* while the window of the other is open, until neither is deferred any    *)
(* more and it is rendered before its baseline.                            *)
(***************************************************************************)

\* One worker, a backlog that is complete when it starts, and nothing that fails but a render.  No
\* baseline waits for another; and one that has a higher id than its dependent is the oldest but
\* for it.
OneBehind ==
  /\ MaxDeferCount > 0 /\ Preloaded = Tasks /\ Poison = {}
  /\ MaxCrashes = 0 /\ MaxSignals = 0 /\ MaxFaults = 0
  /\ \A v, w \in Workers : v = w
  /\ \A t \in Tasks :
       Dep[t] # NoTask => /\ Dep[Dep[t]] = NoTask
                          /\ Dep[t] < t \/ \A u \in Tasks : u < Dep[t] => u = t

\* The dependents that are older than their baseline.
Behind == {t \in Tasks : Dep[t] # NoTask /\ ~(Dep[t] < t)}

\* Only the poll loop is at work.
PollOnlyInv ==
  /\ \A w \in Workers : /\ mode[w] = "up" /\ notified[w] = {}
                        /\ inFlight[w] => pc[<<w, "poll">>] = "reply"
  /\ \A p \in Procs : p[2] # "poll" => pc[p] = "idle"
  /\ \A t \in Tasks : row[t] # "absent"

\* A build is pending until its task is rendered: nothing but a claim of it, or its deferral, keeps
\* the poll loop from it.
Untouched(w) ==
  LET p == <<w, "poll">>
  IN \A t \in Tasks :
       /\ build[t] = "pending" =>
            /\ t \notin backing[w]
            /\ row[t] = "free" \/ (row[t] = "locked" /\ by[t] = w /\ job[p] = t
                                   /\ pc[p] \in {"reply", "gate", "start", "failed"})
       /\ build[t] = "running" => job[p] = t /\ pc[p] = "work"

\* What a handler fails with says how far it has come.
FailsLate(w) ==
  LET p == <<w, "poll">>
  IN /\ pc[p] = "failed" /\ build[job[p]] = "pending" => err[p] = "dependency"
     /\ pc[p] = "failed" /\ err[p] = "dependency" => BaselinePending(job[p])
     /\ pc[p] \in {"work", "done", "giveup", "fail"} => build[job[p]] # "pending"

\* A task whose baseline has not been rendered is not held, unless it is the one that is behind and
\* has not been deferred; once it has, the baseline is next.
TakeTurns(w) ==
  LET p == <<w, "poll">>
  IN /\ deferring[w] \subseteq Behind
     /\ \A t \in Tasks :
          Dep[t] # NoTask /\ build[Dep[t]] = "pending" =>
            /\ pc[p] \in Holding /\ job[p] = t =>
                 t \in Behind /\ defers[w][t] = 0 /\ pc[p] \in {"reply", "gate", "failed"}
            /\ defers[w][t] > 0 => \/ pc[p] = "repoll" /\ t \in deferring[w]
                                   \/ pc[p] \in Holding /\ job[p] = Dep[t]

OrderInv ==
  PollOnlyInv /\ \A w \in Workers : Untouched(w) /\ FailsLate(w) /\ TakeTurns(w)

\* What the invariants say of the one driver that works.
PollFacts(w) ==
  LET p == <<w, "poll">>
  IN /\ p \in Procs /\ \A q \in Procs : pc[q] # "idle" => q = p
     /\ \A v \in Workers : v = w
     /\ pc[p] \in {"idle", "repoll"} \/ job[p] \in Tasks
     /\ pc[p] \in {"idle", "repoll", "reply", "gate", "start", "work", "done", "failed", "giveup", "fail"}
     /\ current[w] # NoTask <=> pc[p] \in Running

\* They do.
LEMMA OnlyPoll ==
  ASSUME IInv, OneBehind, PollOnlyInv, NEW w \in Workers
  PROVE  PollFacts(w)
<1> DEFINE p == <<w, "poll">>
<1>1. p \in Procs /\ p[1] = w /\ p[2] = "poll"
  BY DEF Procs, Drivers
<1>2. \A v \in Workers : v = w
  BY DEF OneBehind
<1>3. \A q \in Procs : q[1] \in Workers /\ q[2] \in Drivers /\ q = <<q[1], q[2]>>
  BY DEF Procs
<1>4. \A q \in Procs : pc[q] # "idle" => q = p
  BY <1>2, <1>3 DEF PollOnlyInv
<1>5. pc[p] \in Steps /\ (pc[p] \in {"idle", "repoll"} \/ job[p] \in Tasks)
  BY <1>1 DEF IInv, TypeOK, JobInv
<1>6. pc[p] \notin {"refuse", "unlocked", "condemned"}
  BY <1>1 DEF IInv, SingleFlight, DriverInv, PollOnlyInv, ShuttingDown
<1>7. current[w] # NoTask => pc[p] \in Running
  BY <1>4 DEF IInv, FlightInv, Running
<1>8. pc[p] \in Running => current[w] = job[p] /\ job[p] # NoTask
  BY <1>1, <1>5, QueueAssumption DEF IInv, FlightInv, Running
<1> QED
  BY <1>1, <1>2, <1>4, <1>5, <1>6, <1>7, <1>8 DEF PollFacts, Steps, Holding

\* The steps that are left to it.
PollStep(w) ==
  LET p == <<w, "poll">>
  IN \/ PollClaims(w) \/ PollFindsNothing(w) \/ StartTask(p) \/ CheckBaseline(p) \/ StartBuild(p)
     \/ \E e \in Errors \ {"dependency"} : WorkEnds(p, e)
     \/ FinishTask(p) \/ FailTask(p) \/ GiveUpOnTask(p) \/ GiveUpOnBuild(p)
     \/ \E t \in Tasks : LockExpires(t) \/ BackoffElapses(w, t) \/ DeferElapses(w, t)

\* There are no others.
LEMMA OnlyPollSteps ==
  ASSUME IInv, OneBehind, PollOnlyInv, NEW w \in Workers, Next
  PROVE  PollStep(w)
<1> DEFINE p == <<w, "poll">>
<1>1. /\ p \in Procs /\ \A q \in Procs : pc[q] # "idle" => q = p
      /\ \A v \in Workers : v = w
      /\ pc[p] \notin {"refuse", "unlocked", "condemned"}
  BY OnlyPoll DEF PollFacts
<1>2. /\ ~(faults < MaxFaults) /\ ~(crashes < MaxCrashes) /\ ~(signals < MaxSignals)
      /\ Poison = {}
  BY DEF OneBehind, IInv, TypeOK
<1>3. mode[w] = "up" /\ notified[w] = {} /\ \A t \in Tasks : row[t] # "absent"
  BY DEF PollOnlyInv
<1>4. orphans[w] = {} /\ pc[<<w, "boot">>] = "idle"
  BY <1>3 DEF IInv, DriverInv, PollOnlyInv, Procs, Drivers
<1>5. ASSUME NEW q \in Procs, Handler(q) PROVE PollStep(w)
  <2>1. pc[q] # "idle"
    BY <1>5 DEF Handler, StartTask, RefuseTask, CheckBaseline, StartBuild, WorkEnds, PoisonKills,
                FinishTask, FailTask, GiveUpOnTask, GiveUpOnBuild
  <2>2. q = p
    BY <1>1, <2>1
  <2> QED
    BY <1>1, <1>2, <1>5, <2>2 DEF Handler, PollStep, RefuseTask, PoisonKills
<1>6. ASSUME NEW q \in Procs, Fault(q) PROVE FALSE
  BY <1>2, <1>6 DEF Fault, ClaimReplyLost, RefuseFails, StartFails, FinishFails, FailTaskFails,
                    GiveUpFails
<1>7. ~Shutdown(w) /\ ~Reclaim(w)
  BY <1>1, <1>3, <1>4 DEF Shutdown, ShutdownReleases, ShutdownResets, ShutdownExits, Reclaim,
       ReclaimUnlocks, ReclaimFails, ReclaimRequeues, ReclaimDeletes, BootEnds
<1>8. ~NotifyClaims(w) /\ ~NotifyFindsNothing(w)
  BY <1>3 DEF NotifyClaims, NotifyFindsNothing
<1>9. ~HandleShutdownSignal(w) /\ ~Crash(w) /\ ~Boot(w)
  BY <1>2, <1>3 DEF HandleShutdownSignal, Crash, Boot
<1>10. \A t \in Tasks : ~Enqueue(t)
  BY <1>3 DEF Enqueue
<1> QED
  BY <1>1, <1>5, <1>6, <1>7, <1>8, <1>9, <1>10 DEF Next, PollStep

\* Nothing but the poll loop gets to work.
LEMMA PollOnlyNext ==
  ASSUME IInv, IInv', OneBehind, PollOnlyInv, NEW w \in Workers, PollStep(w)
  PROVE  PollOnlyInv'
<1> DEFINE p == <<w, "poll">>
<1>1. PollFacts(w)
  BY OnlyPoll
<1>2. p \in Procs /\ p[1] = w /\ p[2] = "poll" /\ \A v \in Workers : v = w
  BY <1>1 DEF PollFacts
<1>3. TypeOK /\ TypeOK'
  BY DEF IInv
<1>4. mode' = mode /\ UNCHANGED notified
  BY DEF PollStep, PollClaims, ClaimNextTask, PollFindsNothing, StartTask, CheckBaseline, StartBuild,
         WorkEnds, FinishTask, FailTask, GiveUpOnTask, GiveUpOnBuild, LockExpires, BackoffElapses,
         DeferElapses
<1>5. \A q \in Procs : q # p => pc'[q] = pc[q]
  BY <1>2, <1>3 DEF PollStep, PollClaims, ClaimNextTask, PollFindsNothing, StartTask, CheckBaseline,
         StartBuild, WorkEnds, FinishTask, FailTask, Rejects, Defers, BacksOff, GiveUpOnTask,
         GiveUpOnBuild, LockExpires, BackoffElapses, DeferElapses, driverVars, TypeOK
<1>6. inFlight'[w] => pc'[p] = "reply"
  <2>1. inFlight[w] => pc[p] = "reply"
    BY <1>2 DEF PollOnlyInv
  <2>2. CASE PollClaims(w)
    BY <1>2, <1>3, <2>2 DEF PollClaims, ClaimNextTask, TypeOK
  <2>3. CASE StartTask(p)
    BY <1>2, <1>3, <2>3 DEF StartTask, TypeOK
  <2>4. CASE ~PollClaims(w) /\ ~StartTask(p)
    <3>1. inFlight' = inFlight
      BY <2>4 DEF PollStep, PollFindsNothing, CheckBaseline, StartBuild, WorkEnds, FinishTask,
             FailTask, Rejects, GiveUpOnTask, GiveUpOnBuild, LockExpires, BackoffElapses,
             DeferElapses, driverVars
    <3>2. pc[p] = "reply" => pc' = pc
      BY <2>4 DEF PollStep, PollFindsNothing, CheckBaseline, StartBuild, WorkEnds, FinishTask,
             FailTask, GiveUpOnTask, GiveUpOnBuild, LockExpires, BackoffElapses,
             DeferElapses, driverVars
    <3> QED
      BY <2>1, <3>1, <3>2
  <2> QED
    BY <2>2, <2>3, <2>4
<1>7. \A t \in Tasks : row'[t] # "absent"
  <2>1. \A t \in Tasks : row[t] # "absent"
    BY DEF PollOnlyInv
  <2>2. row' = row \/ \E t \in Tasks : \E s \in {"free", "locked", "stale", "gone", row[t]} :
                                     row' = [row EXCEPT ![t] = s]
    <3>1. CASE PollClaims(w)
      BY <3>1 DEF PollClaims, ClaimNextTask
    <3>2. CASE \E t \in Tasks : LockExpires(t)
      BY <3>2 DEF LockExpires
    <3>3. CASE FinishTask(p) \/ FailTask(p) \/ GiveUpOnTask(p)
      <4>1. job[p] \in Tasks /\ (DeleteTask(job[p]) \/ ReleaseLock(job[p]))
        BY <1>1, <3>3 DEF PollFacts, FinishTask, FailTask, GiveUpOnTask
      <4> QED
        BY <4>1 DEF DeleteTask, ReleaseLock
    <3>4. CASE ~(PollClaims(w) \/ (\E t \in Tasks : LockExpires(t))
                 \/ FinishTask(p) \/ FailTask(p) \/ GiveUpOnTask(p))
      BY <3>4 DEF PollStep, PollFindsNothing, StartTask, CheckBaseline, StartBuild, WorkEnds,
             GiveUpOnBuild, BackoffElapses, DeferElapses, rowVars
    <3> QED
      BY <3>1, <3>2, <3>3, <3>4
  <2> QED
    BY <1>3, <2>1, <2>2 DEF TypeOK
<1> QED
  BY <1>2, <1>4, <1>5, <1>6, <1>7 DEF PollOnlyInv

\* The maps of a worker after the edits the actions make.
LEMMA MapEntries ==
  ASSUME TypeOK, NEW w \in Workers, NEW t \in Tasks
  PROVE  /\ \A u \in Tasks : Clear(defers, w, t)[w][u] \in {0, defers[w][u]}
         /\ \A u \in Tasks : u # t => Bump(defers, w, t, MaxDeferCount)[w][u] = defers[w][u]
         /\ Drop(backing, w, t)[w] = backing[w] \ {t}
         /\ Drop(deferring, w, t)[w] = deferring[w] \ {t}
         /\ [deferring EXCEPT ![w] = @ \cup {t}][w] = deferring[w] \cup {t}
<1>1. /\ defers \in [Workers -> [Tasks -> 0 .. MaxDeferCount]] /\ MaxDeferCount \in Nat
      /\ backing \in [Workers -> SUBSET Tasks] /\ deferring \in [Workers -> SUBSET Tasks]
  BY QueueAssumption DEF TypeOK
<1>2. /\ Drop(backing, w, t)[w] = backing[w] \ {t} /\ Drop(deferring, w, t)[w] = deferring[w] \ {t}
      /\ [deferring EXCEPT ![w] = @ \cup {t}][w] = deferring[w] \cup {t}
  BY <1>1 DEF Drop
<1>3. defers[w] \in [Tasks -> 0 .. MaxDeferCount]
  BY <1>1
<1>4. \A n : /\ [defers EXCEPT ![w] = [defers[w] EXCEPT ![t] = n]][w][t] = n
             /\ \A u \in Tasks :
                  u # t => [defers EXCEPT ![w] = [defers[w] EXCEPT ![t] = n]][w][u] = defers[w][u]
  BY <1>1, <1>3
<1> QED
  BY <1>2, <1>3, <1>4 DEF Clear, Bump

\* The baseline that a task waits for, and no older task but this one, can be claimed.
LEMMA BaselineEligible ==
  ASSUME IInv, OneBehind, OrderInv, NEW w \in Workers,
         pc[<<w, "poll">>] \in {"idle", "repoll"},
         NEW t \in Tasks, Dep[t] # NoTask, build[Dep[t]] = "pending"
  PROVE  /\ Dep[t] \in Eligible(w)
         /\ Dep[t] < t \/ \A u \in Tasks : u < Dep[t] => u = t
         /\ Idle(w)
<1>1. Dep[t] \in Tasks /\ Dep[Dep[t]] = NoTask
      /\ (Dep[t] < t \/ \A u \in Tasks : u < Dep[t] => u = t)
  BY QueueAssumption DEF OneBehind
<1>2. Dep[t] \notin backing[w] /\ row[Dep[t]] = "free"
  BY <1>1 DEF OrderInv, Untouched
<1>3. Dep[t] \notin deferring[w]
  BY <1>1 DEF OrderInv, TakeTurns, Behind
<1>4. mode[w] = "up" /\ ~inFlight[w]
  BY DEF OrderInv, PollOnlyInv
<1>5. current[w] = NoTask
  BY OnlyPoll DEF OrderInv, PollFacts, Running
<1> QED
  BY <1>1, <1>2, <1>3, <1>4, <1>5 DEF Eligible, CurrentExcludeIds, Idle

\* Each step keeps the order.
LEMMA OrderNext ==
  ASSUME IInv, IInv', OneBehind, OrderInv, NEW w \in Workers, PollStep(w)
  PROVE  (Untouched(w) /\ FailsLate(w) /\ TakeTurns(w))'
<1> DEFINE p == <<w, "poll">>
<1>1. /\ p \in Procs /\ p[1] = w /\ p[2] = "poll" /\ pc[p] # "refuse"
      /\ pc[p] \in {"idle", "repoll"} \/ job[p] \in Tasks
      /\ current[w] # NoTask <=> pc[p] \in Running
  BY OnlyPoll DEF OrderInv, PollFacts
<1>2. TypeOK /\ TypeOK' /\ (pc[p] \in {"idle", "repoll"} <=> job[p] = NoTask)
      /\ (pc'[p] \in {"idle", "repoll"} <=> job'[p] = NoTask)
  BY <1>1 DEF IInv, JobInv
<1>3. Untouched(w) /\ FailsLate(w) /\ TakeTurns(w) /\ mode[w] = "up"
  BY DEF OrderInv, PollOnlyInv
<1>4. /\ \A t \in Tasks : Dep[t] # NoTask => Dep[t] \in Tasks /\ Dep[Dep[t]] = NoTask
      /\ MaxDeferCount > 0 /\ MaxDeferCount \in Nat /\ MaxRetryCount \in Nat
      /\ Tasks \subseteq Nat /\ NoTask \notin Tasks
  BY QueueAssumption DEF OneBehind
<1> HIDE DEF p
<1>5. CASE PollClaims(w)
  <2>1. PICK t \in Tasks : ClaimNextTask(w, "poll", t)
    BY <1>5 DEF PollClaims
  <2>2. /\ t \in Eligible(w) /\ \A u \in Eligible(w) : t <= u
        /\ row' = [row EXCEPT ![t] = "locked"] /\ by' = [by EXCEPT ![t] = w]
        /\ pc' = [pc EXCEPT ![p] = "reply"] /\ job' = [job EXCEPT ![p] = t]
        /\ UNCHANGED <<build, defers, deferring, backing, err>>
    BY <2>1 DEF ClaimNextTask, p, buildVars, mapVars
  <2>3. pc[p] \in {"idle", "repoll"} /\ job[p] = NoTask
    BY <1>2, <1>5 DEF PollClaims, p
  <2>4. pc'[p] = "reply" /\ job'[p] = t
    BY <1>1, <1>2, <2>2 DEF TypeOK
  <2>5. Untouched(w)'
    BY <1>2, <1>3, <1>4, <2>2, <2>3, <2>4 DEF Untouched, TypeOK, p
  <2>6. FailsLate(w)'
    BY <2>4 DEF FailsLate, p
  <2>7. ASSUME NEW u \in Tasks, Dep[u] # NoTask, build[Dep[u]] = "pending"
        PROVE  /\ t = u => u \in Behind /\ defers[w][u] = 0
               /\ defers[w][u] > 0 => t = Dep[u]
    <3>1. Dep[u] \in Eligible(w) /\ (Dep[u] < u \/ \A v \in Tasks : v < Dep[u] => v = u)
      BY <2>3, <2>7, BaselineEligible DEF p
    <3>2. t <= Dep[u] /\ t \in Nat /\ u \in Nat /\ Dep[u] \in Nat
      BY <1>4, <2>2, <2>7, <3>1
    <3>3. defers[w][u] > 0 => u \in deferring[w]
      BY <1>3, <2>3, <2>7 DEF TakeTurns, p, Holding
    <3>4. u \in deferring[w] => u # t /\ u \in Behind
      BY <1>3, <2>2 DEF TakeTurns, Eligible, CurrentExcludeIds
    <3>5. defers[w][u] \in Nat
      BY <1>2, <1>4 DEF TypeOK
    <3>6. t = u => u \in Behind
      BY <2>7, <3>2 DEF Behind
    <3>7. u \in Behind /\ u # t => t = Dep[u]
      BY <2>7, <3>1, <3>2 DEF Behind
    <3> QED
      BY <3>3, <3>4, <3>5, <3>6, <3>7
  <2>8. TakeTurns(w)'
    BY <1>3, <2>2, <2>4, <2>7 DEF TakeTurns, p, Holding
  <2> QED
    BY <2>5, <2>6, <2>8
<1>6. CASE PollFindsNothing(w)
  <2>1. /\ pc[p] = "repoll" /\ (~Idle(w) \/ Eligible(w) = {})
        /\ pc' = [pc EXCEPT ![p] = "idle"]
        /\ UNCHANGED <<row, by, build, job, defers, deferring, backing, err>>
    BY <1>6 DEF PollFindsNothing, p, rowVars, buildVars, mapVars
  <2>2. pc'[p] = "idle" /\ job[p] = NoTask
    BY <1>1, <1>2, <2>1 DEF TypeOK
  <2>3. Untouched(w)'
    BY <1>3, <1>4, <2>1, <2>2 DEF Untouched, p
  <2>4. \A u \in Tasks : ~(Dep[u] # NoTask /\ build[Dep[u]] = "pending")
    BY <2>1, BaselineEligible DEF p
  <2> QED
    BY <1>3, <2>1, <2>2, <2>3, <2>4 DEF FailsLate, TakeTurns, p
<1>7. CASE StartTask(p)
  <2>1. pc[p] = "reply" /\ current[w] = NoTask
    BY <1>1, <1>7 DEF StartTask, Running
  <2>2. /\ pc' = [pc EXCEPT ![p] = "gate"]
        /\ UNCHANGED <<row, by, build, job, defers, deferring, backing, err>>
    BY <1>1, <1>3, <1>7, <2>1 DEF StartTask, ShuttingDown, rowVars, buildVars, mapVars
  <2>3. pc'[p] = "gate"
    BY <1>1, <1>2, <2>2 DEF TypeOK
  <2> QED
    BY <1>3, <2>1, <2>2, <2>3 DEF Untouched, FailsLate, TakeTurns, p, Holding
<1>8. CASE CheckBaseline(p)
  <2> DEFINE deferred == defers[w][job[p]] < MaxDeferCount /\ BaselinePending(job[p])
  <2>1. /\ pc[p] = "gate" /\ pc' = [pc EXCEPT ![p] = IF deferred THEN "failed" ELSE "start"]
        /\ err' = [err EXCEPT ![p] = IF deferred THEN "dependency" ELSE "none"]
        /\ UNCHANGED <<row, by, build, job, defers, deferring, backing>>
    BY <1>1, <1>8 DEF CheckBaseline, rowVars, buildVars, mapVars
  <2>2. pc'[p] = (IF deferred THEN "failed" ELSE "start")
        /\ err'[p] = (IF deferred THEN "dependency" ELSE "none")
    BY <1>1, <1>2, <2>1 DEF TypeOK
  <2>3. Untouched(w)'
    BY <1>3, <2>1, <2>2 DEF Untouched, p
  <2>4. FailsLate(w)'
    BY <2>1, <2>2 DEF FailsLate, p, BaselinePending
  <2>5. \A t \in Tasks : Dep[t] # NoTask /\ build[Dep[t]] = "pending" /\ job[p] = t => deferred
    BY <1>3, <1>4, <2>1 DEF TakeTurns, p, Holding, BaselinePending
  <2> QED
    BY <1>3, <2>1, <2>2, <2>3, <2>4, <2>5 DEF TakeTurns, p, Holding
<1>9. CASE StartBuild(p)
  <2>1. /\ pc[p] = "start" /\ build' = [build EXCEPT ![job[p]] = "running"]
        /\ pc' = [pc EXCEPT ![p] = "work"]
        /\ UNCHANGED <<row, by, job, defers, deferring, backing, err>>
    BY <1>9 DEF StartBuild, rowVars, mapVars
  <2>2. pc'[p] = "work" /\ job[p] \in Tasks /\ build'[job[p]] = "running"
        /\ \A u \in Tasks : u # job[p] => build'[u] = build[u]
    BY <1>1, <1>2, <2>1 DEF TypeOK
  <2>3. Untouched(w)'
    BY <1>3, <2>1, <2>2 DEF Untouched, p
  <2>4. FailsLate(w)'
    BY <2>1, <2>2 DEF FailsLate, p
  <2>5. TakeTurns(w)'
    BY <1>3, <1>4, <2>1, <2>2 DEF TakeTurns, p, Holding
  <2> QED
    BY <2>3, <2>4, <2>5
<1>10. CASE \E e \in Errors \ {"dependency"} : WorkEnds(p, e)
  <2>1. PICK e \in Errors \ {"dependency"} : WorkEnds(p, e)
    BY <1>10
  <2>2. /\ pc[p] = "work" /\ build' = [build EXCEPT ![job[p]] = "closed"]
        /\ pc' = [pc EXCEPT ![p] = IF e = "none" THEN "done" ELSE "failed"]
        /\ err' = [err EXCEPT ![p] = e]
        /\ UNCHANGED <<row, by, job, defers, deferring, backing>>
    BY <2>1 DEF WorkEnds, rowVars, mapVars
  <2>3. pc'[p] \in {"done", "failed"} /\ err'[p] # "dependency" /\ job[p] \in Tasks
        /\ build'[job[p]] = "closed" /\ \A u \in Tasks : u # job[p] => build'[u] = build[u]
    BY <1>1, <1>2, <2>2 DEF TypeOK
  <2>4. Untouched(w)'
    BY <1>3, <2>2, <2>3 DEF Untouched, p
  <2>5. FailsLate(w)'
    BY <2>2, <2>3 DEF FailsLate, p
  <2>6. TakeTurns(w)'
    BY <1>3, <1>4, <2>2, <2>3 DEF TakeTurns, p, Holding
  <2> QED
    BY <2>4, <2>5, <2>6
<1>11. ASSUME pc[p] \in {"done", "failed", "giveup", "fail"}, build[job[p]] # "pending",
              pc'[p] \in {"idle", "giveup", "fail"},
              pc'[p] \in {"giveup", "fail"} => job'[p] = job[p],
              build' \in {build, [build EXCEPT ![job[p]] = "closed"]},
              \A t \in Tasks : t # job[p] => row'[t] = row[t] /\ by'[t] = by[t],
              backing'[w] \subseteq backing[w] \cup {job[p]},
              deferring'[w] \subseteq deferring[w],
              \A t \in Tasks : defers'[w][t] \in {0, defers[w][t]}
       PROVE  (Untouched(w) /\ FailsLate(w) /\ TakeTurns(w))'
  <2>1. job[p] \in Tasks /\ \A t \in Tasks : build'[t] # build[t] => t = job[p] /\ build'[t] = "closed"
    BY <1>1, <1>2, <1>11 DEF TypeOK
  <2>2. \A t \in Tasks : build'[t] = "pending" <=> build[t] = "pending"
    BY <1>11, <2>1
  <2>3. Untouched(w)'
    BY <1>3, <1>11, <2>1 DEF Untouched, p
  <2>4. FailsLate(w)'
    BY <1>11, <2>1 DEF FailsLate, p
  <2>5. TakeTurns(w)'
    <3>1. deferring'[w] \subseteq Behind
      BY <1>3, <1>11 DEF TakeTurns
    <3>2. ASSUME NEW t \in Tasks, Dep[t] # NoTask, build'[Dep[t]] = "pending"
          PROVE  ~(defers'[w][t] > 0)
      <4>1. build[Dep[t]] = "pending" /\ Dep[t] # job[p]
        BY <1>4, <1>11, <2>2, <3>2
      <4>2. ~(defers[w][t] > 0)
        BY <1>3, <1>11, <3>2, <4>1 DEF TakeTurns, p
      <4>3. defers'[w][t] \in {0, defers[w][t]}
        BY <1>11
      <4> QED
        BY <4>2, <4>3
    <3> QED
      BY <1>11, <3>1, <3>2 DEF TakeTurns, p, Holding
  <2> QED
    BY <2>3, <2>4, <2>5
<1>12. CASE FinishTask(p)
  <2>1. /\ pc[p] = "done" /\ DeleteTask(job[p]) /\ pc' = [pc EXCEPT ![p] = "idle"]
        /\ backing' = Drop(backing, w, job[p]) /\ defers' = Clear(defers, w, job[p])
        /\ deferring' = Drop(deferring, w, job[p]) /\ UNCHANGED build
    BY <1>1, <1>12 DEF FinishTask, buildVars
  <2>2. job[p] \in Tasks /\ build[job[p]] # "pending" /\ pc'[p] = "idle"
    BY <1>1, <1>2, <1>3, <2>1 DEF FailsLate, TypeOK, p
  <2>3. \A t \in Tasks : t # job[p] => row'[t] = row[t] /\ by'[t] = by[t]
    BY <1>2, <2>1 DEF DeleteTask, TypeOK
  <2>4. /\ \A t \in Tasks : defers'[w][t] \in {0, defers[w][t]}
        /\ backing'[w] \subseteq backing[w] /\ deferring'[w] \subseteq deferring[w]
    BY <1>2, <2>1, <2>2, MapEntries
  <2> QED
    BY <1>11, <2>1, <2>2, <2>3, <2>4
<1>13. CASE GiveUpOnTask(p)
  <2>1. /\ pc[p] = "giveup" /\ DeleteTask(job[p])
        /\ pc' = [pc EXCEPT ![p] = IF Queued(job[p]) THEN "fail" ELSE "idle"]
        /\ job' = [job EXCEPT ![p] = IF Queued(job[p]) THEN @ ELSE NoTask]
        /\ UNCHANGED <<build, backing, defers, deferring>>
    BY <1>13 DEF GiveUpOnTask, buildVars, mapVars
  <2>2. /\ job[p] \in Tasks /\ build[job[p]] # "pending" /\ pc'[p] \in {"fail", "idle"}
        /\ pc'[p] = "fail" => job'[p] = job[p]
    BY <1>1, <1>2, <1>3, <2>1 DEF FailsLate, TypeOK, p
  <2>3. \A t \in Tasks : t # job[p] => row'[t] = row[t] /\ by'[t] = by[t]
    BY <1>2, <2>1 DEF DeleteTask, TypeOK
  <2>4. \A t \in Tasks : defers'[w][t] = defers[w][t]
    BY <2>1
  <2> QED
    BY <1>11, <2>1, <2>2, <2>3, <2>4
<1>14. CASE GiveUpOnBuild(p)
  <2>1. /\ pc[p] = "fail" /\ pc' = [pc EXCEPT ![p] = "idle"]
        /\ build' = [build EXCEPT ![job[p]] = "closed"]
        /\ UNCHANGED <<row, by, backing, defers, deferring>>
    BY <1>14 DEF GiveUpOnBuild, rowVars, mapVars
  <2>2. build[job[p]] # "pending" /\ pc'[p] = "idle"
    BY <1>1, <1>2, <1>3, <2>1 DEF FailsLate, TypeOK, p
  <2> QED
    BY <1>11, <2>1, <2>2
<1>15. CASE FailTask(p)
  <2>1. /\ pc[p] = "failed" /\ job[p] \in Tasks /\ UNCHANGED build
        /\ (DeleteTask(job[p]) \/ ReleaseLock(job[p]))
        /\ err[p] \notin {"permanent", "timeout"} => ReleaseLock(job[p])
    BY <1>1, <1>15 DEF FailTask, buildVars
  <2>2. \A t \in Tasks : t # job[p] => row'[t] = row[t] /\ by'[t] = by[t]
    BY <1>2, <2>1 DEF DeleteTask, ReleaseLock, TypeOK
  <2>3. CASE err[p] = "permanent"
    <3>1. /\ pc' = [pc EXCEPT ![p] = "idle"] /\ backing' = Drop(backing, w, job[p])
          /\ UNCHANGED <<defers, deferring>>
      BY <1>1, <1>15, <2>3 DEF FailTask, Rejects
    <3>2. pc'[p] = "idle" /\ build[job[p]] # "pending"
      BY <1>1, <1>2, <1>3, <2>1, <2>3, <3>1 DEF FailsLate, TypeOK, p
    <3>3. backing'[w] \subseteq backing[w]
      BY <1>2, <2>1, <3>1, MapEntries
    <3> QED
      BY <1>11, <2>1, <2>2, <3>1, <3>2, <3>3
  <2>4. CASE err[p] \notin {"permanent", "dependency"}
    <3>1. BacksOff(p) /\ build[job[p]] # "pending"
      BY <1>1, <1>3, <1>15, <2>1, <2>4 DEF FailTask, Rejects, FailsLate, p
    <3>2. CASE fails[w][job[p]] < MaxRetryCount
      <4>1. /\ pc' = [pc EXCEPT ![p] = "idle"] /\ UNCHANGED <<defers, deferring>>
            /\ backing' = [backing EXCEPT ![w] = @ \cup {job[p]}]
        BY <1>1, <3>1, <3>2 DEF BacksOff
      <4>2. pc'[p] = "idle" /\ backing'[w] \subseteq backing[w] \cup {job[p]}
        BY <1>1, <1>2, <4>1 DEF TypeOK
      <4> QED
        BY <1>11, <2>1, <2>2, <3>1, <4>1, <4>2
    <3>3. CASE ~(fails[w][job[p]] < MaxRetryCount)
      <4>1. /\ pc' = [pc EXCEPT ![p] = "giveup"] /\ UNCHANGED job
            /\ backing' = Drop(backing, w, job[p]) /\ defers' = Clear(defers, w, job[p])
            /\ deferring' = Drop(deferring, w, job[p])
        BY <1>1, <3>1, <3>3 DEF BacksOff
      <4>2. pc'[p] = "giveup"
        BY <1>1, <1>2, <4>1 DEF TypeOK
      <4>3. /\ \A t \in Tasks : defers'[w][t] \in {0, defers[w][t]}
            /\ backing'[w] \subseteq backing[w] /\ deferring'[w] \subseteq deferring[w]
        BY <1>2, <2>1, <4>1, MapEntries
      <4> QED
        BY <1>11, <2>1, <2>2, <3>1, <4>1, <4>2, <4>3
    <3> QED
      BY <3>2, <3>3
  <2>5. CASE err[p] = "dependency"
    <3>1. Defers(p) /\ ReleaseLock(job[p]) /\ Dep[job[p]] # NoTask
      BY <1>1, <1>3, <1>15, <2>1, <2>5 DEF FailTask, Rejects, FailsLate, BaselinePending, p
    <3>2. /\ pc' = [pc EXCEPT ![p] = "repoll"] /\ job' = [job EXCEPT ![p] = NoTask]
          /\ deferring' = [deferring EXCEPT ![w] = @ \cup {job[p]}]
          /\ defers' = Bump(defers, w, job[p], MaxDeferCount) /\ UNCHANGED backing
      BY <1>1, <3>1 DEF Defers
    <3>3. pc'[p] = "repoll" /\ job'[p] = NoTask
      BY <1>1, <1>2, <3>2 DEF TypeOK
    <3>4. /\ deferring'[w] = deferring[w] \cup {job[p]}
          /\ \A t \in Tasks : t # job[p] => defers'[w][t] = defers[w][t]
      BY <1>2, <2>1, <3>2, MapEntries
    <3>5. build[Dep[job[p]]] = "pending" /\ job[p] \in Behind
      <4>1. build[Dep[job[p]]] \in {"pending", "running"}
        BY <1>3, <2>1, <2>5 DEF FailsLate, BaselinePending, p
      <4>2. build[Dep[job[p]]] # "running"
        BY <1>3, <1>4, <2>1, <3>1 DEF Untouched, p
      <4> QED
        BY <1>3, <2>1, <3>1, <4>1, <4>2 DEF TakeTurns, Holding, p
    <3>6. row'[job[p]] = (IF Queued(job[p]) THEN "free" ELSE row[job[p]])
      BY <1>2, <2>1, <3>1 DEF ReleaseLock, TypeOK
    <3>7. Untouched(w)'
      BY <1>3, <2>1, <2>2, <3>2, <3>3, <3>6 DEF Untouched, Queued, p
    <3>8. FailsLate(w)'
      BY <3>3 DEF FailsLate, p
    <3>9. TakeTurns(w)'
      <4>1. deferring'[w] \subseteq Behind
        BY <1>3, <3>4, <3>5 DEF TakeTurns
      <4>2. ASSUME NEW t \in Tasks, Dep[t] # NoTask, build[Dep[t]] = "pending", defers'[w][t] > 0
            PROVE  t \in deferring'[w]
        <5>1. CASE t = job[p]
          BY <3>4, <5>1
        <5>2. CASE t # job[p]
          <6>1. defers[w][t] > 0
            BY <3>4, <4>2, <5>2
          <6>2. job[p] = Dep[t]
            BY <1>3, <2>1, <4>2, <6>1 DEF TakeTurns, p
          <6> QED
            BY <1>4, <3>1, <4>2, <6>2
        <5> QED
          BY <5>1, <5>2
      <4> QED
        BY <2>1, <3>3, <4>1, <4>2 DEF TakeTurns, p, Holding
    <3> QED
      BY <3>7, <3>8, <3>9
  <2> QED
    BY <2>3, <2>4, <2>5
<1>16. CASE \E t \in Tasks : LockExpires(t)
  <2>1. PICK t \in Tasks : LockExpires(t)
    BY <1>16
  <2>2. /\ row[t] = "locked" /\ ~Beating(t) /\ row' = [row EXCEPT ![t] = "stale"]
        /\ UNCHANGED <<by, build, pc, job, err, backing, defers, deferring>>
    BY <2>1 DEF LockExpires, buildVars, driverVars, mapVars
  <2>3. ~(by[t] = w /\ job[p] = t /\ pc[p] \in Holding)
    BY <2>2 DEF Beating, Drivers, p
  <2>4. build[t] # "pending"
    BY <1>3, <2>2, <2>3 DEF Untouched, Holding, p
  <2>5. Untouched(w)'
    BY <1>2, <1>3, <2>2, <2>4 DEF Untouched, TypeOK, p
  <2> QED
    BY <1>3, <2>2, <2>5 DEF FailsLate, TakeTurns, BaselinePending, p
<1>17. CASE \E t \in Tasks : BackoffElapses(w, t)
  <2>1. PICK t \in Tasks : BackoffElapses(w, t)
    BY <1>17
  <2>2. /\ backing' = Drop(backing, w, t)
        /\ UNCHANGED <<row, by, build, pc, job, err, defers, deferring>>
    BY <2>1 DEF BackoffElapses, rowVars, buildVars, driverVars
  <2>3. backing'[w] \subseteq backing[w]
    BY <1>2, <2>1, <2>2, MapEntries
  <2>4. Untouched(w)'
    BY <1>3, <2>2, <2>3 DEF Untouched, p
  <2> QED
    BY <1>3, <2>2, <2>4 DEF FailsLate, TakeTurns, BaselinePending, p
<1>18. CASE \E t \in Tasks : DeferElapses(w, t)
  <2>1. PICK t \in Tasks : DeferElapses(w, t)
    BY <1>18
  <2>2. /\ pc[p] # "repoll" /\ deferring' = Drop(deferring, w, t)
        /\ UNCHANGED <<row, by, build, pc, job, err, defers, backing>>
    BY <2>1 DEF DeferElapses, rowVars, buildVars, driverVars, p
  <2>3. deferring'[w] \subseteq deferring[w]
    BY <1>2, <2>1, <2>2, MapEntries
  <2>4. Untouched(w)' /\ FailsLate(w)'
    BY <1>3, <2>2 DEF Untouched, FailsLate, BaselinePending, p
  <2>5. TakeTurns(w)'
    BY <1>3, <2>2, <2>3 DEF TakeTurns, p
  <2> QED
    BY <2>4, <2>5
<1> QED
  BY <1>5, <1>6, <1>7, <1>8, <1>9, <1>10, <1>12, <1>13, <1>14, <1>15, <1>16, <1>17, <1>18
     DEF PollStep, p

\* The backlog is in order when the worker starts.
LEMMA OrderInit == ASSUME OneBehind, Init PROVE OrderInv
<1>1. /\ \A p \in Procs : pc[p] = "idle" /\ job[p] = NoTask
      /\ \A w \in Workers : /\ mode[w] = "up" /\ notified[w] = {} /\ inFlight[w] = FALSE
                            /\ backing[w] = {} /\ deferring[w] = {}
                            /\ \A t \in Tasks : defers[w][t] = 0
      /\ \A t \in Tasks : row[t] = "free" /\ build[t] = "pending"
  BY DEF Init, OneBehind
<1>2. \A w \in Workers : <<w, "poll">> \in Procs
  BY DEF Procs, Drivers
<1>3. PollOnlyInv
  BY <1>1 DEF PollOnlyInv
<1>4. \A w \in Workers : Untouched(w) /\ FailsLate(w)
  BY <1>1, <1>2 DEF Untouched, FailsLate
<1>5. ASSUME NEW w \in Workers PROVE TakeTurns(w)
  <2>1. deferring[w] \subseteq Behind /\ pc[<<w, "poll">>] = "idle"
    BY <1>1, <1>2
  <2>2. \A t \in Tasks : ~(defers[w][t] > 0)
    BY <1>1
  <2> QED
    BY <2>1, <2>2 DEF TakeTurns, Holding
<1> QED
  BY <1>3, <1>4, <1>5 DEF OrderInv

\* The invariant that the order of a backlog needs: for any number of tasks, any attempts and
\* retries, one worker is at one task, and a task that is older than its baseline is deferred once
\* at most before the baseline is taken (worker.ts, pollForNewTasks and processTask).
THEOREM OrderInvariance == ASSUME OneBehind PROVE Spec => []OrderInv
<1>1. ASSUME IInv, IInv', OrderInv, [Next]_vars PROVE OrderInv'
  <2>1. CASE UNCHANGED vars
    BY <1>1, <2>1 DEF vars, rowVars, buildVars, mapVars, driverVars, faultVars, OrderInv,
         PollOnlyInv, Untouched, FailsLate, TakeTurns, BaselinePending
  <2>2. CASE Next /\ Workers # {}
    <3>1. PICK w \in Workers : TRUE
      BY <2>2
    <3>2. PollStep(w)
      BY <1>1, <2>2, OnlyPollSteps DEF OrderInv
    <3>3. PollOnlyInv'
      BY <1>1, <3>2, PollOnlyNext DEF OrderInv
    <3>4. (Untouched(w) /\ FailsLate(w) /\ TakeTurns(w))'
      BY <1>1, <3>2, OrderNext
    <3>5. \A v \in Workers : v = w
      BY DEF OneBehind
    <3> QED
      BY <3>3, <3>4, <3>5 DEF OrderInv
  <2>3. CASE Next /\ Workers = {}
    <3>1. PollOnlyInv /\ Procs = {}
      BY <1>1, <2>3 DEF OrderInv, Procs
    <3>2. \A t \in Tasks : ~Enqueue(t) /\ (LockExpires(t) => row' = [row EXCEPT ![t] = "stale"])
      BY <3>1 DEF PollOnlyInv, Enqueue, LockExpires
    <3>3. \E t \in Tasks : LockExpires(t)
      BY <2>3, <3>1, <3>2 DEF Next
    <3>4. \A t \in Tasks : row'[t] # "absent"
      BY <1>1, <3>1, <3>2, <3>3 DEF PollOnlyInv, IInv, TypeOK
    <3> QED
      BY <2>3, <3>1, <3>4 DEF OrderInv, PollOnlyInv
  <2> QED
    BY <1>1, <2>1, <2>2, <2>3
<1>2. Init => OrderInv
  BY OrderInit
<1> QED
  BY <1>1, <1>2, Invariance, PTL DEF Spec

\* One worker renders no build of a backlog ahead of its baseline, even if the baseline's row is the
\* younger one: for any number of tasks, of which one at most is older than its baseline
\* (worker.ts, DEFER_REPOLL_MS).
THEOREM BaselineIsFirst == ASSUME OneBehind PROVE Spec => BaselineFirst
<1>1. ASSUME IInv, OrderInv, [Next]_vars
      PROVE  [\A t \in Tasks : build[t] = "pending" /\ build'[t] = "running"
                                => ~BaselinePending(t)]_vars
  <2> SUFFICES ASSUME Next, NEW t \in Tasks, build[t] = "pending", build'[t] = "running"
               PROVE  ~BaselinePending(t)
    BY <1>1 DEF vars, buildVars
  <2>1. PICK w \in Workers : PollStep(w)
    <3>1. CASE Workers = {}
      <4>1. Procs = {}
        BY <3>1 DEF Procs
      <4>2. UNCHANGED build
        BY <3>1, <4>1 DEF Next, Enqueue, LockExpires, buildVars
      <4> QED
        BY <4>2
    <3>2. CASE Workers # {}
      BY <1>1, <3>2, OnlyPollSteps DEF OrderInv
    <3> QED
      BY <3>1, <3>2
  <2> DEFINE p == <<w, "poll">>
  <2>2. build \in [Tasks -> {"pending", "running", "closed"}] /\ p \in Procs
    BY <1>1, OnlyPoll DEF IInv, TypeOK, OrderInv, PollFacts
  <2>3. StartBuild(p)
    <3> SUFFICES ASSUME ~StartBuild(p) PROVE FALSE
      OBVIOUS
    <3>1. build' = build \/ build' = [build EXCEPT ![job[p]] = "closed"]
      BY <2>1 DEF PollStep, PollClaims, ClaimNextTask, PollFindsNothing, StartTask, CheckBaseline,
             WorkEnds, FinishTask, FailTask, GiveUpOnTask, GiveUpOnBuild, LockExpires,
             BackoffElapses, DeferElapses, buildVars
    <3> QED
      BY <2>2, <3>1
  <2>4. pc[p] = "start" /\ job[p] = t
    BY <2>2, <2>3 DEF StartBuild
  <2>5. Dep[t] # NoTask => build[Dep[t]] # "pending" /\ build[Dep[t]] # "running"
    <3>1. Untouched(w) /\ TakeTurns(w)
      BY <1>1 DEF OrderInv
    <3>2. Dep[t] # NoTask => Dep[t] \in Tasks
      BY QueueAssumption
    <3>3. Dep[t] # NoTask => build[Dep[t]] # "pending"
      BY <2>4, <3>1 DEF TakeTurns, Holding
    <3>4. Dep[t] # NoTask => build[Dep[t]] # "running"
      BY <2>4, <3>1, <3>2 DEF Untouched
    <3> QED
      BY <3>3, <3>4
  <2> QED
    BY <2>5 DEF BaselinePending
<1> QED
  BY <1>1, OrderInvariance, Invariance, PTL DEF Spec, BaselineFirst

=============================================================================
