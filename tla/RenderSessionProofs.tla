------------------------ MODULE RenderSessionProofs ------------------------
(***************************************************************************)
(* Invariance proofs for RenderSession: for any number of sessions and of  *)
(* stories, any limits, and any set of faults.                             *)
(***************************************************************************)
EXTENDS RenderSession, FiniteSetTheorems, TLAPS

\* What a queue holds, and that nothing is in it twice.
Entries(q)  == {q[i] : i \in 1 .. Len(q)}
Distinct(q) == \A i, j \in 1 .. Len(q) : q[i] = q[j] => i = j

\* The stories at one of a set of steps.
At(P) == {s \in Stories : pc[s] \in P}

\* A story gives its session back and decides, with its verdict in hand.
Judged == {"release", "recycle", "decide"}

\* A story that holds a slot of the semaphore.
Charged == (Captures \ {"blocked"}) \cup Settling

(***************************************************************************)
(* The inductive invariant.                                                *)
(***************************************************************************)

\* The task launches its pool and downloads, then renders.  Until the pipeline runs no
\* story has started, no browser has been used, and nothing has been told to the caller.
StageInv ==
  /\ pipeline # "off" => pool = "up"
  /\ pipeline = "off" => /\ \A s \in Stories : pc[s] = "pending"
                         /\ \A b \in Sessions : rendered[b] = 0 /\ infra[b] = 0
  /\ phase = "prewarm" => pipeline = "off" /\ completed = 0
  /\ phase \notin {"prewarm", "closed"} => pipeline # "off"
  /\ phase \in {"prewarm", "armed", "grace", "fatal"} => outcome = "none"

\* A session is in one place: available, or held by the one story at a step that holds one.
\* While the pool launches, the sessions that answered are the available ones.
PlaceInv ==
  /\ \A s \in Stories : slot[s] # NoSession <=> pc[s] \in Holding
  /\ \A s, t \in Stories : slot[s] = slot[t] /\ slot[s] # NoSession => s = t
  /\ \A s \in Stories : slot[s] \notin Entries(available)
  /\ Distinct(available)
  /\ pool = "up" => \A b \in Sessions : b \in Entries(available) \/ \E s \in Stories : slot[s] = b
  /\ pool = "launching" => Entries(available) = {b \in Sessions : browser[b] # "absent"}

\* No more stories capture than there are sessions, so none of them ever waits for one.
CaptureInv ==
  /\ Cardinality(At(Captures)) <= PoolSize
  /\ waiters = <<>> /\ \A s \in Stories : pc[s] # "waiting"

\* The stories blocked on a slot of the semaphore are in its queue once each, and so are
\* the stories whose finalize is queued in the lane's.
QueueInv ==
  /\ Distinct(blocked) /\ Entries(blocked) = At({"blocked"})
  /\ Distinct(lane) /\ Entries(lane) = At({"queued"})

\* BacklogBounded, with the set of charged stories by its name.
ChargeInv ==
  /\ free + Cardinality(At(Charged)) = QueueLimit
  /\ blocked # <<>> => free = 0

\* A verdict is one of a capture attempt: a captured story is never captured again, and one
\* is sent to try again only while it has attempts left.  A browser rendered no more
\* stories than were captured.
VerdictInv ==
  /\ \A s \in Stories :
       /\ verdict[s] = "captured" => pc[s] \in Judged \cup Settling \cup {"done", "dropped"}
       /\ verdict[s] = "retry" /\ pc[s] \in Judged => attempt[s] < MaxAttempts
  /\ \A b \in Sessions :
       rendered[b] <= Cardinality({s \in Stories : verdict[s] = "captured"})

\* While the tracker counts it has counted each story that ended, once.
CountInv ==
  /\ completed <= Cardinality(At({"done", "dropped"}))
  /\ phase \in {"armed", "grace", "fatal"} => completed = Cardinality(At({"done", "dropped"}))

\* A story that is done has its row.  One that has a row earlier had it written as failed
\* by its attempt, and only goes on to write that again.
RowInv ==
  \A s \in Stories :
    /\ pc[s] = "done" => results[s] # "none"
    /\ results[s] # "none" =>
         \/ pc[s] = "done"
         \/ results[s] = "failed" /\ verdict[s] = "recorded" /\ pc[s] \in Judged

\* The caller is given results only by a resolved pipeline, whose stories are all done.
OutcomeInv ==
  /\ pipeline = "resolved" => \A s \in Stories : pc[s] = "done"
  /\ outcome = "results" =>
       /\ pipeline = "resolved" /\ completed = StoryCount /\ phase \in {"done", "closed"}
       /\ phase = "closed" => \A b \in Sessions : browser[b] # "live"

IInv ==
  /\ TypeOK /\ StageInv /\ PlaceInv /\ CaptureInv /\ QueueInv /\ ChargeInv
  /\ VerdictInv /\ NeverCondemned /\ CountInv /\ RowInv /\ OutcomeInv
----------------------------------------------------------------------------
(* Queues, and counting stories.                                           *)

\* A queue with nothing in it is the empty one.
LEMMA QueueEmpty ==
  ASSUME NEW S, NEW q \in Seq(S)
  PROVE  q = <<>> <=> Entries(q) = {}
<1>1. ASSUME q # <<>> PROVE q[1] \in Entries(q)
  BY <1>1 DEF Entries
<1>2. QED
  BY <1>1 DEF Entries

\* And one holds only what may be in it.
LEMMA QueueHolds ==
  ASSUME NEW S, NEW q \in Seq(S)
  PROVE  Entries(q) \subseteq S
BY DEF Entries

\* One more at its end.
LEMMA QueueAppend ==
  ASSUME NEW S, NEW q \in Seq(S), NEW x \in S
  PROVE  /\ Append(q, x) \in Seq(S)
         /\ Append(q, x) # <<>>
         /\ Entries(Append(q, x)) = Entries(q) \cup {x}
         /\ Distinct(q) /\ x \notin Entries(q) => Distinct(Append(q, x))
<1>1. /\ Append(q, x) \in Seq(S) /\ Len(q) \in Nat /\ Len(Append(q, x)) = Len(q) + 1
      /\ \A i \in 1 .. Len(q) : Append(q, x)[i] = q[i]
      /\ Append(q, x)[Len(q) + 1] = x
  OBVIOUS
<1>2. Append(q, x) # <<>>
  BY <1>1
<1>3. Entries(Append(q, x)) = Entries(q) \cup {x}
  <2>1. 1 .. (Len(q) + 1) = (1 .. Len(q)) \cup {Len(q) + 1}
    BY <1>1
  <2>2. QED
    BY <1>1, <2>1 DEF Entries
<1>4. Distinct(q) /\ x \notin Entries(q) => Distinct(Append(q, x))
  BY <1>1 DEF Distinct, Entries
<1>5. QED
  BY <1>1, <1>2, <1>3, <1>4

\* One less at its front.
LEMMA QueueTake ==
  ASSUME NEW S, NEW q \in Seq(S), q # <<>>
  PROVE  /\ Head(q) \in S /\ Head(q) \in Entries(q) /\ Tail(q) \in Seq(S)
         /\ Distinct(q) => Distinct(Tail(q)) /\ Entries(Tail(q)) = Entries(q) \ {Head(q)}
<1>1. /\ Len(q) \in Nat \ {0} /\ Head(q) = q[1] /\ Tail(q) \in Seq(S)
      /\ Len(Tail(q)) = Len(q) - 1
      /\ \A i \in 1 .. Len(q) - 1 : Tail(q)[i] = q[i + 1]
  OBVIOUS
<1>2. Head(q) \in S /\ Head(q) \in Entries(q)
  BY <1>1 DEF Entries
<1>3. ASSUME Distinct(q) PROVE Distinct(Tail(q))
  BY <1>1, <1>3 DEF Distinct
<1>4. ASSUME Distinct(q) PROVE Entries(Tail(q)) = Entries(q) \ {Head(q)}
  <2>1. ASSUME NEW x \in Entries(Tail(q)) PROVE x \in Entries(q) \ {Head(q)}
    <3>1. PICK i \in 1 .. Len(q) - 1 : x = q[i + 1]
      BY <2>1, <1>1 DEF Entries
    <3>2. i + 1 \in 1 .. Len(q) /\ i + 1 # 1
      BY <1>1
    <3>3. QED
      BY <3>1, <3>2, <1>1, <1>4 DEF Entries, Distinct
  <2>2. ASSUME NEW x \in Entries(q) \ {Head(q)} PROVE x \in Entries(Tail(q))
    <3>1. PICK i \in 1 .. Len(q) : x = q[i]
      BY <2>2 DEF Entries
    <3>2. i # 1 /\ i - 1 \in 1 .. Len(q) - 1 /\ (i - 1) + 1 = i
      BY <3>1, <2>2, <1>1
    <3>3. Tail(q)[i - 1] = x
      BY <3>1, <3>2, <1>1
    <3>4. QED
      BY <3>2, <3>3, <1>1 DEF Entries
  <2>3. QED
    BY <2>1, <2>2
<1>5. QED
  BY <1>1, <1>2, <1>3, <1>4

\* Taking out what is not in a set, or putting in what is, changes nothing.
LEMMA SameSet ==
  ASSUME NEW T, NEW x
  PROVE  (x \notin T => T \ {x} = T) /\ (x \in T => T \cup {x} = T)
OBVIOUS

\* A set of stories is finite; one story more or less changes its size by one.
LEMMA Counted ==
  ASSUME NEW T \in SUBSET Stories
  PROVE  /\ IsFiniteSet(T) /\ Cardinality(T) \in 0 .. StoryCount
         /\ T = Stories => Cardinality(T) = StoryCount
         /\ \A s \in Stories :
              /\ Cardinality(T \cup {s}) = IF s \in T THEN Cardinality(T) ELSE Cardinality(T) + 1
              /\ Cardinality(T \ {s}) = IF s \in T THEN Cardinality(T) - 1 ELSE Cardinality(T)
<1>1. IsFiniteSet(Stories) /\ Cardinality(Stories) = StoryCount
  <2>1. StoryCount \in Int /\ StoryCount >= 1 /\ 1 \in Int
    BY RenderAssumption
  <2>2. QED
    BY <2>1, FS_Interval DEF Stories
<1>2. IsFiniteSet(T) /\ Cardinality(T) <= StoryCount
  BY <1>1, FS_Subset
<1>3. Cardinality(T) \in Nat
  BY <1>2, FS_CardinalityType
<1>4. QED
  BY <1>1, <1>2, <1>3, FS_AddElement, FS_RemoveElement, RenderAssumption

\* A story that is in the set counts.
LEMMA CountedIn ==
  ASSUME NEW T \in SUBSET Stories, NEW s \in T
  PROVE  Cardinality(T) \in 1 .. StoryCount
<1>1. T \ {s} \in SUBSET Stories
  OBVIOUS
<1>2. /\ Cardinality(T) \in 0 .. StoryCount /\ Cardinality(T \ {s}) \in 0 .. StoryCount
      /\ Cardinality(T \ {s}) = Cardinality(T) - 1
  BY <1>1, Counted
<1>3. QED
  BY <1>2, RenderAssumption

\* One that is not leaves room.
LEMMA CountedOut ==
  ASSUME NEW T \in SUBSET Stories, NEW s \in Stories \ T
  PROVE  Cardinality(T) + 1 <= StoryCount
<1>1. T \cup {s} \in SUBSET Stories
  OBVIOUS
<1>2. /\ Cardinality(T \cup {s}) \in 0 .. StoryCount
      /\ Cardinality(T \cup {s}) = Cardinality(T) + 1
  BY <1>1, Counted
<1>3. QED
  BY <1>2, RenderAssumption

----------------------------------------------------------------------------
(* Which stories are where after a step.                                   *)

\* One story moves.
LEMMA AtGo ==
  ASSUME TypeOK, NEW s \in Stories, NEW to, Go(s, to), NEW P
  PROVE  At(P)' = IF to \in P THEN At(P) \cup {s} ELSE At(P) \ {s}
BY DEF TypeOK, Go, At

\* The same, of the stories that wait in the semaphore's queue or in the lane's.
LEMMA QueuedGo ==
  ASSUME TypeOK, NEW s \in Stories, NEW to, Go(s, to)
  PROVE  /\ pc[s] # "blocked" /\ to # "blocked" => At({"blocked"})' = At({"blocked"})
         /\ to = "blocked" => At({"blocked"})' = At({"blocked"}) \cup {s}
         /\ pc[s] # "queued" /\ to # "queued" => At({"queued"})' = At({"queued"})
         /\ pc[s] = "queued" /\ to # "queued" => At({"queued"})' = At({"queued"}) \ {s}
         /\ to = "queued" => At({"queued"})' = At({"queued"}) \cup {s}
BY DEF TypeOK, Go, At

\* The same, of the stories that hold a slot of the semaphore.
LEMMA ChargedGo ==
  ASSUME TypeOK, NEW s \in Stories, NEW to, Go(s, to)
  PROVE  /\ (pc[s] \in Charged <=> to \in Charged) => At(Charged)' = At(Charged)
         /\ to \in Charged => At(Charged)' = At(Charged) \cup {s}
         /\ to \notin Charged => At(Charged)' = At(Charged) \ {s}
BY DEF TypeOK, Go, At

\* One gives its slot to another.
LEMMA AtWake ==
  ASSUME TypeOK, NEW s \in Stories, NEW t \in Stories, s # t, NEW to, NEW P,
         pc' = [pc EXCEPT ![s] = to, ![t] = "acquire"]
  PROVE  At(P)' = IF to \in P
                    THEN IF "acquire" \in P THEN At(P) \cup {s, t} ELSE (At(P) \cup {s}) \ {t}
                    ELSE IF "acquire" \in P THEN (At(P) \ {s}) \cup {t} ELSE At(P) \ {s, t}
BY DEF TypeOK, At
----------------------------------------------------------------------------
(* The steps, in two groups.                                               *)

\* What the pool, the pipeline and the task do by themselves.
SystemStep ==
  \/ \E b \in Sessions : Starting(b) \/ BrowserDies(b)
  \/ PipelineStep \/ TaskStep \/ WatchdogFires

\* What one story does.
StoryStep(s) == CaptureStep(s) \/ SettleStep(s) \/ CaptureWedges(s)

\* Every step is one of the system or one of a story.
LEMMA NextSplits == Next <=> SystemStep \/ \E s \in Stories : StoryStep(s)
BY DEF Next, SystemStep, StoryStep

\* No story moves in a step of the system, and nothing that stories share does.
LEMMA SystemFrame ==
  ASSUME SystemStep
  PROVE  UNCHANGED <<rendered, infra, waiters, storyVars, free, blocked, lane, results,
                     completed>>
<1> USE DEF poolVars, storyVars, laneVars, dogVars
<1>1. ASSUME NEW b \in Sessions, Starting(b) \/ BrowserDies(b)
      PROVE  UNCHANGED <<rendered, infra, waiters, storyVars, free, blocked, lane, results,
                         completed>>
  BY <1>1 DEF Starting, Launch, LaunchFails, LateLaunch, BrowserDies
<1>2. CASE PipelineStep
  BY <1>2 DEF PipelineStep, CapturesReject, CapturesDrain, PipelineSettles
<1>3. CASE TaskStep
  BY <1>3 DEF TaskStep, FetchSettles, SetupFails, RenderBegins, WorkWins, AbortedWorkSettles,
              GraceExpires, Exit, Close
<1>4. CASE WatchdogFires
  BY <1>4 DEF WatchdogFires
<1>5. QED
  BY <1>1, <1>2, <1>3, <1>4 DEF SystemStep

\* A story that holds a session holds one of the pool's, and a pool runs it.
LEMMA HoldsSession ==
  ASSUME IInv, NEW s \in Stories, pc[s] \in Holding
  PROVE  /\ slot[s] \in Sessions /\ slot[s] # NoSession /\ slot[s] \notin Entries(available)
         /\ \A t \in Stories : slot[t] = slot[s] => t = s
         /\ pool = "up" /\ pipeline # "off"
BY DEF IInv, TypeOK, StageInv, PlaceInv, Holding

\* A session that is given back goes to the end of the available ones: nobody waits for it.
LEMMA Returned ==
  ASSUME IInv, NEW s \in Stories, ReturnSession(s)
  PROVE  /\ available' = Append(available, slot[s]) /\ waiters' = waiters
         /\ slot' = [slot EXCEPT ![s] = NoSession] /\ Go(s, "decide")
BY DEF IInv, CaptureInv, ReturnSession

\* A story that ends either frees its slot of the semaphore or wakes one that is blocked.
LEMMA FreedOrWoken ==
  ASSUME IInv, NEW s \in Stories, pc[s] \in Charged, NEW to, FreeQueueSlot(s, to)
  PROVE  \/ /\ blocked = <<>> /\ UNCHANGED blocked /\ Go(s, to)
            /\ free' = free + 1 /\ free + 1 \in 0 .. QueueLimit
         \/ \E t \in Stories :
              /\ t # s /\ pc[t] = "blocked" /\ blocked # <<>> /\ t = Head(blocked)
              /\ blocked' = Tail(blocked) /\ UNCHANGED free
              /\ Tail(blocked) \in Seq(Stories)
              /\ pc' = [pc EXCEPT ![s] = to, ![t] = "acquire"]
<1>1. CASE blocked = <<>>
  <2>1. At(Charged) \in SUBSET Stories /\ s \in At(Charged)
    BY DEF At
  <2>2. Cardinality(At(Charged)) \in 1 .. StoryCount
    BY <2>1, CountedIn
  <2>3. free \in 0 .. QueueLimit /\ free + Cardinality(At(Charged)) = QueueLimit
    BY DEF IInv, TypeOK, ChargeInv
  <2>4. free + 1 \in 0 .. QueueLimit
    BY <2>2, <2>3, RenderAssumption
  <2>5. QED
    BY <1>1, <2>4 DEF FreeQueueSlot, Go
<1>2. CASE blocked # <<>>
  <2>1. blocked \in Seq(Stories)
    BY DEF IInv, TypeOK
  <2>2. Head(blocked) \in Stories /\ Head(blocked) \in Entries(blocked)
        /\ Tail(blocked) \in Seq(Stories)
    BY <1>2, <2>1, QueueTake
  <2>3. pc[Head(blocked)] = "blocked"
    BY <2>2 DEF IInv, QueueInv, At
  <2>4. Head(blocked) # s
    BY <2>3 DEF Charged, Captures, Holding, Settling
  <2>5. QED
    BY <1>2, <2>2, <2>3, <2>4 DEF FreeQueueSlot
<1>3. QED
  BY <1>1, <1>2

----------------------------------------------------------------------------
(* Types.                                                                  *)

\* A fault that happens is one of the bounded number.
LEMMA FaultTyped ==
  ASSUME TypeOK, NEW kind, Fault(kind)
  PROVE  faults' \in 0 .. MaxFaults
BY RenderAssumption DEF TypeOK, Fault

\* A system step keeps every variable in its type.
LEMMA SystemTyped ==
  ASSUME IInv, SystemStep
  PROVE  TypeOK'
<1> USE DEF poolVars, storyVars, laneVars, dogVars
<1>1. TypeOK /\ Destroyed(browser) \in [Sessions -> {"absent", "failed", "live", "dead", "closed"}]
  BY DEF IInv, TypeOK, Destroyed
<1>2. UNCHANGED <<rendered, infra, waiters, storyVars, free, blocked, lane, results, completed>>
  BY SystemFrame
<1>3. ASSUME NEW b \in Sessions, Launch(b) PROVE TypeOK'
  <2>1. Append(available, b) \in Seq(Sessions)
    BY <1>1, QueueAppend DEF TypeOK
  <2>2. QED
    BY <1>1, <1>2, <1>3, <2>1 DEF Launch, TypeOK
<1>4. ASSUME NEW b \in Sessions, LaunchFails(b) \/ LateLaunch(b) \/ BrowserDies(b) PROVE TypeOK'
  <2>1. faults' \in 0 .. MaxFaults
    BY <1>1, <1>4, FaultTyped DEF LaunchFails, LateLaunch, BrowserDies, TypeOK
  <2>2. CASE LaunchFails(b)
    BY <1>1, <1>2, <2>1, <2>2 DEF LaunchFails, TypeOK
  <2>3. CASE LateLaunch(b)
    BY <1>1, <1>2, <2>1, <2>3 DEF LateLaunch, TypeOK
  <2>4. CASE BrowserDies(b)
    BY <1>1, <1>2, <2>1, <2>4 DEF BrowserDies, TypeOK
  <2>5. QED
    BY <1>4, <2>2, <2>3, <2>4
<1>5. CASE PipelineStep
  <2>1. /\ pipeline' \in {"unwinding", "draining", "rejected", "resolved"}
        /\ observed' \in SUBSET Stories
        /\ UNCHANGED <<poolVars, dogVars, faults>>
    BY <1>1, <1>5 DEF PipelineStep, CapturesReject, CapturesDrain, PipelineSettles, TypeOK
  <2>2. QED
    BY <1>1, <1>2, <2>1 DEF TypeOK
<1>6. CASE FetchSettles \/ SetupFails \/ RenderBegins
  <2>1. faults' \in 0 .. MaxFaults
    BY <1>1, <1>6, FaultTyped DEF FetchSettles, SetupFails, RenderBegins, TypeOK
  <2>2. QED
    BY <1>1, <1>2, <1>6, <2>1, SMTT(20) DEF FetchSettles, SetupFails, RenderBegins, TypeOK
<1>7. CASE WorkWins \/ AbortedWorkSettles \/ GraceExpires \/ Exit \/ Close \/ WatchdogFires
  BY <1>1, <1>2, <1>7, SMTT(20)
     DEF WorkWins, AbortedWorkSettles, GraceExpires, Exit, Close, WatchdogFires, TypeOK
<1>8. QED
  BY <1>3, <1>4, <1>5, <1>6, <1>7 DEF SystemStep, Starting, TaskStep

\* A story that has not ended leaves room in the count of those that did.
LEMMA CompletedTyped ==
  ASSUME IInv, NEW s \in Stories, pc[s] \notin {"done", "dropped"}
  PROVE  CompletedOne \in 0 .. StoryCount
<1>1. At({"done", "dropped"}) \in SUBSET Stories /\ s \in Stories \ At({"done", "dropped"})
  BY DEF At
<1>2. Cardinality(At({"done", "dropped"})) + 1 <= StoryCount
      /\ Cardinality(At({"done", "dropped"})) \in 0 .. StoryCount
  BY <1>1, CountedOut, Counted
<1>3. completed \in 0 .. StoryCount /\ completed <= Cardinality(At({"done", "dropped"}))
  BY DEF IInv, TypeOK, CountInv
<1>4. QED
  BY <1>2, <1>3, RenderAssumption DEF CompletedOne

\* A session that renders one story more renders no more than there are.
LEMMA RenderedTyped ==
  ASSUME IInv, NEW s \in Stories, pc[s] = "capture", NEW b \in Sessions
  PROVE  rendered[b] + 1 \in 0 .. StoryCount
<1> DEFINE C == {t \in Stories : verdict[t] = "captured"}
<1>1. C \in SUBSET Stories /\ s \in Stories \ C
  BY DEF IInv, VerdictInv, Judged, Settling
<1>2. Cardinality(C) + 1 <= StoryCount /\ Cardinality(C) \in 0 .. StoryCount
  BY <1>1, CountedOut, Counted
<1>3. rendered[b] \in 0 .. StoryCount /\ rendered[b] <= Cardinality(C)
  BY DEF IInv, TypeOK, VerdictInv
<1>4. QED
  BY <1>2, <1>3, RenderAssumption

\* A step of a story's capture keeps every variable in its type.
LEMMA CaptureTyped ==
  ASSUME IInv, NEW s \in Stories, CaptureStep(s) \/ CaptureWedges(s)
  PROVE  TypeOK'
<1> USE DEF poolVars, storyVars, laneVars, dogVars
<1>1. TypeOK /\ (pc[s] \in Holding => slot[s] \in Sessions)
  BY HoldsSession DEF IInv
<1>2. CASE CaptureStarts(s)
  <2>1. Append(blocked, s) \in Seq(Stories)
    BY <1>1, QueueAppend DEF TypeOK
  <2>2. 1 \in 0 .. MaxAttempts /\ (free > 0 => free - 1 \in 0 .. QueueLimit)
    BY <1>1, RenderAssumption DEF TypeOK
  <2>3. attempt' \in [Stories -> 0 .. MaxAttempts]
    BY <1>1, <1>2, <2>2 DEF CaptureStarts, TypeOK
  <2>4. free' \in 0 .. QueueLimit /\ blocked' \in Seq(Stories)
        /\ pc' \in [Stories -> Captures \cup Settling \cup Settled \cup {"pending"}]
    BY <1>1, <1>2, <2>1, <2>2 DEF CaptureStarts, TypeOK, Captures
  <2>5. QED
    BY <1>1, <1>2, <2>3, <2>4 DEF CaptureStarts, TypeOK
<1>3. CASE Acquire(s)
  <2>1. available # <<>> => Head(available) \in Sessions /\ Tail(available) \in Seq(Sessions)
    BY <1>1, QueueTake DEF TypeOK
  <2>2. Append(waiters, s) \in Seq(Stories)
    BY <1>1, QueueAppend DEF TypeOK
  <2>3. /\ available' \in Seq(Sessions) /\ waiters' \in Seq(Stories)
        /\ slot' \in [Stories -> Sessions \cup {NoSession}]
    BY <1>1, <1>3, <2>1, <2>2 DEF Acquire, TypeOK
  <2>4. pc' \in [Stories -> Captures \cup Settling \cup Settled \cup {"pending"}]
    <3>1. {"probe", "waiting"} \subseteq Captures
      BY DEF Captures, Holding
    <3>2. pc' = [pc EXCEPT ![s] = "probe"] \/ pc' = [pc EXCEPT ![s] = "waiting"]
      BY <1>3 DEF Acquire
    <3>3. QED
      BY <1>1, <3>1, <3>2 DEF TypeOK
  <2>5. UNCHANGED <<pool, browser, rendered, infra, leaked, attempt, verdict, laneVars, dogVars,
                    results, completed, faults>>
    BY <1>3 DEF Acquire
  <2>6. QED
    BY <1>1, <2>3, <2>4, <2>5 DEF TypeOK
<1>4. CASE ProbePasses(s) \/ CaptureWedges(s)
  <2>1. faults' \in 0 .. MaxFaults
    BY <1>1, <1>4, FaultTyped DEF ProbePasses, CaptureWedges, TypeOK
  <2>2. pc' \in [Stories -> Captures \cup Settling \cup Settled \cup {"pending"}]
    BY <1>1, <1>4, ZenonT(30) DEF ProbePasses, CaptureWedges, Go, TypeOK, Captures, Holding
  <2>3. QED
    BY <1>1, <1>4, <2>1, <2>2 DEF ProbePasses, CaptureWedges, TypeOK
<1>5. CASE ProbeFails(s)
  <2>1. faults' \in 0 .. MaxFaults
    BY <1>1, <1>5, FaultTyped DEF ProbeFails, TypeOK
  <2>2. QED
    BY <1>1, <1>5, <2>1 DEF ProbeFails, Go, TypeOK, Captures, Holding
<1>6. CASE Relaunch(s)
  <2>1. 0 \in 0 .. StoryCount
    BY RenderAssumption
  <2>2. QED
    BY <1>1, <1>6, <2>1 DEF Relaunch, Replaced, Go, TypeOK, Captures, Holding
<1>7. ASSUME NEW v \in {"none", "captured", "recorded", "retry", "exhausted", "throws"},
             Verdict(s, v)
      PROVE  /\ verdict' \in [Stories -> {"none", "captured", "recorded", "retry", "exhausted",
                                          "throws"}]
             /\ pc' \in [Stories -> Captures \cup Settling \cup Settled \cup {"pending"}]
  BY <1>1, <1>7 DEF Verdict, Go, TypeOK, Captures, Holding
<1>8. CASE RelaunchFails(s)
  <2>1. faults' \in 0 .. MaxFaults /\ leaked' \in Nat
    BY <1>1, <1>8, FaultTyped, SMTT(20) DEF RelaunchFails, NotReplaced, TypeOK
  <2>2. infra' \in [Sessions -> Nat]
    BY <1>1, <1>8 DEF RelaunchFails, EitherClass, InfraVerdict, TypeOK, Holding
  <2>3. results' \in [Stories -> {"none", "ok", "failed"}]
    BY <1>1, <1>8 DEF RelaunchFails, EitherClass, TypeOK
  <2>4. /\ verdict' \in [Stories -> {"none", "captured", "recorded", "retry", "exhausted",
                                     "throws"}]
        /\ pc' \in [Stories -> Captures \cup Settling \cup Settled \cup {"pending"}]
    BY <1>7, <1>8 DEF RelaunchFails, EitherClass, InfraVerdict
  <2>5. QED
    BY <1>1, <1>8, <2>1, <2>2, <2>3, <2>4 DEF RelaunchFails, NotReplaced, TypeOK
<1>9. CASE CaptureSucceeds(s)
  <2>1. rendered[slot[s]] + 1 \in 0 .. StoryCount
    BY <1>1, <1>9, RenderedTyped DEF CaptureSucceeds, Holding
  <2>2. rendered' \in [Sessions -> 0 .. StoryCount] /\ infra' \in [Sessions -> Nat]
    BY <1>1, <1>9, <2>1 DEF CaptureSucceeds, TypeOK
  <2>3. QED
    BY <1>1, <1>7, <1>9, <2>2, SMTT(20) DEF CaptureSucceeds, TypeOK
<1>10. CASE StoryFails(s)
  <2>1. faults' \in 0 .. MaxFaults
    BY <1>1, <1>10, FaultTyped DEF StoryFails, RecordsInAttempt, TypeOK
  <2>2. results' \in [Stories -> {"none", "ok", "failed"}]
    BY <1>1, <1>10 DEF StoryFails, RecordsInAttempt, TypeOK
  <2>3. /\ verdict' \in [Stories -> {"none", "captured", "recorded", "retry", "exhausted",
                                     "throws"}]
        /\ pc' \in [Stories -> Captures \cup Settling \cup Settled \cup {"pending"}]
    BY <1>7, <1>10 DEF StoryFails, RecordsInAttempt
  <2>4. QED
    BY <1>1, <1>10, <2>1, <2>2, <2>3 DEF StoryFails, TypeOK
<1>11. CASE CaptureFails(s)
  <2>1. faults' \in 0 .. MaxFaults
    BY <1>1, <1>11, FaultTyped DEF CaptureFails, TypeOK
  <2>2. infra' \in [Sessions -> Nat]
    <3>1. infra \in [Sessions -> Nat] /\ slot[s] \in Sessions
      BY <1>1, <1>11 DEF CaptureFails, TypeOK, Holding
    <3>2. infra' = infra \/ infra' = [infra EXCEPT ![slot[s]] = @ + 1]
      BY <1>11 DEF CaptureFails, EitherClass, InfraVerdict
    <3>3. QED
      BY <3>1, <3>2
  <2>3. /\ verdict' \in [Stories -> {"none", "captured", "recorded", "retry", "exhausted",
                                     "throws"}]
        /\ pc' \in [Stories -> Captures \cup Settling \cup Settled \cup {"pending"}]
    BY <1>7, <1>11 DEF CaptureFails, EitherClass, InfraVerdict
  <2>4. results' \in [Stories -> {"none", "ok", "failed"}]
    BY <1>1, <1>11 DEF CaptureFails, EitherClass, TypeOK
  <2>5. QED
    BY <1>1, <1>11, <2>1, <2>2, <2>3, <2>4 DEF CaptureFails, TypeOK
<1>12. ASSUME pc[s] \in Holding, ReturnSession(s)
       PROVE  /\ available' \in Seq(Sessions) /\ waiters' = waiters
              /\ slot' \in [Stories -> Sessions \cup {NoSession}]
              /\ pc' \in [Stories -> Captures \cup Settling \cup Settled \cup {"pending"}]
  <2>1. /\ available' = Append(available, slot[s]) /\ waiters' = waiters
        /\ slot' = [slot EXCEPT ![s] = NoSession] /\ Go(s, "decide")
    BY <1>12, Returned
  <2>2. available' \in Seq(Sessions)
    BY <1>1, <1>12, <2>1, QueueAppend DEF TypeOK
  <2>3. QED
    BY <1>1, <2>1, <2>2 DEF TypeOK, Go, Captures
<1>13. CASE Release(s)
  <2>1. pc[s] \in Holding
    BY <1>13 DEF Release, Holding
  <2>2. CASE Condemned(slot[s])
    <3>1. /\ browser' \in [Sessions -> {"absent", "failed", "live", "dead", "closed"}]
          /\ pc' \in [Stories -> Captures \cup Settling \cup Settled \cup {"pending"}]
      BY <1>1, <1>13, <2>1, <2>2 DEF Release, Go, TypeOK, Captures, Holding
    <3>2. QED
      BY <1>1, <1>13, <2>2, <3>1 DEF Release, TypeOK
  <2>3. CASE ~Condemned(slot[s])
    BY <1>1, <1>12, <1>13, <2>1, <2>3 DEF Release, TypeOK
  <2>4. QED
    BY <2>2, <2>3
<1>14. CASE Recycle(s)
  <2>1. pc[s] \in Holding /\ ReturnSession(s) /\ slot[s] \in Sessions
    BY <1>1, <1>14 DEF Recycle, Holding
  <2>2. faults' \in 0 .. MaxFaults
    BY <1>1, <1>14, FaultTyped DEF Recycle, NotReplaced, TypeOK
  <2>3. /\ browser' \in [Sessions -> {"absent", "failed", "live", "dead", "closed"}]
        /\ rendered' \in [Sessions -> 0 .. StoryCount] /\ infra' \in [Sessions -> Nat]
    <3>1. 0 \in 0 .. StoryCount
      BY RenderAssumption
    <3>2. CASE Replaced(slot[s])
      BY <1>1, <2>1, <3>1, <3>2 DEF Replaced, TypeOK
    <3>3. CASE NotReplaced /\ UNCHANGED infra
      BY <1>1, <3>3 DEF NotReplaced, TypeOK
    <3>4. QED
      BY <1>14, <3>2, <3>3 DEF Recycle
  <2>4. leaked' \in Nat
    BY <1>1, <1>14 DEF Recycle, NotReplaced, Replaced, TypeOK
  <2>5. /\ available' \in Seq(Sessions) /\ waiters' = waiters
        /\ slot' \in [Stories -> Sessions \cup {NoSession}]
        /\ pc' \in [Stories -> Captures \cup Settling \cup Settled \cup {"pending"}]
    BY <1>12, <2>1
  <2>6. UNCHANGED <<pool, attempt, verdict, laneVars, dogVars, results, completed>>
    BY <1>14 DEF Recycle
  <2>7. QED
    BY <1>1, <2>2, <2>3, <2>4, <2>5, <2>6 DEF TypeOK
<1>15. QED
  BY <1>2, <1>3, <1>4, <1>5, <1>6, <1>8, <1>9, <1>10, <1>11, <1>13, <1>14 DEF CaptureStep

\* A step of a story after its capture keeps every variable in its type.
LEMMA SettleTyped ==
  ASSUME IInv, NEW s \in Stories, SettleStep(s)
  PROVE  TypeOK'
<1> USE DEF poolVars, storyVars, laneVars, dogVars
<1>1. TypeOK
  BY DEF IInv
<1>2. ASSUME NEW to \in {"done", "threw", "dropped"}, FreeQueueSlot(s, to), pc[s] \in Charged
      PROVE  /\ free' \in 0 .. QueueLimit /\ blocked' \in Seq(Stories)
             /\ pc' \in [Stories -> Captures \cup Settling \cup Settled \cup {"pending"}]
  <2>1. to \in Settled /\ "acquire" \in Captures
    BY DEF Settled, Captures
  <2>2. CASE Go(s, to) /\ UNCHANGED blocked /\ free' \in 0 .. QueueLimit
    BY <1>1, <2>1, <2>2 DEF Go, TypeOK
  <2>3. ASSUME NEW t \in Stories, blocked' = Tail(blocked), UNCHANGED free,
               Tail(blocked) \in Seq(Stories), pc' = [pc EXCEPT ![s] = to, ![t] = "acquire"]
        PROVE  /\ free' \in 0 .. QueueLimit /\ blocked' \in Seq(Stories)
               /\ pc' \in [Stories -> Captures \cup Settling \cup Settled \cup {"pending"}]
    BY <1>1, <2>1, <2>3 DEF TypeOK
  <2>4. QED
    BY <1>2, <2>2, <2>3, FreedOrWoken
<1>3. CASE HandsOff(s)
  <2>1. Append(lane, s) \in Seq(Stories)
    BY <1>1, QueueAppend DEF TypeOK
  <2>2. QED
    BY <1>1, <1>3, <2>1 DEF HandsOff, Go, TypeOK, Settling
<1>4. CASE Retries(s)
  <2>1. attempt[s] \in 0 .. MaxAttempts /\ attempt[s] < MaxAttempts
    BY <1>4 DEF Retries, IInv, TypeOK, VerdictInv, Judged
  <2>2. attempt[s] + 1 \in 0 .. MaxAttempts
    BY <2>1, RenderAssumption
  <2>3. attempt' \in [Stories -> 0 .. MaxAttempts]
    BY <1>1, <1>4, <2>2 DEF Retries, TypeOK
  <2>4. pc' \in [Stories -> Captures \cup Settling \cup Settled \cup {"pending"}]
    BY <1>1, <1>4 DEF Retries, Go, TypeOK, Captures
  <2>5. QED
    BY <1>1, <1>4, <2>3, <2>4 DEF Retries, TypeOK
<1>5. CASE CaptureRecorded(s)
  <2>1. pc[s] \in Charged /\ pc[s] \notin {"done", "dropped"}
    BY <1>5 DEF CaptureRecorded, Charged, Captures
  <2>2. /\ completed' \in 0 .. StoryCount
        /\ results' \in [Stories -> {"none", "ok", "failed"}]
    BY <1>1, <1>5, <2>1, CompletedTyped DEF CaptureRecorded, TypeOK
  <2>3. QED
    BY <1>1, <1>2, <1>5, <2>1, <2>2, SMTT(20) DEF CaptureRecorded, TypeOK
<1>6. CASE CaptureThrows(s)
  <2>1. pc[s] \in Charged
    BY <1>6 DEF CaptureThrows, Charged, Captures
  <2>2. faults' \in 0 .. MaxFaults
    BY <1>1, <1>6, FaultTyped DEF CaptureThrows, TypeOK
  <2>3. QED
    BY <1>1, <1>2, <1>6, <2>1, <2>2 DEF CaptureThrows, TypeOK
<1>7. CASE FinalizeStarts(s)
  <2>1. Tail(lane) \in Seq(Stories)
    BY <1>1, <1>7, QueueTake DEF FinalizeStarts, TypeOK
  <2>2. pc' \in [Stories -> Captures \cup Settling \cup Settled \cup {"pending"}]
    BY <1>1, <1>7 DEF FinalizeStarts, Go, TypeOK, Settling
  <2>3. lane' = Tail(lane) /\ UNCHANGED <<poolVars, slot, attempt, verdict, free, blocked,
                                          pipeline, observed, dogVars, results, completed, faults>>
    BY <1>7 DEF FinalizeStarts
  <2>4. QED
    BY <1>1, <2>1, <2>2, <2>3 DEF TypeOK
<1>8. CASE FinalizeSettles(s)
  <2>1. pc[s] \in Charged /\ pc[s] \notin {"done", "dropped"}
    BY <1>8 DEF FinalizeSettles, Charged, Settling
  <2>2. faults' \in 0 .. MaxFaults
    BY <1>1, <1>8, FaultTyped DEF FinalizeSettles, TypeOK
  <2>3. completed' \in 0 .. StoryCount
    BY <1>8, <2>1, CompletedTyped DEF FinalizeSettles
  <2>4. results' \in [Stories -> {"none", "ok", "failed"}]
    BY <1>1, <1>8 DEF FinalizeSettles, TypeOK
  <2>5. QED
    BY <1>1, <1>2, <1>8, <2>1, <2>2, <2>3, <2>4, SMTT(20) DEF FinalizeSettles, TypeOK
<1>9. CASE FinalizeRetries(s)
  <2>1. faults' \in 0 .. MaxFaults
    BY <1>1, <1>9, FaultTyped DEF FinalizeRetries
  <2>2. pc' \in [Stories -> Captures \cup Settling \cup Settled \cup {"pending"}]
    BY <1>1, <1>9 DEF FinalizeRetries, Go, TypeOK, Settling
  <2>3. QED
    BY <1>1, <1>9, <2>1, <2>2 DEF FinalizeRetries, TypeOK
<1>10. CASE FinalizeThrows(s)
  <2>1. pc[s] \in Charged /\ pc[s] \notin {"done", "dropped"}
    BY <1>10 DEF FinalizeThrows, Charged, Settling
  <2>2. faults' \in 0 .. MaxFaults
    BY <1>1, <1>10, FaultTyped DEF FinalizeThrows
  <2>3. completed' \in 0 .. StoryCount
    BY <1>10, <2>1, CompletedTyped DEF FinalizeThrows
  <2>4. QED
    BY <1>1, <1>2, <1>10, <2>1, <2>2, <2>3 DEF FinalizeThrows, TypeOK
<1>11. QED
  BY <1>3, <1>4, <1>5, <1>6, <1>7, <1>8, <1>9, <1>10 DEF SettleStep

\* Every step keeps every variable in its type.
LEMMA Typed ==
  ASSUME IInv, Next
  PROVE  TypeOK'
BY NextSplits, SystemTyped, CaptureTyped, SettleTyped DEF StoryStep

----------------------------------------------------------------------------
(* What a step of a story leaves alone.                                    *)

\* The story whose finalize starts is the first one queued.
LEMMA FirstQueued ==
  ASSUME IInv, NEW s \in Stories, FinalizeStarts(s)
  PROVE  /\ pc[s] = "queued" /\ lane' = Tail(lane) /\ Go(s, "finalize")
         /\ Distinct(lane') /\ Entries(lane') = Entries(lane) \ {s}
<1>1. lane \in Seq(Stories) /\ lane # <<>> /\ s = Head(lane) /\ lane' = Tail(lane)
  BY DEF FinalizeStarts, IInv, TypeOK
<1>2. s \in Entries(lane) /\ Distinct(lane') /\ Entries(lane') = Entries(lane) \ {s}
  BY <1>1, QueueTake DEF IInv, QueueInv
<1>3. QED
  BY <1>1, <1>2 DEF FinalizeStarts, IInv, QueueInv, At

\* Where a story is says which steps it may take.
LEMMA StepFrom ==
  ASSUME IInv, NEW s \in Stories, StoryStep(s)
  PROVE  \/ pc[s] = "pending" /\ CaptureStarts(s)
         \/ pc[s] = "acquire" /\ Acquire(s)
         \/ pc[s] = "probe" /\ (ProbePasses(s) \/ ProbeFails(s))
         \/ pc[s] = "relaunch" /\ (Relaunch(s) \/ RelaunchFails(s))
         \/ pc[s] = "capture" /\ (CaptureSucceeds(s) \/ StoryFails(s) \/ CaptureWedges(s))
         \/ pc[s] \in {"capture", "wedged"} /\ CaptureFails(s)
         \/ pc[s] = "release" /\ Release(s)
         \/ pc[s] = "recycle" /\ Recycle(s)
         \/ pc[s] = "decide" /\ (HandsOff(s) \/ Retries(s))
         \/ pc[s] = "decide" /\ (CaptureRecorded(s) \/ CaptureThrows(s))
         \/ pc[s] = "queued" /\ FinalizeStarts(s)
         \/ pc[s] = "finalize" /\ FinalizeRetries(s)
         \/ pc[s] \in {"finalize", "refinalize"} /\ (FinalizeSettles(s) \/ FinalizeThrows(s))
<1>1. CASE CaptureStep(s) \/ CaptureWedges(s)
  BY <1>1 DEF CaptureStep, CaptureStarts, Acquire, ProbePasses, ProbeFails, Relaunch,
              RelaunchFails, CaptureSucceeds, StoryFails, CaptureFails, Release, Recycle,
              CaptureWedges
<1>2. CASE SettleStep(s)
  <2>1. FinalizeStarts(s) => pc[s] = "queued"
    BY FirstQueued
  <2>2. QED
    BY <1>2, <2>1 DEF SettleStep, HandsOff, Retries, CaptureRecorded, CaptureThrows,
                      FinalizeSettles, FinalizeRetries, FinalizeThrows
<1>3. QED
  BY <1>1, <1>2 DEF StoryStep

\* The story runs in a launched pool and under a running pipeline, and moves neither.
LEMMA StoryFrame ==
  ASSUME IInv, NEW s \in Stories, StoryStep(s)
  PROVE  /\ pipeline # "off" /\ pool = "up" /\ phase # "prewarm"
         /\ UNCHANGED <<pipeline, observed, pool, fetch, outcome>>
         /\ phase' = phase \/ phase' = "exited"
<1> USE DEF poolVars, storyVars, laneVars, dogVars
<1>1. pipeline # "off"
  <2>1. CASE pc[s] = "pending"
    BY <2>1, StepFrom DEF CaptureStarts
  <2>2. CASE pc[s] # "pending"
    BY <2>2 DEF IInv, StageInv
  <2>3. QED
    BY <2>1, <2>2
<1>2. pool = "up" /\ phase # "prewarm"
  BY <1>1 DEF IInv, StageInv
<1>3. CASE CaptureStep(s) \/ CaptureWedges(s)
  BY <1>1, <1>2, <1>3
     DEF CaptureStep, CaptureStarts, Acquire, ProbePasses, ProbeFails, Relaunch, RelaunchFails,
         CaptureSucceeds, StoryFails, CaptureFails, Release, Recycle, CaptureWedges
<1>4. CASE SettleStep(s)
  BY <1>1, <1>2, <1>4
     DEF SettleStep, HandsOff, Retries, CaptureRecorded, CaptureThrows, FinalizeStarts,
         FinalizeSettles, FinalizeRetries, FinalizeThrows
<1>5. QED
  BY <1>3, <1>4 DEF StoryStep

\* The other stories stay as they are, but one that is blocked may be given a slot.
OthersStay(s) ==
  \A t \in Stories \ {s} :
    /\ pc'[t] = pc[t] \/ (pc[t] = "blocked" /\ pc'[t] = "acquire")
    /\ slot'[t] = slot[t] /\ verdict'[t] = verdict[t] /\ attempt'[t] = attempt[t]
    /\ results'[t] = results[t]

\* Where a story goes from where it is.
OwnMove(s) ==
  \/ pc[s] = "pending"    /\ pc'[s] \in {"blocked", "acquire"}
  \/ pc[s] = "acquire"    /\ pc'[s] \in {"probe", "waiting"}
  \/ pc[s] = "probe"      /\ pc'[s] \in {"capture", "relaunch"}
  \/ pc[s] = "relaunch"   /\ pc'[s] \in {"capture", "release"}
  \/ pc[s] = "capture"    /\ pc'[s] \in {"release", "wedged"}
  \/ pc[s] = "wedged"     /\ pc'[s] = "release"
  \/ pc[s] = "release"    /\ pc'[s] \in {"recycle", "decide"}
  \/ pc[s] = "recycle"    /\ pc'[s] = "decide"
  \/ pc[s] = "decide"     /\ pc'[s] \in {"queued", "acquire", "done", "threw"}
  \/ pc[s] = "queued"     /\ pc'[s] = "finalize"
  \/ pc[s] = "finalize"   /\ pc'[s] \in {"refinalize", "done", "dropped"}
  \/ pc[s] = "refinalize" /\ pc'[s] \in {"done", "dropped"}

\* A story that moves alone.
LEMMA GoMoves ==
  ASSUME IInv, NEW s \in Stories, NEW to, Go(s, to)
  PROVE  pc'[s] = to /\ \A t \in Stories \ {s} : pc'[t] = pc[t]
BY DEF IInv, TypeOK, Go

\* One that ends, and may give its slot to another.
LEMMA FreeMoves ==
  ASSUME IInv, NEW s \in Stories, pc[s] \in Charged, NEW to, FreeQueueSlot(s, to)
  PROVE  /\ pc'[s] = to
         /\ \A t \in Stories \ {s} : \/ pc'[t] = pc[t]
                                     \/ pc[t] = "blocked" /\ pc'[t] = "acquire"
<1>1. pc \in [Stories -> Captures \cup Settling \cup Settled \cup {"pending"}]
  BY DEF IInv, TypeOK
<1>2. CASE Go(s, to)
  BY <1>2, GoMoves
<1>3. ASSUME NEW u \in Stories, u # s, pc[u] = "blocked",
             pc' = [pc EXCEPT ![s] = to, ![u] = "acquire"]
      PROVE  /\ pc'[s] = to
             /\ \A t \in Stories \ {s} : \/ pc'[t] = pc[t]
                                         \/ pc[t] = "blocked" /\ pc'[t] = "acquire"
  BY <1>1, <1>3
<1>4. QED
  BY <1>2, <1>3, FreedOrWoken

\* A story that captures moves itself, and by one step.
LEMMA CaptureMoves ==
  ASSUME IInv, NEW s \in Stories, CaptureStep(s) \/ CaptureWedges(s)
  PROVE  OthersStay(s) /\ OwnMove(s)
<1> USE DEF storyVars, poolVars, laneVars, OthersStay, OwnMove
<1>1. /\ slot \in [Stories -> Sessions \cup {NoSession}]
      /\ attempt \in [Stories -> 0 .. MaxAttempts]
      /\ verdict \in [Stories -> {"none", "captured", "recorded", "retry", "exhausted", "throws"}]
      /\ results \in [Stories -> {"none", "ok", "failed"}]
      /\ pc \in [Stories -> Captures \cup Settling \cup Settled \cup {"pending"}]
  BY DEF IInv, TypeOK
<1>2. CASE CaptureStarts(s)
  BY <1>1, <1>2 DEF CaptureStarts
<1>3. CASE Acquire(s)
  BY <1>1, <1>3 DEF Acquire
<1>4. CASE ProbePasses(s) \/ CaptureWedges(s)
  BY <1>1, <1>4, GoMoves DEF ProbePasses, CaptureWedges
<1>5. CASE ProbeFails(s) \/ Relaunch(s)
  BY <1>1, <1>5, GoMoves DEF ProbeFails, Relaunch
<1>6. ASSUME NEW v, Verdict(s, v)
      PROVE  /\ pc'[s] = "release"
             /\ \A t \in Stories \ {s} : pc'[t] = pc[t] /\ verdict'[t] = verdict[t]
  BY <1>1, <1>6, GoMoves DEF Verdict
<1>7. InfraVerdict(s) \/ EitherClass(s) => \E v : Verdict(s, v)
  BY DEF InfraVerdict, EitherClass
<1>8. CASE RelaunchFails(s)
  <2>1. pc[s] = "relaunch" /\ \E v : Verdict(s, v)
    BY <1>7, <1>8 DEF RelaunchFails
  <2>2. \A t \in Stories \ {s} : results'[t] = results[t]
    BY <1>1, <1>8 DEF RelaunchFails, EitherClass
  <2>3. QED
    BY <1>6, <1>8, <2>1, <2>2 DEF RelaunchFails
<1>9. CASE CaptureSucceeds(s)
  BY <1>6, <1>9 DEF CaptureSucceeds
<1>10. CASE StoryFails(s)
  <2>1. pc[s] = "capture" /\ \E v : Verdict(s, v)
    BY <1>10 DEF StoryFails, RecordsInAttempt
  <2>2. \A t \in Stories \ {s} : results'[t] = results[t]
    BY <1>1, <1>10 DEF StoryFails, RecordsInAttempt
  <2>3. QED
    BY <1>6, <1>10, <2>1, <2>2 DEF StoryFails
<1>11. CASE CaptureFails(s)
  <2>1. pc[s] \in {"capture", "wedged"} /\ \E v : Verdict(s, v)
    BY <1>7, <1>11 DEF CaptureFails
  <2>2. \A t \in Stories \ {s} : results'[t] = results[t]
    BY <1>1, <1>11 DEF CaptureFails, EitherClass
  <2>3. QED
    BY <1>6, <1>11, <2>1, <2>2 DEF CaptureFails
<1>12. ASSUME ReturnSession(s)
       PROVE  /\ pc'[s] = "decide"
              /\ \A t \in Stories \ {s} : pc'[t] = pc[t] /\ slot'[t] = slot[t]
  BY <1>1, <1>12, Returned, GoMoves
<1>13. CASE Release(s)
  <2>1. CASE Condemned(slot[s])
    BY <1>13, <2>1, GoMoves DEF Release
  <2>2. CASE ~Condemned(slot[s])
    BY <1>12, <1>13, <2>2 DEF Release
  <2>3. QED
    BY <2>1, <2>2
<1>14. CASE Recycle(s)
  BY <1>12, <1>14 DEF Recycle
<1>15. QED
  BY <1>2, <1>3, <1>4, <1>5, <1>8, <1>9, <1>10, <1>11, <1>13, <1>14 DEF CaptureStep

\* So does one after its capture, which may also wake another.
LEMMA SettleMoves ==
  ASSUME IInv, NEW s \in Stories, SettleStep(s)
  PROVE  OthersStay(s) /\ OwnMove(s)
<1> USE DEF storyVars, OthersStay, OwnMove
<1>1. /\ attempt \in [Stories -> 0 .. MaxAttempts]
      /\ results \in [Stories -> {"none", "ok", "failed"}]
  BY DEF IInv, TypeOK
<1>2. CASE HandsOff(s)
  BY <1>2, GoMoves DEF HandsOff
<1>3. CASE Retries(s)
  BY <1>1, <1>3, GoMoves DEF Retries
<1>4. CASE CaptureRecorded(s)
  <2>1. pc[s] \in Charged
    BY <1>4 DEF CaptureRecorded, Charged, Captures
  <2>2. QED
    BY <1>1, <1>4, <2>1, FreeMoves DEF CaptureRecorded
<1>5. CASE CaptureThrows(s)
  <2>1. pc[s] \in Charged
    BY <1>5 DEF CaptureThrows, Charged, Captures
  <2>2. QED
    BY <1>5, <2>1, FreeMoves DEF CaptureThrows
<1>6. CASE FinalizeStarts(s)
  <2>1. pc[s] = "queued" /\ Go(s, "finalize") /\ UNCHANGED <<slot, attempt, verdict, results>>
    BY <1>6, FirstQueued DEF FinalizeStarts
  <2>2. QED
    BY <2>1, GoMoves
<1>7. CASE FinalizeRetries(s)
  BY <1>7, GoMoves DEF FinalizeRetries
<1>8. CASE FinalizeSettles(s) \/ FinalizeThrows(s)
  <2>1. pc[s] \in {"finalize", "refinalize"} /\ pc[s] \in Charged
    BY <1>8 DEF FinalizeSettles, FinalizeThrows, Charged, Settling
  <2>2. FreeQueueSlot(s, "done") \/ FreeQueueSlot(s, "dropped")
    BY <1>8 DEF FinalizeSettles, FinalizeThrows
  <2>3. UNCHANGED <<slot, attempt, verdict>> /\ \A t \in Stories \ {s} : results'[t] = results[t]
    BY <1>1, <1>8 DEF FinalizeSettles, FinalizeThrows
  <2>4. QED
    BY <2>1, <2>2, <2>3, FreeMoves
<1>9. QED
  BY <1>2, <1>3, <1>4, <1>5, <1>6, <1>7, <1>8 DEF SettleStep

\* So does every story.
LEMMA StoryMoves ==
  ASSUME IInv, NEW s \in Stories, StoryStep(s)
  PROVE  OthersStay(s) /\ OwnMove(s)
BY CaptureMoves, SettleMoves DEF StoryStep

\* A set of steps that a woken story stays in, or stays out of, changes by the story alone.
LEMMA AtStep ==
  ASSUME IInv, NEW s \in Stories, StoryStep(s), NEW P, "blocked" \in P <=> "acquire" \in P
  PROVE  At(P)' = IF pc'[s] \in P THEN At(P) \cup {s} ELSE At(P) \ {s}
BY StoryMoves DEF OthersStay, At

----------------------------------------------------------------------------
(* The stages of the task.                                                 *)

\* Nothing renders before the pool and the download are there.
LEMMA StageHeld ==
  ASSUME IInv, Next
  PROVE  StageInv'
<1> USE DEF poolVars, storyVars, laneVars, dogVars
<1>1. StageInv
  BY DEF IInv
<1>2. CASE SystemStep
  <2>1. UNCHANGED <<rendered, infra, waiters, storyVars, free, blocked, lane, results, completed>>
    BY <1>2, SystemFrame
  <2>2. ASSUME NEW b \in Sessions, Starting(b) \/ BrowserDies(b) PROVE StageInv'
    BY <1>1, <2>1, <2>2 DEF Starting, Launch, LaunchFails, LateLaunch, BrowserDies, StageInv
  <2>3. CASE PipelineStep
    BY <1>1, <2>1, <2>3 DEF PipelineStep, CapturesReject, CapturesDrain, PipelineSettles, StageInv
  <2>4. CASE FetchSettles \/ SetupFails \/ RenderBegins
    BY <1>1, <2>1, <2>4 DEF FetchSettles, SetupFails, RenderBegins, StageInv
  <2>5. CASE WorkWins \/ AbortedWorkSettles \/ GraceExpires \/ Exit \/ Close \/ WatchdogFires
    BY <1>1, <2>1, <2>5 DEF WorkWins, AbortedWorkSettles, GraceExpires, Exit, Close, WatchdogFires,
                            StageInv
  <2>6. QED
    BY <1>2, <2>2, <2>3, <2>4, <2>5 DEF SystemStep, TaskStep
<1>3. ASSUME NEW s \in Stories, StoryStep(s) PROVE StageInv'
  BY <1>1, <1>3, StoryFrame DEF StageInv
<1>4. QED
  BY <1>2, <1>3, NextSplits

----------------------------------------------------------------------------
(* No capture waits for a session.                                         *)

\* The stories that hold every session of the pool are as many as the sessions.
LEMMA AllHeld ==
  ASSUME IInv, pool = "up", available = <<>>
  PROVE  PoolSize <= Cardinality(At(Holding))
<1> DEFINE H == At(Holding)
           f == [s \in H |-> slot[s]]
<1>1. IsFiniteSet(H) /\ H \in SUBSET Stories
  <2>1. H \in SUBSET Stories
    BY DEF At
  <2>2. QED
    BY <2>1, Counted
<1>2. f \in Surjection(H, Sessions)
  <2>1. \A s \in H : slot[s] \in Sessions
    BY HoldsSession DEF At
  <2>2. \A b \in Sessions : \E s \in H : slot[s] = b
    <3>1. Entries(available) = {}
      BY DEF Entries
    <3>2. \A b \in Sessions : \E s \in Stories : slot[s] = b
      BY <3>1 DEF IInv, PlaceInv
    <3>3. \A b \in Sessions : b # NoSession
      BY DEF Sessions, NoSession
    <3>4. QED
      BY <3>2, <3>3 DEF IInv, PlaceInv, At
  <2>3. QED
    BY <2>1, <2>2 DEF Surjection
<1>3. Cardinality(Sessions) <= Cardinality(H)
  BY <1>1, <1>2, FS_Surjection
<1>4. Cardinality(Sessions) = PoolSize
  <2>1. PoolSize \in Int /\ PoolSize >= 1 /\ 1 \in Int
    BY RenderAssumption
  <2>2. QED
    BY <2>1, FS_Interval DEF Sessions
<1>5. QED
  BY <1>3, <1>4

\* So a story that wants one finds one: it would be one capture too many.
LEMMA AcquireFinds ==
  ASSUME IInv, NEW s \in Stories, pc[s] = "acquire", pool = "up"
  PROVE  available # <<>>
<1> SUFFICES ASSUME available = <<>> PROVE FALSE
  OBVIOUS
<1>1. /\ At(Holding) \in SUBSET Stories /\ At(Captures) \in SUBSET Stories
      /\ At(Holding) \cup {s} \in SUBSET Stories
      /\ At(Holding) \cup {s} \subseteq At(Captures) /\ s \notin At(Holding)
  BY DEF At, Captures, Holding
<1>2. Cardinality(At(Holding) \cup {s}) = Cardinality(At(Holding)) + 1
      /\ Cardinality(At(Holding)) \in 0 .. StoryCount
  BY <1>1, Counted
<1>3. IsFiniteSet(At(Captures)) /\ Cardinality(At(Captures)) \in 0 .. StoryCount
  BY <1>1, Counted
<1>4. Cardinality(At(Holding) \cup {s}) <= Cardinality(At(Captures))
  BY <1>1, <1>3, FS_Subset
<1>5. PoolSize <= Cardinality(At(Holding)) /\ Cardinality(At(Captures)) <= PoolSize
  BY AllHeld DEF IInv, CaptureInv
<1>6. QED
  BY <1>2, <1>3, <1>4, <1>5, RenderAssumption

\* Only a story that finds no session joins the waiters, and only one that gives one back
\* takes one from them.
LEMMA WaitersKept ==
  ASSUME IInv, NEW s \in Stories, StoryStep(s), Acquire(s) => available # <<>>
  PROVE  waiters' = waiters
<1> USE DEF poolVars
<1>1. CASE Acquire(s) \/ CaptureStarts(s) \/ ProbePasses(s) \/ ProbeFails(s) \/ Relaunch(s)
           \/ RelaunchFails(s) \/ CaptureSucceeds(s) \/ StoryFails(s) \/ CaptureFails(s)
           \/ CaptureWedges(s)
  BY <1>1 DEF Acquire, CaptureStarts, ProbePasses, ProbeFails, Relaunch, RelaunchFails,
              CaptureSucceeds, StoryFails, CaptureFails, CaptureWedges
<1>2. CASE Release(s) \/ Recycle(s)
  BY <1>2, Returned DEF Release, Recycle
<1>3. CASE SettleStep(s)
  BY <1>3 DEF SettleStep, HandsOff, Retries, CaptureRecorded, CaptureThrows, FinalizeStarts,
              FinalizeSettles, FinalizeRetries, FinalizeThrows
<1>4. QED
  BY <1>1, <1>2, <1>3 DEF StoryStep, CaptureStep

\* A capture is started only while fewer run than there are sessions.
LEMMA CaptureHeld ==
  ASSUME IInv, Next
  PROVE  CaptureInv'
<1>1. CaptureInv
  BY DEF IInv
<1>2. CASE SystemStep
  BY <1>1, <1>2, SystemFrame DEF CaptureInv, At, storyVars
<1>3. ASSUME NEW s \in Stories, StoryStep(s) PROVE CaptureInv'
  <2>1. pc[s] = "acquire" => Acquire(s) /\ available # <<>>
    BY <1>3, StepFrom, StoryFrame, AcquireFinds
  <2>2. pc[s] = "acquire" => pc'[s] = "probe" /\ waiters' = waiters
    BY <2>1 DEF Acquire, IInv, TypeOK
  <2>3. pc'[s] # "waiting" /\ \A t \in Stories : pc'[t] # "waiting"
    BY <1>1, <1>3, <2>2, StoryMoves DEF OwnMove, OthersStay, CaptureInv
  <2>4. waiters' = waiters
    BY <1>3, <2>1, WaitersKept DEF Acquire
  <2>5. Cardinality(At(Captures)') <= PoolSize
    <3>1. At(Captures) \in SUBSET Stories
      BY DEF At
    <3>2. At(Captures)' = IF pc'[s] \in Captures THEN At(Captures) \cup {s} ELSE At(Captures) \ {s}
      BY <1>3, AtStep DEF Captures
    <3>3. /\ Cardinality(At(Captures)) \in Nat /\ Cardinality(At(Captures)) <= PoolSize
          /\ PoolSize \in Nat
          /\ Cardinality(At(Captures) \cup {s})
               = IF s \in At(Captures)
                   THEN Cardinality(At(Captures)) ELSE Cardinality(At(Captures)) + 1
          /\ Cardinality(At(Captures) \ {s})
               = IF s \in At(Captures)
                   THEN Cardinality(At(Captures)) - 1 ELSE Cardinality(At(Captures))
      BY <1>1, <3>1, Counted, RenderAssumption DEF CaptureInv
    <3>4. CASE pc[s] = "pending"
      <4>1. CaptureStarts(s)
        BY <1>3, <3>4, StepFrom
      <4>2. Cardinality(At(Captures)) < PoolSize
        BY <4>1 DEF CaptureStarts, At
      <4>3. QED
        BY <3>2, <3>3, <4>2
    <3>5. CASE pc[s] \in Captures
      <4>1. s \in At(Captures)
        BY <3>5 DEF At
      <4>2. QED
        BY <3>2, <3>3, <4>1
    <3>6. CASE pc'[s] \notin Captures
      BY <3>2, <3>3, <3>6
    <3>7. QED
      BY <1>3, <3>4, <3>5, <3>6, StoryMoves DEF OwnMove, Captures, Holding
  <2>6. QED
    BY <1>1, <2>3, <2>4, <2>5 DEF CaptureInv
<1>4. QED
  BY <1>2, <1>3, NextSplits

----------------------------------------------------------------------------
(* Every session is in one place.                                          *)

\* The launch of a pool makes each session that answers available.
LEMMA LaunchPlaces ==
  ASSUME IInv, NEW b \in Sessions, Launch(b)
  PROVE  PlaceInv'
<1>1. /\ available \in Seq(Sessions)
      /\ browser \in [Sessions -> {"absent", "failed", "live", "dead", "closed"}]
      /\ Distinct(available) /\ Entries(available) = {x \in Sessions : browser[x] # "absent"}
  BY DEF Launch, IInv, TypeOK, PlaceInv
<1>2. /\ pool = "launching" /\ browser[b] = "absent" /\ \A x \in 1 .. b - 1 : browser[x] # "absent"
      /\ browser' = [browser EXCEPT ![b] = "live"] /\ available' = Append(available, b)
      /\ pool' = IF b = PoolSize THEN "up" ELSE pool
      /\ pc' = pc /\ slot' = slot
  BY DEF Launch, Answers, storyVars
<1>3. Distinct(available') /\ Entries(available') = Entries(available) \cup {b}
  BY <1>1, <1>2, QueueAppend
<1>4. Entries(available') = {x \in Sessions : browser'[x] # "absent"}
  BY <1>1, <1>2, <1>3
<1>5. \A s \in Stories : slot[s] = NoSession /\ pc[s] \notin Holding
  BY <1>2 DEF IInv, StageInv, PlaceInv, Holding
<1>6. pool' = "up" => \A x \in Sessions : x \in Entries(available')
  <2>1. ASSUME b = PoolSize, NEW x \in Sessions PROVE browser'[x] # "absent"
    BY <1>1, <1>2, <2>1, RenderAssumption DEF Sessions
  <2>2. QED
    BY <1>2, <1>4, <2>1
<1>7. \A s \in Stories : slot[s] \notin Entries(available')
  BY <1>4, <1>5 DEF Sessions, NoSession
<1>8. QED
  BY <1>2, <1>3, <1>4, <1>5, <1>6, <1>7 DEF PlaceInv

\* Nothing else the system does moves a session.
LEMMA SystemPlaces ==
  ASSUME IInv, SystemStep, \A b \in Sessions : ~Launch(b)
  PROVE  /\ available' = available /\ pool' \in {pool, "failed"}
         /\ pool' = "launching" => browser' = browser
<1> USE DEF poolVars
<1>1. ASSUME NEW b \in Sessions, Starting(b) \/ BrowserDies(b)
      PROVE  /\ available' = available /\ pool' \in {pool, "failed"}
             /\ pool' = "launching" => browser' = browser
  BY <1>1 DEF Starting, LaunchFails, LateLaunch, BrowserDies
<1>2. CASE PipelineStep
  BY <1>2 DEF PipelineStep, CapturesReject, CapturesDrain, PipelineSettles
<1>3. CASE FetchSettles \/ SetupFails \/ RenderBegins \/ WorkWins \/ AbortedWorkSettles
           \/ GraceExpires \/ Exit
  BY <1>3 DEF FetchSettles, SetupFails, RenderBegins, WorkWins, AbortedWorkSettles,
              GraceExpires, Exit
<1>4. CASE Close \/ WatchdogFires
  BY <1>4 DEF Close, WatchdogFires, IInv, StageInv
<1>5. QED
  BY <1>1, <1>2, <1>3, <1>4 DEF SystemStep, TaskStep

\* A story that neither takes a session nor gives one back keeps what it has.
LEMMA SlotKept ==
  ASSUME IInv, NEW s \in Stories, StoryStep(s), pc[s] \notin {"acquire", "release", "recycle"}
  PROVE  UNCHANGED <<slot, available>>
<1> USE DEF poolVars
<1>1. CASE CaptureStarts(s) \/ ProbePasses(s) \/ ProbeFails(s) \/ Relaunch(s)
           \/ RelaunchFails(s) \/ CaptureSucceeds(s) \/ StoryFails(s) \/ CaptureFails(s)
           \/ CaptureWedges(s)
  BY <1>1 DEF CaptureStarts, ProbePasses, ProbeFails, Relaunch, RelaunchFails,
              CaptureSucceeds, StoryFails, CaptureFails, CaptureWedges
<1>2. CASE HandsOff(s) \/ Retries(s) \/ CaptureRecorded(s) \/ CaptureThrows(s)
           \/ FinalizeStarts(s) \/ FinalizeSettles(s) \/ FinalizeRetries(s) \/ FinalizeThrows(s)
  BY <1>2 DEF HandsOff, Retries, CaptureRecorded, CaptureThrows, FinalizeStarts,
              FinalizeSettles, FinalizeRetries, FinalizeThrows
<1>3. QED
  BY <1>1, <1>2, StepFrom

\* A session moves between the queue of available ones and one story's hands.
LEMMA PlaceHeld ==
  ASSUME IInv, Next
  PROVE  PlaceInv'
<1>1. PlaceInv /\ TypeOK
  BY DEF IInv
<1>2. CASE SystemStep
  <2>1. CASE \E b \in Sessions : Launch(b)
    BY <2>1, LaunchPlaces
  <2>2. CASE \A b \in Sessions : ~Launch(b)
    <3>1. /\ available' = available /\ pool' \in {pool, "failed"}
          /\ pool' = "launching" => browser' = browser
      BY <1>2, <2>2, SystemPlaces
    <3>2. slot' = slot /\ pc' = pc
      BY <1>2, SystemFrame DEF storyVars
    <3>3. QED
      BY <1>1, <3>1, <3>2 DEF PlaceInv
  <2>3. QED
    BY <2>1, <2>2
<1>3. ASSUME NEW s \in Stories, StoryStep(s) PROVE PlaceInv'
  <2>1. /\ pool = "up" /\ pool' = pool
        /\ \A t \in Stories \ {s} : pc'[t] \in Holding <=> pc[t] \in Holding
        /\ \A b \in Sessions : b \in Entries(available) \/ \E t \in Stories : slot[t] = b
    BY <1>1, <1>3, StoryFrame, StoryMoves DEF OthersStay, Holding, PlaceInv
  <2>2. \A t \in Stories : slot[t] \in Sessions \cup {NoSession}
    BY <1>1 DEF TypeOK
  <2>3. NoSession \notin Sessions
    BY DEF Sessions, NoSession
  <2>4. CASE pc[s] \notin {"acquire", "release", "recycle"}
    <3>1. UNCHANGED <<slot, available>>
      BY <1>3, <2>4, SlotKept
    <3>2. pc'[s] \in Holding <=> pc[s] \in Holding
      BY <1>3, <2>4, StoryMoves DEF OwnMove, Holding
    <3>3. QED
      BY <1>1, <2>1, <3>1, <3>2 DEF PlaceInv
  <2>5. CASE pc[s] = "acquire"
    <3>1. Acquire(s) /\ available # <<>> /\ available \in Seq(Sessions) /\ pc'[s] # "waiting"
      BY <1>1, <1>3, <2>1, <2>5, StepFrom, AcquireFinds DEF Acquire, TypeOK
    <3>2. /\ slot' = [slot EXCEPT ![s] = Head(available)] /\ available' = Tail(available)
          /\ pc'[s] = "probe"
      BY <1>1, <3>1 DEF Acquire, TypeOK
    <3>3. /\ Head(available) \in Sessions /\ Head(available) \in Entries(available)
          /\ Distinct(available') /\ Entries(available') = Entries(available) \ {Head(available)}
      BY <1>1, <3>1, <3>2, QueueTake DEF PlaceInv
    <3>4. /\ slot'[s] = Head(available) /\ slot[s] = NoSession
          /\ \A t \in Stories \ {s} : slot'[t] = slot[t]
      <4>1. pc[s] \notin Holding /\ slot \in [Stories -> Sessions \cup {NoSession}]
        BY <1>1, <2>5 DEF TypeOK, Holding
      <4>2. QED
        BY <1>1, <3>2, <4>1 DEF PlaceInv
    <3>5. \A t \in Stories : slot'[t] # NoSession <=> pc'[t] \in Holding
      BY <1>1, <2>1, <2>3, <3>2, <3>3, <3>4 DEF PlaceInv, Holding
    <3>6. \A t \in Stories : slot'[t] \notin Entries(available')
      BY <1>1, <3>3, <3>4 DEF PlaceInv
    <3>7. \A t, u \in Stories : slot'[t] = slot'[u] /\ slot'[t] # NoSession => t = u
      BY <1>1, <3>3, <3>4 DEF PlaceInv
    <3>8. \A b \in Sessions : b \in Entries(available') \/ \E t \in Stories : slot'[t] = b
      BY <2>1, <2>3, <3>3, <3>4
    <3>9. QED
      BY <2>1, <3>3, <3>5, <3>6, <3>7, <3>8 DEF PlaceInv
  <2>6. ASSUME pc[s] \in {"release", "recycle"}, ReturnSession(s)
        PROVE  PlaceInv'
    <3>1. /\ available' = Append(available, slot[s]) /\ slot' = [slot EXCEPT ![s] = NoSession]
          /\ Go(s, "decide") /\ available \in Seq(Sessions)
      BY <1>1, <2>6, Returned DEF TypeOK
    <3>2. slot[s] \in Sessions /\ slot[s] # NoSession /\ slot[s] \notin Entries(available)
      BY <2>6, HoldsSession DEF Holding
    <3>3. Distinct(available') /\ Entries(available') = Entries(available) \cup {slot[s]}
      BY <1>1, <3>1, <3>2, QueueAppend DEF PlaceInv
    <3>4. slot'[s] = NoSession /\ \A t \in Stories \ {s} : slot'[t] = slot[t]
      BY <1>1, <3>1 DEF TypeOK
    <3>5. pc'[s] = "decide"
      BY <1>1, <3>1, GoMoves
    <3>6. \A t \in Stories : slot'[t] # NoSession <=> pc'[t] \in Holding
      BY <1>1, <2>1, <3>4, <3>5 DEF PlaceInv, Holding
    <3>7. \A t \in Stories : slot'[t] \notin Entries(available')
      <4>1. NoSession \notin Entries(available)
        BY <2>3, <3>1, QueueHolds
      <4>2. QED
        BY <1>1, <2>3, <3>2, <3>3, <3>4, <4>1 DEF PlaceInv
    <3>8. \A t, u \in Stories : slot'[t] = slot'[u] /\ slot'[t] # NoSession => t = u
      BY <1>1, <3>4 DEF PlaceInv
    <3>9. \A b \in Sessions : b \in Entries(available') \/ \E t \in Stories : slot'[t] = b
      BY <2>1, <3>3, <3>4
    <3>10. QED
      BY <2>1, <3>3, <3>6, <3>7, <3>8, <3>9 DEF PlaceInv
  <2>7. CASE pc[s] \in {"release", "recycle"} /\ ~ReturnSession(s)
    <3>1. UNCHANGED <<slot, available>> /\ Go(s, "recycle")
      BY <1>3, <2>7, StepFrom DEF Release, Recycle
    <3>2. pc'[s] \in Holding /\ pc[s] \in Holding
      BY <2>7, <3>1, GoMoves DEF Holding
    <3>3. QED
      BY <1>1, <2>1, <3>1, <3>2 DEF PlaceInv
  <2>8. QED
    BY <2>4, <2>5, <2>6, <2>7
<1>4. QED
  BY <1>2, <1>3, NextSplits

----------------------------------------------------------------------------
(* The two queues of stories and the semaphore.                            *)

\* A story that captures, retries its capture or its finalize moves alone, and leaves the
\* queues and the semaphore as they are.
LEMMA LanesKept ==
  ASSUME IInv, NEW s \in Stories, StoryStep(s), ~CaptureStarts(s), ~HandsOff(s),
         ~CaptureRecorded(s), ~CaptureThrows(s), ~FinalizeStarts(s), ~FinalizeSettles(s),
         ~FinalizeThrows(s)
  PROVE  /\ UNCHANGED <<free, blocked, lane>>
         /\ pc[s] \in Charged \ {"queued"} /\ \E to \in Charged \ {"queued"} : Go(s, to)
<1> USE DEF laneVars, Charged, Captures, Holding, Settling
<1>1. CASE Acquire(s)
  BY <1>1 DEF Acquire, Go
<1>2. CASE ProbePasses(s) \/ ProbeFails(s) \/ Relaunch(s) \/ CaptureWedges(s) \/ Retries(s)
           \/ FinalizeRetries(s)
  BY <1>2 DEF ProbePasses, ProbeFails, Relaunch, CaptureWedges, Retries, FinalizeRetries
<1>3. CASE RelaunchFails(s) \/ CaptureSucceeds(s)
  BY <1>3 DEF RelaunchFails, CaptureSucceeds, EitherClass, InfraVerdict, Verdict
<1>4. CASE StoryFails(s) \/ CaptureFails(s)
  BY <1>4 DEF StoryFails, RecordsInAttempt, CaptureFails, EitherClass, InfraVerdict, Verdict
<1>5. CASE Release(s) \/ Recycle(s)
  BY <1>5, Returned DEF Release, Recycle
<1>6. QED
  BY <1>1, <1>2, <1>3, <1>4, <1>5, StepFrom

\* A story that ends takes itself out, and puts in its place the one it wakes.
LEMMA LanesFreed ==
  ASSUME IInv, NEW s \in Stories, pc[s] \in Charged \ {"queued"},
         NEW to \in {"done", "threw", "dropped"}, FreeQueueSlot(s, to), lane' = lane
  PROVE  QueueInv' /\ ChargeInv'
<1>1. /\ TypeOK /\ QueueInv /\ ChargeInv /\ At(Charged) \in SUBSET Stories /\ s \in At(Charged)
      /\ to \notin Charged /\ to \notin {"blocked", "queued"} /\ pc[s] # "blocked"
      /\ "blocked" \notin Charged /\ "acquire" \in Charged
  BY DEF IInv, At, Charged, Captures, Holding, Settling
<1>2. Cardinality(At(Charged) \ {s}) = Cardinality(At(Charged)) - 1
      /\ Cardinality(At(Charged)) \in Nat /\ free \in Nat /\ QueueLimit \in Nat
  <2>1. free \in Nat /\ QueueLimit \in Nat
    BY <1>1, RenderAssumption DEF TypeOK
  <2>2. QED
    BY <1>1, <2>1, Counted
<1>3. CASE blocked = <<>> /\ UNCHANGED blocked /\ Go(s, to) /\ free' = free + 1
  <2>1. At(Charged)' = At(Charged) \ {s}
    BY <1>1, <1>3, AtGo
  <2>2. At({"blocked"})' = At({"blocked"}) /\ At({"queued"})' = At({"queued"})
    BY <1>1, <1>3, QueuedGo
  <2>3. QED
    BY <1>1, <1>2, <1>3, <2>1, <2>2 DEF QueueInv, ChargeInv
<1>4. ASSUME NEW t \in Stories, t # s, pc[t] = "blocked", blocked # <<>>, t = Head(blocked),
             blocked' = Tail(blocked), UNCHANGED free,
             pc' = [pc EXCEPT ![s] = to, ![t] = "acquire"]
      PROVE  QueueInv' /\ ChargeInv'
  <2>1. Distinct(blocked') /\ Entries(blocked') = Entries(blocked) \ {t}
    BY <1>1, <1>4, QueueTake DEF TypeOK, QueueInv
  <2>2. At(Charged)' = (At(Charged) \ {s}) \cup {t}
    BY <1>1, <1>4, AtWake
  <2>3. At({"blocked"})' = At({"blocked"}) \ {t} /\ At({"queued"})' = At({"queued"})
    <3>1. /\ pc'[s] = to /\ pc'[t] = "acquire"
          /\ \A u \in Stories \ {s, t} : pc'[u] = pc[u]
      BY <1>1, <1>4 DEF TypeOK
    <3>2. QED
      BY <1>1, <1>4, <3>1 DEF At
  <2>4. Cardinality(At(Charged)') = Cardinality(At(Charged))
    <3>1. t \notin At(Charged) \ {s} /\ At(Charged) \ {s} \in SUBSET Stories
      BY <1>1, <1>4 DEF At
    <3>2. Cardinality((At(Charged) \ {s}) \cup {t}) = Cardinality(At(Charged) \ {s}) + 1
      BY <3>1, Counted
    <3>3. QED
      BY <1>2, <2>2, <3>2
  <2>5. free = 0
    BY <1>1, <1>4 DEF ChargeInv
  <2>6. QED
    BY <1>1, <1>4, <2>1, <2>3, <2>4, <2>5 DEF QueueInv, ChargeInv
<1>5. QED
  BY <1>1, <1>3, <1>4, FreedOrWoken

\* Every way a story can go keeps the queues and the semaphore in step with it.
LEMMA LanesHeld ==
  ASSUME IInv, Next
  PROVE  QueueInv' /\ ChargeInv'
<1>1. /\ TypeOK /\ QueueInv /\ ChargeInv /\ At(Charged) \in SUBSET Stories
      /\ Cardinality(At(Charged)) \in Nat /\ free \in Nat /\ QueueLimit \in Nat
      /\ blocked \in Seq(Stories) /\ lane \in Seq(Stories)
  <2>1. At(Charged) \in SUBSET Stories
    BY DEF At
  <2>2. QED
    BY <2>1, Counted, RenderAssumption DEF IInv, TypeOK
<1>2. CASE SystemStep
  <2>1. UNCHANGED <<pc, free, blocked, lane>>
    BY <1>2, SystemFrame DEF storyVars
  <2>2. At(Charged)' = At(Charged) /\ At({"blocked"})' = At({"blocked"})
        /\ At({"queued"})' = At({"queued"})
    BY <2>1 DEF At
  <2>3. QED
    BY <1>1, <2>1, <2>2 DEF QueueInv, ChargeInv
<1>3. ASSUME NEW s \in Stories, StoryStep(s) PROVE QueueInv' /\ ChargeInv'
  <2>1. CASE CaptureStarts(s)
    <3>1. pc[s] = "pending" /\ s \notin At(Charged) /\ s \notin At({"blocked"})
          /\ s \notin At({"queued"}) /\ lane' = lane
      BY <2>1 DEF CaptureStarts, At, Charged, Captures, Holding, Settling
    <3>2. CASE free > 0
      <4>1. free' = free - 1 /\ blocked' = blocked /\ Go(s, "acquire")
        BY <2>1, <3>2 DEF CaptureStarts, Go
      <4>2. /\ At(Charged)' = At(Charged) \cup {s}
            /\ At({"blocked"})' = At({"blocked"}) /\ At({"queued"})' = At({"queued"})
        BY <1>1, <3>1, <4>1, QueuedGo, ChargedGo DEF Charged, Captures
      <4>3. Cardinality(At(Charged) \cup {s}) = Cardinality(At(Charged)) + 1
        BY <1>1, <3>1, Counted
      <4>4. free + Cardinality(At(Charged)) = QueueLimit /\ blocked = <<>>
        BY <1>1, <3>2 DEF ChargeInv
      <4>5. QED
        BY <1>1, <3>1, <4>1, <4>2, <4>3, <4>4 DEF QueueInv, ChargeInv
    <3>3. CASE ~(free > 0)
      <4>1. free' = free /\ free = 0 /\ blocked' = Append(blocked, s) /\ Go(s, "blocked")
        BY <1>1, <2>1, <3>3 DEF CaptureStarts, Go
      <4>2. /\ At(Charged)' = At(Charged) /\ At({"blocked"})' = At({"blocked"}) \cup {s}
            /\ At({"queued"})' = At({"queued"})
        BY <1>1, <3>1, <4>1, QueuedGo, ChargedGo DEF Charged, Captures, Holding, Settling
      <4>3. Distinct(blocked') /\ Entries(blocked') = Entries(blocked) \cup {s}
        BY <1>1, <3>1, <4>1, QueueAppend DEF QueueInv
      <4>4. QED
        BY <1>1, <3>1, <4>1, <4>2, <4>3 DEF QueueInv, ChargeInv
    <3>4. QED
      BY <3>2, <3>3
  <2>2. CASE HandsOff(s)
    <3>1. pc[s] = "decide" /\ Go(s, "queued") /\ lane' = Append(lane, s)
          /\ blocked' = blocked /\ free' = free
      BY <2>2 DEF HandsOff
    <3>2. /\ pc[s] \in Charged /\ "queued" \in Charged
          /\ s \notin At({"blocked"}) /\ s \notin At({"queued"})
      BY <3>1 DEF At, Charged, Captures, Settling
    <3>3. At(Charged)' = At(Charged) /\ At({"blocked"})' = At({"blocked"})
          /\ At({"queued"})' = At({"queued"}) \cup {s}
      BY <1>1, <3>1, <3>2, QueuedGo, ChargedGo
    <3>4. Distinct(lane') /\ Entries(lane') = Entries(lane) \cup {s}
      BY <1>1, <3>1, <3>2, QueueAppend DEF QueueInv
    <3>5. QED
      BY <1>1, <3>1, <3>3, <3>4 DEF QueueInv, ChargeInv
  <2>3. CASE FinalizeStarts(s)
    <3>1. /\ pc[s] = "queued" /\ Go(s, "finalize") /\ blocked' = blocked /\ free' = free
          /\ Distinct(lane') /\ Entries(lane') = Entries(lane) \ {s}
      BY <2>3, FirstQueued DEF FinalizeStarts
    <3>2. pc[s] \in Charged /\ "finalize" \in Charged
      BY <3>1 DEF Charged, Settling
    <3>3. /\ At(Charged)' = At(Charged) /\ At({"blocked"})' = At({"blocked"})
          /\ At({"queued"})' = At({"queued"}) \ {s}
      BY <1>1, <3>1, <3>2, QueuedGo, ChargedGo
    <3>4. QED
      BY <1>1, <3>1, <3>3 DEF QueueInv, ChargeInv
  <2>4. CASE CaptureRecorded(s) \/ CaptureThrows(s) \/ FinalizeSettles(s) \/ FinalizeThrows(s)
    <3>1. /\ pc[s] \in {"decide", "finalize", "refinalize"} /\ lane' = lane
          /\ \E to \in {"done", "threw", "dropped"} : FreeQueueSlot(s, to)
      BY <2>4 DEF CaptureRecorded, CaptureThrows, FinalizeSettles, FinalizeThrows
    <3>2. pc[s] \in Charged \ {"queued"}
      BY <3>1 DEF Charged, Captures, Settling
    <3>3. QED
      BY <3>1, <3>2, LanesFreed
  <2>5. CASE ~(\/ CaptureStarts(s) \/ HandsOff(s) \/ FinalizeStarts(s) \/ CaptureRecorded(s)
               \/ CaptureThrows(s) \/ FinalizeSettles(s) \/ FinalizeThrows(s))
    <3>1. UNCHANGED <<free, blocked, lane>> /\ pc[s] \in Charged \ {"queued"}
      BY <1>3, <2>5, LanesKept
    <3>2. PICK to \in Charged \ {"queued"} : Go(s, to)
      BY <1>3, <2>5, LanesKept
    <3>3. /\ At(Charged)' = At(Charged) /\ At({"blocked"})' = At({"blocked"})
          /\ At({"queued"})' = At({"queued"})
      <4>1. pc[s] # "blocked" /\ to # "blocked"
        BY <3>1 DEF Charged, Settling
      <4>2. pc[s] # "queued" /\ to # "queued" /\ TypeOK
        BY <1>1, <3>1, <3>2
      <4>3. At(Charged)' = At(Charged)
        BY <3>1, <3>2, <4>2, ChargedGo
      <4>4. At({"blocked"})' = At({"blocked"}) /\ At({"queued"})' = At({"queued"})
        BY <3>2, <4>1, <4>2, QueuedGo
      <4>5. QED
        BY <4>3, <4>4
    <3>4. QED
      BY <1>1, <3>1, <3>3 DEF QueueInv, ChargeInv
  <2>6. QED
    BY <2>1, <2>2, <2>3, <2>4, <2>5
<1>4. QED
  BY <1>2, <1>3, NextSplits

----------------------------------------------------------------------------
(* The verdict of an attempt.                                              *)

\* An attempt is judged once, when its story goes to give its session back; later steps
\* keep the verdict, and a captured story is handed off.
LEMMA VerdictMoves ==
  ASSUME IInv, NEW s \in Stories, StoryStep(s)
  PROVE  \/ /\ verdict' = verdict
            /\ pc'[s] \in Judged => attempt'[s] = attempt[s] /\ pc[s] \in Judged
            /\ pc[s] = "decide" /\ verdict[s] = "captured" => pc'[s] = "queued"
         \/ /\ pc[s] \in {"relaunch", "capture", "wedged"} /\ pc'[s] = "release"
            /\ attempt' = attempt
            /\ \E v : /\ verdict' = [verdict EXCEPT ![s] = v]
                      /\ v = "retry" => attempt[s] < MaxAttempts
                      /\ v = "captured" => CaptureSucceeds(s)
<1> USE DEF storyVars, Judged
<1>1. CASE Acquire(s) \/ ProbePasses(s) \/ ProbeFails(s) \/ Relaunch(s) \/ CaptureWedges(s)
  <2>1. verdict' = verdict
    BY <1>1 DEF Acquire, ProbePasses, ProbeFails, Relaunch, CaptureWedges
  <2>2. pc'[s] \notin Judged /\ pc[s] # "decide"
    <3>1. pc[s] \in {"acquire", "probe", "relaunch", "capture"}
      BY <1>1 DEF Acquire, ProbePasses, ProbeFails, Relaunch, CaptureWedges
    <3>2. CASE Acquire(s)
      BY <3>1, <3>2, StoryMoves DEF OwnMove, Acquire
    <3>3. CASE ProbePasses(s) \/ ProbeFails(s) \/ Relaunch(s) \/ CaptureWedges(s)
      BY <3>1, <3>3, GoMoves DEF ProbePasses, ProbeFails, Relaunch, CaptureWedges
    <3>4. QED
      BY <1>1, <3>2, <3>3
  <2>3. QED
    BY <2>1, <2>2
<1>2. CASE CaptureStarts(s)
  BY <1>2, StoryMoves DEF CaptureStarts, OwnMove
<1>3. CASE RelaunchFails(s) \/ CaptureFails(s)
  <2>1. /\ pc[s] \in {"relaunch", "capture", "wedged"} /\ attempt' = attempt
        /\ \E v : v # "captured" /\ Verdict(s, v) /\ (v = "retry" => attempt[s] < MaxAttempts)
    BY <1>3 DEF RelaunchFails, CaptureFails, EitherClass, InfraVerdict
  <2>2. QED
    BY <2>1, GoMoves DEF Verdict
<1>4. CASE StoryFails(s)
  <2>1. /\ pc[s] = "capture" /\ attempt' = attempt
        /\ \E v : v # "captured" /\ v # "retry" /\ Verdict(s, v)
    BY <1>4 DEF StoryFails, RecordsInAttempt
  <2>2. QED
    BY <2>1, GoMoves DEF Verdict
<1>5. CASE CaptureSucceeds(s)
  <2>1. pc[s] = "capture" /\ attempt' = attempt /\ Verdict(s, "captured")
    BY <1>5 DEF CaptureSucceeds
  <2>2. QED
    BY <1>5, <2>1, GoMoves DEF Verdict
<1>6. CASE Release(s) \/ Recycle(s)
  BY <1>6 DEF Release, Recycle
<1>7. CASE HandsOff(s)
  BY <1>7, GoMoves DEF HandsOff
<1>8. CASE Retries(s) \/ FinalizeRetries(s)
  BY <1>8, GoMoves DEF Retries, FinalizeRetries
<1>9. CASE CaptureRecorded(s) \/ CaptureThrows(s)
  <2>1. verdict' = verdict /\ verdict[s] # "captured" /\ attempt' = attempt /\ pc[s] = "decide"
    BY <1>9 DEF CaptureRecorded, CaptureThrows
  <2>2. QED
    BY <2>1
<1>10. CASE FinalizeStarts(s) \/ FinalizeSettles(s) \/ FinalizeThrows(s)
  <2>1. verdict' = verdict
    BY <1>10 DEF FinalizeStarts, FinalizeSettles, FinalizeThrows
  <2>2. pc[s] \in {"queued", "finalize", "refinalize"}
    BY <1>10, FirstQueued DEF FinalizeSettles, FinalizeThrows
  <2>3. QED
    BY <2>1, <2>2, StoryMoves DEF OwnMove
<1>11. QED
  BY <1>1, <1>2, <1>3, <1>4, <1>5, <1>6, <1>7, <1>8, <1>9, <1>10, StepFrom

\* A browser renders one story more in a successful capture, and none of a new one.
LEMMA RenderedMoves ==
  ASSUME IInv, NEW s \in Stories, StoryStep(s), NEW b \in Sessions
  PROVE  \/ rendered'[b] = rendered[b] \/ rendered'[b] = 0
         \/ rendered'[b] = rendered[b] + 1 /\ CaptureSucceeds(s)
<1> USE DEF poolVars
<1>1. rendered \in [Sessions -> 0 .. StoryCount]
  BY DEF IInv, TypeOK
<1>2. CASE CaptureSucceeds(s)
  BY <1>1, <1>2 DEF CaptureSucceeds
<1>3. CASE Relaunch(s) \/ RelaunchFails(s) \/ Recycle(s)
  BY <1>1, <1>3 DEF Relaunch, RelaunchFails, Recycle, Replaced, NotReplaced
<1>4. CASE CaptureStarts(s) \/ Acquire(s) \/ ProbePasses(s) \/ ProbeFails(s) \/ StoryFails(s)
           \/ CaptureFails(s) \/ CaptureWedges(s) \/ Release(s)
  BY <1>4 DEF CaptureStarts, Acquire, ProbePasses, ProbeFails, StoryFails, CaptureFails,
              CaptureWedges, Release
<1>5. CASE HandsOff(s) \/ Retries(s) \/ CaptureRecorded(s) \/ CaptureThrows(s)
           \/ FinalizeStarts(s) \/ FinalizeSettles(s) \/ FinalizeRetries(s) \/ FinalizeThrows(s)
  BY <1>5 DEF HandsOff, Retries, CaptureRecorded, CaptureThrows, FinalizeStarts,
              FinalizeSettles, FinalizeRetries, FinalizeThrows
<1>6. QED
  BY <1>2, <1>3, <1>4, <1>5, StepFrom

\* Every step keeps the verdicts and the counts of rendered stories in step.
LEMMA VerdictHeld ==
  ASSUME IInv, Next
  PROVE  VerdictInv'
<1> DEFINE C == {t \in Stories : verdict[t] = "captured"}
<1>1. /\ VerdictInv /\ C \in SUBSET Stories
      /\ verdict \in [Stories -> {"none", "captured", "recorded", "retry", "exhausted", "throws"}]
      /\ rendered \in [Sessions -> 0 .. StoryCount]
  BY DEF IInv, TypeOK
<1>2. CASE SystemStep
  BY <1>1, <1>2, SystemFrame DEF VerdictInv, storyVars
<1>3. ASSUME NEW s \in Stories, StoryStep(s) PROVE VerdictInv'
  <2>1. \A t \in Stories \ {s} :
          /\ pc'[t] = pc[t] \/ (pc[t] = "blocked" /\ pc'[t] = "acquire")
          /\ verdict'[t] = verdict[t] /\ attempt'[t] = attempt[t]
    BY <1>3, StoryMoves DEF OthersStay
  <2>2. \A t \in Stories \ {s} :
          /\ verdict'[t] = "captured" => pc'[t] \in Judged \cup Settling \cup {"done", "dropped"}
          /\ verdict'[t] = "retry" /\ pc'[t] \in Judged => attempt'[t] < MaxAttempts
    BY <1>1, <2>1 DEF VerdictInv, Judged, Settling
  <2>3. /\ verdict'[s] = "captured" => pc'[s] \in Judged \cup Settling \cup {"done", "dropped"}
        /\ verdict'[s] = "retry" /\ pc'[s] \in Judged => attempt'[s] < MaxAttempts
    <3>1. CASE /\ verdict' = verdict
               /\ pc'[s] \in Judged => attempt'[s] = attempt[s] /\ pc[s] \in Judged
               /\ pc[s] = "decide" /\ verdict[s] = "captured" => pc'[s] = "queued"
      <4>1. verdict'[s] = "captured" => pc'[s] \in Judged \cup Settling \cup {"done", "dropped"}
        BY <1>1, <1>3, <3>1, StoryMoves DEF OwnMove, VerdictInv, Judged, Settling
      <4>2. QED
        BY <1>1, <3>1, <4>1 DEF VerdictInv
    <3>2. ASSUME NEW v, pc'[s] = "release", attempt' = attempt,
                 verdict' = [verdict EXCEPT ![s] = v], v = "retry" => attempt[s] < MaxAttempts
          PROVE  /\ verdict'[s] = "captured" => pc'[s] \in Judged \cup Settling
                 /\ verdict'[s] = "retry" /\ pc'[s] \in Judged => attempt'[s] < MaxAttempts
      BY <1>1, <3>2 DEF Judged
    <3>3. QED
      BY <1>3, <3>1, <3>2, VerdictMoves
  <2>4. C \subseteq C' /\ (CaptureSucceeds(s) => C' = C \cup {s} /\ s \notin C)
    <3>1. verdict[s] = "captured" => verdict'[s] = "captured"
      <4>1. pc[s] \in {"relaunch", "capture", "wedged"} => verdict[s] # "captured"
        BY <1>1 DEF VerdictInv, Judged, Settling
      <4>2. QED
        BY <1>3, <4>1, VerdictMoves
    <3>2. CaptureSucceeds(s) => verdict'[s] = "captured" /\ verdict[s] # "captured"
      BY <1>1 DEF CaptureSucceeds, Verdict, VerdictInv, Judged, Settling
    <3>3. QED
      BY <2>1, <3>1, <3>2
  <2>5. /\ C' \in SUBSET Stories /\ Cardinality(C) \in Nat /\ Cardinality(C') \in Nat
        /\ Cardinality(C) <= Cardinality(C')
        /\ CaptureSucceeds(s) => Cardinality(C') = Cardinality(C) + 1
    <3>1. C' \in SUBSET Stories
      OBVIOUS
    <3>2. Cardinality(C) \in Nat /\ Cardinality(C') \in Nat /\ IsFiniteSet(C')
      BY <1>1, <3>1, Counted
    <3>3. Cardinality(C) <= Cardinality(C')
      BY <2>4, <3>2, FS_Subset
    <3>4. CaptureSucceeds(s) => Cardinality(C') = Cardinality(C) + 1
      BY <1>1, <2>4, Counted
    <3>5. QED
      BY <3>1, <3>2, <3>3, <3>4
  <2>6. ASSUME NEW b \in Sessions PROVE rendered'[b] <= Cardinality(C')
    <3>1. rendered[b] \in Nat /\ rendered[b] <= Cardinality(C)
      BY <1>1, RenderAssumption DEF VerdictInv
    <3>2. QED
      BY <1>3, <2>5, <3>1, RenderedMoves
  <2>7. QED
    BY <2>2, <2>3, <2>6 DEF VerdictInv
<1>4. QED
  BY <1>2, <1>3, NextSplits

----------------------------------------------------------------------------
(* No session past a threshold is handed out with a live browser.          *)

\* Only the launch of the pool makes a browser live while no story does.
LEMMA SystemBrowsers ==
  ASSUME SystemStep, NEW b \in Sessions, browser'[b] = "live", browser[b] # "live", IInv
  PROVE  rendered[b] = 0 /\ infra[b] = 0
<1>1. browser \in [Sessions -> {"absent", "failed", "live", "dead", "closed"}]
  BY DEF IInv, TypeOK
<1>2. ASSUME NEW x \in Sessions, Launch(x) PROVE rendered[b] = 0 /\ infra[b] = 0
  BY <1>2 DEF Launch, IInv, StageInv
<1>3. ASSUME NEW x \in Sessions, LaunchFails(x) \/ LateLaunch(x) \/ BrowserDies(x) PROVE FALSE
  BY <1>1, <1>3 DEF LaunchFails, LateLaunch, BrowserDies, Destroyed
<1>4. ASSUME PipelineStep PROVE FALSE
  BY <1>1, <1>4 DEF PipelineStep, CapturesReject, CapturesDrain, PipelineSettles, poolVars
<1>5. ASSUME TaskStep \/ WatchdogFires PROVE FALSE
  <2>1. browser' = browser \/ browser' = Destroyed(browser)
    BY <1>5 DEF TaskStep, FetchSettles, SetupFails, RenderBegins, WorkWins, AbortedWorkSettles,
                GraceExpires, Exit, Close, WatchdogFires, poolVars
  <2>2. QED
    BY <1>1, <2>1 DEF Destroyed
<1>6. QED
  BY <1>2, <1>3, <1>4, <1>5 DEF SystemStep, Starting

\* A story only touches the browser of the session it holds.
LEMMA OtherBrowsers ==
  ASSUME IInv, NEW s \in Stories, StoryStep(s), NEW b \in Sessions, b # slot[s]
  PROVE  browser'[b] = browser[b] /\ rendered'[b] = rendered[b] /\ infra'[b] = infra[b]
<1> USE DEF poolVars
<1>1. /\ browser \in [Sessions -> {"absent", "failed", "live", "dead", "closed"}]
      /\ rendered \in [Sessions -> 0 .. StoryCount] /\ infra \in [Sessions -> Nat]
  BY DEF IInv, TypeOK
<1>2. CASE ProbeFails(s) \/ Relaunch(s) \/ Release(s)
  BY <1>1, <1>2 DEF ProbeFails, Relaunch, Replaced, Release
<1>3. CASE RelaunchFails(s) \/ CaptureFails(s)
  BY <1>1, <1>3 DEF RelaunchFails, CaptureFails, EitherClass, InfraVerdict, NotReplaced
<1>4. CASE Recycle(s) \/ CaptureSucceeds(s)
  BY <1>1, <1>4 DEF Recycle, CaptureSucceeds, Replaced, NotReplaced
<1>5. CASE CaptureStarts(s) \/ Acquire(s) \/ ProbePasses(s) \/ StoryFails(s) \/ CaptureWedges(s)
  BY <1>5 DEF CaptureStarts, Acquire, ProbePasses, StoryFails, CaptureWedges
<1>6. CASE HandsOff(s) \/ Retries(s) \/ CaptureRecorded(s) \/ CaptureThrows(s)
           \/ FinalizeStarts(s) \/ FinalizeSettles(s) \/ FinalizeRetries(s) \/ FinalizeThrows(s)
  BY <1>6 DEF HandsOff, Retries, CaptureRecorded, CaptureThrows, FinalizeStarts,
              FinalizeSettles, FinalizeRetries, FinalizeThrows
<1>7. QED
  BY <1>2, <1>3, <1>4, <1>5, <1>6, StepFrom

\* The one it holds is judged before it is given back, and a replacement starts afresh.
LEMMA OwnBrowser ==
  ASSUME IInv, NEW s \in Stories, StoryStep(s), slot[s] \in Sessions
  PROVE  \/ browser'[slot[s]] # "live"
         \/ rendered'[slot[s]] = 0 /\ infra'[slot[s]] = 0
         \/ pc'[s] = "release" /\ slot'[s] = slot[s]
         \/ /\ ~(pc[s] = "release" /\ Condemned(slot[s]))
            /\ browser'[slot[s]] = browser[slot[s]] /\ rendered'[slot[s]] = rendered[slot[s]]
            /\ infra'[slot[s]] = infra[slot[s]]
<1> USE DEF poolVars
<1>1. /\ browser \in [Sessions -> {"absent", "failed", "live", "dead", "closed"}]
      /\ rendered \in [Sessions -> 0 .. StoryCount] /\ infra \in [Sessions -> Nat]
      /\ pc[s] \in Holding
  BY DEF IInv, TypeOK, PlaceInv, Sessions, NoSession
<1>2. CASE pc[s] = "probe"
  BY <1>1, <1>2, StepFrom DEF ProbePasses, ProbeFails
<1>3. ASSUME NEW v, Verdict(s, v), UNCHANGED slot
      PROVE  pc'[s] = "release" /\ slot'[s] = slot[s]
  BY <1>3, GoMoves DEF Verdict
<1>4. CASE RelaunchFails(s) \/ CaptureFails(s)
  BY <1>3, <1>4 DEF RelaunchFails, CaptureFails, EitherClass, InfraVerdict
<1>5. CASE StoryFails(s) \/ CaptureSucceeds(s)
  BY <1>3, <1>5 DEF StoryFails, RecordsInAttempt, CaptureSucceeds
<1>6. CASE Relaunch(s) \/ CaptureWedges(s)
  BY <1>1, <1>6 DEF Relaunch, Replaced, CaptureWedges
<1>7. CASE pc[s] = "release"
  BY <1>1, <1>7, StepFrom DEF Release
<1>8. CASE pc[s] = "recycle"
  <2>1. Recycle(s)
    BY <1>8, StepFrom
  <2>2. CASE Replaced(slot[s])
    BY <1>1, <2>2 DEF Replaced
  <2>3. CASE NotReplaced /\ UNCHANGED infra
    BY <1>8, <2>3 DEF NotReplaced
  <2>4. QED
    BY <2>1, <2>2, <2>3 DEF Recycle
<1>9. QED
  BY <1>1, <1>2, <1>4, <1>5, <1>6, <1>7, <1>8, StepFrom DEF Holding

\* A session that passes a threshold is held by the story that just used it.
LEMMA CondemnedHeld ==
  ASSUME IInv, Next
  PROVE  NeverCondemned'
<1>1. NeverCondemned /\ RecycleAfter \in Nat /\ InfraLimit \in Nat
  BY RenderAssumption DEF IInv
<1>2. SUFFICES ASSUME NEW b \in Sessions, browser'[b] = "live", Condemned(b)'
               PROVE  \E s \in Stories : slot'[s] = b /\ pc'[s] = "release"
  BY DEF NeverCondemned
<1>3. ~(rendered'[b] = 0 /\ infra'[b] = 0)
  BY <1>1, <1>2 DEF Condemned
<1>4. CASE SystemStep
  <2>1. UNCHANGED <<rendered, infra, slot, pc>>
    BY <1>4, SystemFrame DEF storyVars
  <2>2. browser[b] = "live" /\ Condemned(b)
    BY <1>2, <1>3, <1>4, <2>1, SystemBrowsers DEF Condemned
  <2>3. QED
    BY <1>1, <2>1, <2>2 DEF NeverCondemned
<1>5. ASSUME NEW s \in Stories, StoryStep(s)
      PROVE  \E t \in Stories : slot'[t] = b /\ pc'[t] = "release"
  <2>1. CASE b # slot[s]
    <3>1. browser[b] = "live" /\ Condemned(b)
      BY <1>2, <1>5, <2>1, OtherBrowsers DEF Condemned
    <3>2. PICK t \in Stories : slot[t] = b /\ pc[t] = "release"
      BY <1>1, <3>1 DEF NeverCondemned
    <3>3. slot'[t] = b /\ pc'[t] = "release"
      BY <1>5, <2>1, <3>2, StoryMoves DEF OthersStay
    <3>4. QED
      BY <3>3
  <2>2. CASE b = slot[s]
    <3>1. \/ pc'[s] = "release" /\ slot'[s] = b
          \/ ~(pc[s] = "release" /\ Condemned(b)) /\ browser[b] = "live" /\ Condemned(b)
      BY <1>2, <1>3, <1>5, <2>2, OwnBrowser DEF Condemned
    <3>2. CASE browser[b] = "live" /\ Condemned(b)
      <4>1. PICK t \in Stories : slot[t] = b /\ pc[t] = "release"
        BY <1>1, <3>2 DEF NeverCondemned
      <4>2. t = s
        BY <2>2, <4>1 DEF IInv, PlaceInv, Sessions, NoSession
      <4>3. QED
        BY <3>1, <3>2, <4>1, <4>2
    <3>3. QED
      BY <3>1, <3>2
  <2>3. QED
    BY <2>1, <2>2
<1>6. QED
  BY <1>4, <1>5, NextSplits

----------------------------------------------------------------------------
(* Each story that ends is counted once.                                   *)

\* A story is counted by the step that ends it, and by no other.
LEMMA CountMoves ==
  ASSUME IInv, NEW s \in Stories, StoryStep(s)
  PROVE  \/ completed' = completed /\ pc'[s] \notin {"done", "dropped"}
         \/ completed' = CompletedOne /\ pc'[s] \in {"done", "dropped"}
<1>1. CASE CaptureStep(s) \/ CaptureWedges(s)
  <2>1. completed' = completed
    BY <1>1 DEF CaptureStep, CaptureStarts, Acquire, ProbePasses, ProbeFails, Relaunch,
                RelaunchFails, CaptureSucceeds, StoryFails, CaptureFails, Release, Recycle,
                CaptureWedges
  <2>2. pc[s] \notin {"decide", "queued", "finalize", "refinalize"}
    BY <1>1 DEF CaptureStep, CaptureStarts, Acquire, ProbePasses, ProbeFails, Relaunch,
                RelaunchFails, CaptureSucceeds, StoryFails, CaptureFails, Release, Recycle,
                CaptureWedges
  <2>3. QED
    BY <2>1, <2>2, StoryMoves DEF OwnMove
<1>2. CASE HandsOff(s) \/ Retries(s) \/ FinalizeRetries(s)
  BY <1>2, GoMoves DEF HandsOff, Retries, FinalizeRetries
<1>3. CASE FinalizeStarts(s)
  BY <1>3, FirstQueued, GoMoves DEF FinalizeStarts
<1>4. CASE CaptureRecorded(s) \/ CaptureThrows(s)
  <2>1. pc[s] \in Charged
    BY <1>4 DEF CaptureRecorded, CaptureThrows, Charged, Captures
  <2>2. QED
    BY <1>4, <2>1, FreeMoves DEF CaptureRecorded, CaptureThrows
<1>5. CASE FinalizeSettles(s) \/ FinalizeThrows(s)
  <2>1. pc[s] \in Charged
    BY <1>5 DEF FinalizeSettles, FinalizeThrows, Charged, Settling
  <2>2. QED
    BY <1>5, <2>1, FreeMoves DEF FinalizeSettles, FinalizeThrows
<1>6. QED
  BY <1>1, <1>2, <1>3, <1>4, <1>5 DEF StoryStep, SettleStep

\* The tracker goes up by one with each story that ends.
LEMMA CountHeld ==
  ASSUME IInv, Next
  PROVE  CountInv'
<1> DEFINE E == At({"done", "dropped"})
<1>1. CountInv /\ StageInv /\ E \in SUBSET Stories /\ completed \in Nat
  BY RenderAssumption DEF IInv, TypeOK, At
<1>2. Cardinality(E) \in Nat /\ (E = {} => Cardinality(E) = 0)
  BY <1>1, Counted, FS_EmptySet
<1>3. CASE SystemStep
  <2>1. completed' = completed /\ E' = E
    BY <1>3, SystemFrame DEF storyVars, At
  <2>2. CASE RenderBegins
    <3>1. phase = "prewarm" /\ pipeline = "off" /\ completed = 0
      BY <1>1, <2>2 DEF RenderBegins, StageInv
    <3>2. E = {}
      BY <1>1, <3>1 DEF StageInv, At
    <3>3. QED
      BY <1>2, <2>1, <3>1, <3>2 DEF CountInv
  <2>3. CASE ~RenderBegins
    <3>1. phase' \in {"armed", "grace", "fatal"} => phase \in {"armed", "grace", "fatal"}
      <4>1. CASE PipelineStep \/ \E b \in Sessions : Starting(b) \/ BrowserDies(b)
        BY <4>1 DEF PipelineStep, CapturesReject, CapturesDrain, PipelineSettles, dogVars,
                    Starting, Launch, LaunchFails, LateLaunch, BrowserDies
      <4>2. CASE TaskStep \/ WatchdogFires
        BY <2>3, <4>2 DEF TaskStep, FetchSettles, SetupFails, WorkWins, AbortedWorkSettles,
                          GraceExpires, Exit, Close, WatchdogFires
      <4>3. QED
        BY <1>3, <4>1, <4>2 DEF SystemStep
    <3>2. QED
      BY <1>1, <2>1, <3>1 DEF CountInv
  <2>4. QED
    BY <2>2, <2>3
<1>4. ASSUME NEW s \in Stories, StoryStep(s) PROVE CountInv'
  <2>1. /\ E' = IF pc'[s] \in {"done", "dropped"} THEN E \cup {s} ELSE E \ {s}
        /\ s \notin E /\ phase' \in {phase, "exited"}
    <3>1. s \notin E
      BY <1>4, StoryMoves DEF OwnMove, At
    <3>2. QED
      BY <1>4, <3>1, AtStep, StoryFrame
  <2>2. CASE completed' = completed /\ pc'[s] \notin {"done", "dropped"}
    <3>1. E' = E
      BY <2>1, <2>2, SameSet
    <3>2. QED
      BY <1>1, <2>1, <2>2, <3>1 DEF CountInv
  <2>3. CASE completed' = CompletedOne /\ pc'[s] \in {"done", "dropped"}
    <3>1. E' = E \cup {s}
      BY <2>1, <2>3
    <3>2. Cardinality(E \cup {s}) = Cardinality(E) + 1
      BY <1>1, <2>1, Counted
    <3>3. Cardinality(E') = Cardinality(E) + 1
      BY <3>1, <3>2
    <3>4. /\ completed <= Cardinality(E)
          /\ phase \in {"armed", "grace", "fatal"} => completed = Cardinality(E)
      BY <1>1 DEF CountInv
    <3>5. /\ completed' <= Cardinality(E')
          /\ phase' \in {"armed", "grace", "fatal"} => completed' = Cardinality(E')
      BY <1>1, <1>2, <2>1, <2>3, <3>3, <3>4 DEF CompletedOne
    <3>6. QED
      BY <3>5 DEF CountInv
  <2>4. QED
    BY <1>4, <2>2, <2>3, CountMoves
<1>5. QED
  BY <1>3, <1>4, NextSplits

----------------------------------------------------------------------------
(* Rows of results.                                                        *)

\* A story's row is written by the attempt that fails for good, or by the step that ends it.
LEMMA RowMoves ==
  ASSUME IInv, NEW s \in Stories, StoryStep(s)
  PROVE  \/ results' = results /\ pc'[s] # "done"
              /\ (pc[s] \in Judged /\ verdict[s] = "recorded" => pc'[s] \in Judged)
              /\ (pc[s] \in Judged => verdict' = verdict)
         \/ /\ pc[s] \in {"relaunch", "capture"} /\ pc'[s] = "release"
            /\ results' = [results EXCEPT ![s] = "failed"]
            /\ verdict' = [verdict EXCEPT ![s] = "recorded"]
         \/ pc[s] = "decide" /\ pc'[s] = "done" /\ results' = [results EXCEPT ![s] = "failed"]
         \/ /\ pc[s] \in {"finalize", "refinalize"} /\ pc'[s] = "done"
            /\ \E r \in {"ok", "failed"} : results' = [results EXCEPT ![s] = r]
<1> USE DEF Judged, storyVars
<1>1. CASE CaptureStarts(s) \/ Acquire(s) \/ ProbePasses(s) \/ ProbeFails(s) \/ Relaunch(s)
           \/ CaptureSucceeds(s) \/ CaptureWedges(s)
  <2>1. results' = results
    BY <1>1 DEF CaptureStarts, Acquire, ProbePasses, ProbeFails, Relaunch, CaptureSucceeds,
                CaptureWedges
  <2>2. pc[s] \notin Judged /\ pc[s] \notin {"finalize", "refinalize"}
    BY <1>1 DEF CaptureStarts, Acquire, ProbePasses, ProbeFails, Relaunch, CaptureSucceeds,
                CaptureWedges
  <2>3. QED
    BY <2>1, <2>2, StoryMoves DEF OwnMove
<1>2. CASE RelaunchFails(s) \/ StoryFails(s) \/ CaptureFails(s)
  <2>1. /\ pc[s] \in {"relaunch", "capture", "wedged"} /\ \E v : Verdict(s, v)
        /\ \/ results' = results
           \/ /\ pc[s] # "wedged" /\ Verdict(s, "recorded")
              /\ results' = [results EXCEPT ![s] = "failed"]
    BY <1>2 DEF RelaunchFails, StoryFails, CaptureFails, RecordsInAttempt, EitherClass,
                InfraVerdict
  <2>2. pc'[s] = "release"
    BY <2>1, GoMoves DEF Verdict
  <2>3. QED
    BY <2>1, <2>2 DEF Verdict
<1>3. CASE Release(s) \/ Recycle(s)
  <2>1. results' = results /\ verdict' = verdict /\ pc[s] \in {"release", "recycle"}
    BY <1>3 DEF Release, Recycle
  <2>2. QED
    BY <2>1, StoryMoves DEF OwnMove
<1>4. CASE HandsOff(s) \/ Retries(s)
  <2>1. /\ results' = results /\ verdict' = verdict /\ verdict[s] \in {"captured", "retry"}
        /\ Go(s, "queued") \/ Go(s, "acquire")
    BY <1>4 DEF HandsOff, Retries
  <2>2. QED
    BY <2>1, GoMoves
<1>5. CASE CaptureRecorded(s) \/ CaptureThrows(s)
  <2>1. pc[s] \in Charged
    BY <1>5 DEF CaptureRecorded, CaptureThrows, Charged, Captures
  <2>2. QED
    BY <1>5, <2>1, FreeMoves DEF CaptureRecorded, CaptureThrows
<1>6. CASE FinalizeStarts(s)
  <2>1. results' = results /\ pc[s] = "queued" /\ Go(s, "finalize")
    BY <1>6, FirstQueued DEF FinalizeStarts
  <2>2. QED
    BY <2>1, GoMoves
<1>7. CASE FinalizeRetries(s)
  BY <1>7, GoMoves DEF FinalizeRetries
<1>8. CASE FinalizeSettles(s)
  <2>1. pc[s] \in Charged
    BY <1>8 DEF FinalizeSettles, Charged, Settling
  <2>2. QED
    BY <1>8, <2>1, FreeMoves DEF FinalizeSettles
<1>9. CASE FinalizeThrows(s)
  <2>1. pc[s] \in Charged
    BY <1>9 DEF FinalizeThrows, Charged, Settling
  <2>2. QED
    BY <1>9, <2>1, FreeMoves DEF FinalizeThrows
<1>10. QED
  BY <1>1, <1>2, <1>3, <1>4, <1>5, <1>6, <1>7, <1>8, <1>9, StepFrom

\* A row that is there stays as it is.
LEMMA RowHeld ==
  ASSUME IInv, Next
  PROVE  /\ RowInv'
         /\ \A s \in Stories : results[s] # "none" => results'[s] = results[s]
<1>1. /\ RowInv /\ results \in [Stories -> {"none", "ok", "failed"}]
      /\ verdict \in [Stories -> {"none", "captured", "recorded", "retry", "exhausted", "throws"}]
  BY DEF IInv, TypeOK
<1>2. CASE SystemStep
  BY <1>1, <1>2, SystemFrame DEF RowInv, storyVars
<1>3. ASSUME NEW s \in Stories, StoryStep(s)
      PROVE  /\ RowInv'
             /\ \A t \in Stories : results[t] # "none" => results'[t] = results[t]
  <2>1. \A t \in Stories \ {s} :
          /\ pc'[t] = pc[t] \/ (pc[t] = "blocked" /\ pc'[t] = "acquire")
          /\ verdict'[t] = verdict[t] /\ results'[t] = results[t]
    BY <1>3, StoryMoves DEF OthersStay
  <2>2. \A t \in Stories \ {s} :
          /\ pc'[t] = "done" => results'[t] # "none"
          /\ results'[t] # "none" =>
               \/ pc'[t] = "done"
               \/ results'[t] = "failed" /\ verdict'[t] = "recorded" /\ pc'[t] \in Judged
    BY <1>1, <2>1 DEF RowInv, Judged
  <2>3. pc[s] # "done"
    BY <1>3, StoryMoves DEF OwnMove
  <2>4. /\ pc'[s] = "done" => results'[s] # "none"
        /\ results'[s] # "none" =>
             \/ pc'[s] = "done"
             \/ results'[s] = "failed" /\ verdict'[s] = "recorded" /\ pc'[s] \in Judged
        /\ results[s] # "none" => results'[s] = results[s]
    <3>1. results[s] # "none" =>
            results[s] = "failed" /\ verdict[s] = "recorded" /\ pc[s] \in Judged
      BY <1>1, <2>3 DEF RowInv
    <3>2. CASE /\ results' = results /\ pc'[s] # "done"
               /\ (pc[s] \in Judged /\ verdict[s] = "recorded" => pc'[s] \in Judged)
               /\ (pc[s] \in Judged => verdict' = verdict)
      BY <3>1, <3>2
    <3>3. CASE /\ pc[s] \in {"relaunch", "capture"} /\ pc'[s] = "release"
               /\ results' = [results EXCEPT ![s] = "failed"]
               /\ verdict' = [verdict EXCEPT ![s] = "recorded"]
      BY <1>1, <3>1, <3>3 DEF Judged
    <3>4. CASE pc[s] = "decide" /\ pc'[s] = "done" /\ results' = [results EXCEPT ![s] = "failed"]
      BY <1>1, <3>1, <3>4
    <3>5. CASE /\ pc[s] \in {"finalize", "refinalize"} /\ pc'[s] = "done"
               /\ \E r \in {"ok", "failed"} : results' = [results EXCEPT ![s] = r]
      BY <1>1, <3>1, <3>5 DEF Judged
    <3>6. QED
      BY <1>3, <3>2, <3>3, <3>4, <3>5, RowMoves
  <2>5. QED
    BY <2>1, <2>2, <2>4 DEF RowInv
<1>4. QED
  BY <1>2, <1>3, NextSplits

----------------------------------------------------------------------------
(* What the caller is told.                                                *)

\* What the caller is told is decided by a settled pipeline, or by the watchdog.
LEMMA OutcomeHeld ==
  ASSUME IInv, Next
  PROVE  OutcomeInv'
<1>1. OutcomeInv /\ StageInv /\ TypeOK /\ CountInv
  BY DEF IInv
<1>2. CASE SystemStep
  <2>1. pc' = pc /\ completed' = completed
    BY <1>2, SystemFrame DEF storyVars
  <2>2. ASSUME NEW b \in Sessions, Starting(b) \/ BrowserDies(b) PROVE OutcomeInv'
    <3>1. UNCHANGED <<phase, outcome, pipeline>>
      BY <2>2 DEF Starting, Launch, LaunchFails, LateLaunch, BrowserDies, dogVars, laneVars
    <3>2. pipeline = "resolved" => pool = "up"
      BY <1>1 DEF StageInv
    <3>3. pool = "up" => \A x \in Sessions : browser'[x] = "live" => browser[x] = "live"
      BY <1>1, <2>2 DEF Starting, Launch, LaunchFails, LateLaunch, BrowserDies, TypeOK
    <3>4. QED
      BY <1>1, <2>1, <3>1, <3>2, <3>3 DEF OutcomeInv
  <2>3. CASE PipelineStep
    BY <1>1, <2>1, <2>3 DEF PipelineStep, CapturesReject, CapturesDrain, PipelineSettles,
                            OutcomeInv, dogVars, poolVars
  <2>4. CASE WorkWins
    <3>1. /\ pipeline' = pipeline /\ phase = "armed" /\ phase' = "done"
          /\ outcome' = "results" => pipeline = "resolved"
      BY <2>4 DEF WorkWins, laneVars
    <3>2. pipeline = "resolved" => completed = StoryCount
      <4>1. SUFFICES ASSUME pipeline = "resolved" PROVE completed = StoryCount
        OBVIOUS
      <4>2. At({"done", "dropped"}) = Stories
        BY <1>1, <4>1 DEF OutcomeInv, At
      <4>3. Cardinality(Stories) = StoryCount
        BY Counted
      <4>4. QED
        BY <1>1, <3>1, <4>2, <4>3 DEF CountInv
    <3>3. QED
      BY <1>1, <2>1, <3>1, <3>2 DEF OutcomeInv
  <2>5. CASE Close \/ WatchdogFires
    <3>1. pipeline' = pipeline /\ outcome' = outcome /\ browser' = Destroyed(browser)
          /\ (phase' = "closed" \/ phase \in {"armed"})
      BY <2>5 DEF Close, WatchdogFires, laneVars
    <3>2. \A b \in Sessions : browser'[b] # "live"
      BY <1>1, <3>1 DEF TypeOK, Destroyed
    <3>3. QED
      BY <1>1, <2>1, <3>1, <3>2 DEF OutcomeInv
  <2>6. CASE FetchSettles \/ SetupFails \/ RenderBegins
    BY <1>1, <2>1, <2>6 DEF FetchSettles, SetupFails, RenderBegins, OutcomeInv, StageInv,
                            laneVars, poolVars
  <2>7. CASE AbortedWorkSettles \/ GraceExpires \/ Exit
    BY <1>1, <2>1, <2>7 DEF AbortedWorkSettles, GraceExpires, Exit, OutcomeInv, StageInv,
                            laneVars, poolVars
  <2>8. QED
    BY <1>2, <2>2, <2>3, <2>4, <2>5, <2>6, <2>7 DEF SystemStep, TaskStep
<1>3. ASSUME NEW s \in Stories, StoryStep(s) PROVE OutcomeInv'
  <2>1. pipeline' = pipeline /\ outcome' = outcome
    BY <1>3, StoryFrame
  <2>2. pc[s] # "done"
    BY <1>3, StoryMoves DEF OwnMove
  <2>3. pipeline # "resolved" /\ outcome # "results"
    BY <1>1, <2>2 DEF OutcomeInv
  <2>4. QED
    BY <2>1, <2>3 DEF OutcomeInv
<1>4. QED
  BY <1>2, <1>3, NextSplits

----------------------------------------------------------------------------
(* The invariant holds, and what follows from it.                          *)

\* A task that has just begun satisfies the invariant.
LEMMA InitIInv == Init => IInv
<1> SUFFICES ASSUME Init PROVE IInv
  OBVIOUS
<1>1. /\ \A s \in Stories : /\ pc[s] = "pending" /\ slot[s] = NoSession
                            /\ verdict[s] = "none" /\ results[s] = "none"
      /\ \A b \in Sessions : browser[b] = "absent" /\ rendered[b] = 0 /\ infra[b] = 0
  BY DEF Init
<1>2. Entries(<<>>) = {} /\ Distinct(<<>>) /\ <<>> \in Seq(Stories) /\ <<>> \in Seq(Sessions)
  BY DEF Entries, Distinct
<1>3. /\ At(Captures) = {} /\ At(Charged) = {} /\ At({"done", "dropped"}) = {}
      /\ At({"blocked"}) = {} /\ At({"queued"}) = {}
      /\ {s \in Stories : verdict[s] = "captured"} = {}
  BY <1>1 DEF At, Charged, Captures, Holding, Settling
<1>4. /\ Cardinality(At(Captures)) = 0 /\ Cardinality(At(Charged)) = 0
      /\ Cardinality(At({"done", "dropped"})) = 0
      /\ Cardinality({s \in Stories : verdict[s] = "captured"}) = 0
  BY <1>3, FS_EmptySet, Zenon
<1>5. TypeOK
  BY <1>2, RenderAssumption DEF Init, TypeOK
<1>6. StageInv /\ RowInv /\ OutcomeInv
  BY <1>1 DEF Init, StageInv, RowInv, OutcomeInv
<1>7. PlaceInv
  BY <1>1, <1>2 DEF Init, PlaceInv, Holding
<1>8. CaptureInv /\ QueueInv /\ ChargeInv
  <2>1. 0 <= PoolSize /\ QueueLimit + 0 = QueueLimit
    BY RenderAssumption
  <2>2. QED
    BY <1>1, <1>2, <1>3, <1>4, <2>1 DEF Init, CaptureInv, QueueInv, ChargeInv
<1>9. VerdictInv /\ CountInv
  <2>1. \A b \in Sessions :
          rendered[b] <= Cardinality({s \in Stories : verdict[s] = "captured"})
    <3>1. 0 <= 0
      OBVIOUS
    <3>2. QED
      BY <1>1, <1>4, <3>1, Zenon
  <2>2. VerdictInv
    BY <1>1, <2>1 DEF VerdictInv
  <2>3. QED
    BY <1>4, <2>2 DEF Init, CountInv
<1>10. NeverCondemned
  BY <1>1 DEF NeverCondemned
<1>11. QED
  BY <1>5, <1>6, <1>7, <1>8, <1>9, <1>10 DEF IInv

\* And a step that changes nothing keeps it.
LEMMA StutterIInv == IInv /\ UNCHANGED vars => IInv'
<1> SUFFICES ASSUME IInv, UNCHANGED vars PROVE IInv'
  OBVIOUS
<1> USE DEF vars, poolVars, storyVars, laneVars, dogVars
<1>1. TypeOK' /\ StageInv' /\ PlaceInv' /\ RowInv' /\ OutcomeInv'
  BY DEF IInv, TypeOK, StageInv, PlaceInv, RowInv, OutcomeInv
<1>2. CaptureInv' /\ QueueInv' /\ ChargeInv' /\ VerdictInv' /\ CountInv'
  BY DEF IInv, CaptureInv, QueueInv, ChargeInv, VerdictInv, CountInv, At
<1>3. NeverCondemned'
  BY DEF IInv, NeverCondemned, Condemned
<1>4. QED
  BY <1>1, <1>2, <1>3 DEF IInv

\* The invariant is one of the rendering of any list of stories.
THEOREM SessionInvariance == Spec => []IInv
<1>1. IInv /\ [Next]_vars => IInv'
  <2>1. IInv /\ Next => IInv'
    BY Typed, StageHeld, PlaceHeld, CaptureHeld, LanesHeld, VerdictHeld, CondemnedHeld,
       CountHeld, RowHeld, OutcomeHeld DEF IInv
  <2>2. QED
    BY <2>1, StutterIInv
<1>2. QED
  BY InitIInv, <1>1, PTL DEF Spec

\* Every variable of the worker keeps its type: no count leaves its bounds.
THEOREM SessionTypeCorrect == Spec => []TypeOK
<1>1. IInv => TypeOK
  BY DEF IInv
<1>2. QED
  BY <1>1, SessionInvariance, PTL

\* One of one kind and none of the other is one in all.
LEMMA OneInAll ==
  ASSUME NEW S, NEW T, NEW x, (S = {x} /\ T = {}) \/ (S = {} /\ T = {x})
  PROVE  Cardinality(S) + Cardinality(T) = 1
<1>1. Cardinality({x}) = 1 /\ Cardinality({}) = 0 /\ 1 + 0 = 1 /\ 0 + 1 = 1
  BY FS_Singleton, FS_EmptySet
<1>2. QED
  BY <1>1

\* In a launched pool no session is ever lost, held twice or waited for, whatever failed.
THEOREM NoSessionLost == Spec => []SessionsConserved
<1>1. IInv => SessionsConserved
  <2>1. SUFFICES ASSUME IInv, pool = "up", NEW b \in Sessions
                 PROVE  Cardinality({i \in DOMAIN available : available[i] = b})
                          + Cardinality({s \in Stories : slot[s] = b}) = 1
    BY DEF SessionsConserved, IInv, PlaceInv, CaptureInv
  <2>2. PlaceInv /\ DOMAIN available = 1 .. Len(available) /\ b # NoSession
    <3>1. available \in Seq(Sessions)
      BY <2>1 DEF IInv, TypeOK
    <3>2. DOMAIN available = 1 .. Len(available)
      BY <3>1
    <3>3. b # NoSession
      BY DEF Sessions, NoSession
    <3>4. QED
      BY <2>1, <3>2, <3>3 DEF IInv
  <2>3. CASE b \in Entries(available)
    <3>1. PICK i \in DOMAIN available : available[i] = b
      BY <2>2, <2>3 DEF Entries
    <3>2. {j \in DOMAIN available : available[j] = b} = {i}
      BY <2>2, <3>1 DEF PlaceInv, Distinct
    <3>3. {s \in Stories : slot[s] = b} = {}
      BY <2>2, <2>3 DEF PlaceInv
    <3>4. QED
      BY <3>2, <3>3, OneInAll
  <2>4. CASE b \notin Entries(available)
    <3>1. PICK s \in Stories : slot[s] = b
      BY <2>1, <2>2, <2>4 DEF PlaceInv
    <3>2. {t \in Stories : slot[t] = b} = {s}
      BY <2>2, <3>1 DEF PlaceInv
    <3>3. {j \in DOMAIN available : available[j] = b} = {}
      BY <2>2, <2>4 DEF Entries
    <3>4. QED
      BY <3>2, <3>3, OneInAll
  <2>5. QED
    BY <2>3, <2>4
<1>2. QED
  BY <1>1, SessionInvariance, PTL

\* A live browser past a replacement threshold is only ever held by the story that is about
\* to replace it.
THEOREM CondemnedReplaced == Spec => []NeverCondemned
<1>1. IInv => NeverCondemned
  BY DEF IInv
<1>2. QED
  BY <1>1, SessionInvariance, PTL

\* The semaphore loses no slot on any path, so the backlog of finalizes keeps its bound.
THEOREM BacklogKeepsBound == Spec => []BacklogBounded
<1>1. IInv => BacklogBounded
  BY DEF IInv, ChargeInv, BacklogBounded, At, Charged
<1>2. QED
  BY <1>1, SessionInvariance, PTL

\* A task that gives its caller results has one for every story, has counted each once, and
\* leaves no browser open.
THEOREM ResultsComplete == Spec => []ResolvedIsComplete
<1>1. IInv => ResolvedIsComplete
  BY DEF IInv, OutcomeInv, RowInv, PlaceInv, Holding, ResolvedIsComplete
<1>2. QED
  BY <1>1, SessionInvariance, PTL

\* No retry and no finalize overwrites the row a story has.
THEOREM RowsAreFinal == Spec => OneRowPerStory
<1>1. IInv /\ [Next]_vars =>
        [\A s \in Stories : results[s] # "none" => results'[s] = results[s]]_results
  <2>1. UNCHANGED vars => UNCHANGED results
    BY DEF vars
  <2>2. QED
    BY <2>1, RowHeld
<1>2. QED
  BY <1>1, SessionInvariance, PTL DEF Spec, OneRowPerStory
=============================================================================
