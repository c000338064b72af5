------------------------------- MODULE JobQueue -------------------------------
(***************************************************************************)
(* The jobs table and the runners that drain it: the platform's tick, on   *)
(* the real clock, and an administrator's button, on a clock she may have  *)
(* moved.  What a handler does is left open; what it answers decides what  *)
(* is written to its row.                                                  *)
(*                                                                         *)
(* Times are kept as an order: `line` holds the rows whose run_after has   *)
(* passed, earliest first.                                                 *)
(***************************************************************************)
EXTENDS Integers, Sequences, SequencesExt, FiniteSets

CONSTANTS
  Jobs,
  DemoJobs,     \* rows whose own is_demo is set
  DemoOrders,   \* rows that name no order, or one whose is_demo is set
  Ticks,        \* runs of the tick: the real clock, any row
  Buttons,      \* runs of the administrator's button: a moved clock, demo rows
  Batch,        \* BATCH_LIMIT
  MaxTries,     \* MAX_ATTEMPTS
  MaxRearms,    \* bound on deadlines moved and parked rows asked for again
  MaxCrashes,   \* bound on runners that die mid-batch
  MaxOverruns   \* bound on rows taken from a runner still at work on them

Runners == Ticks \cup Buttons

ASSUME QueueAssumption ==
  /\ Ticks \cap Buttons = {}
  /\ IsFiniteSet(Jobs) /\ DemoJobs \subseteq Jobs /\ DemoOrders \subseteq Jobs
  /\ Batch \in Nat \ {0} /\ MaxTries \in Nat \ {0}
  /\ MaxRearms \in Nat /\ MaxCrashes \in Nat /\ MaxOverruns \in Nat

VARIABLES
  status,    \* jobs.status, "absent" before the row is written
  attempts,  \* jobs.attempts
  line,      \* rows whose run_after has passed, by run_after
  batch,     \* what each runner claimed and has not answered for
  contested, \* history: claims <<r, j>> of r on row j that met another's on it
  rearms, crashes, overruns

counters == <<rearms, crashes, overruns>>
vars == <<status, attempts, line, batch, contested, counters>>

Statuses == {"absent", "queued", "running", "held", "failed", "done"}
\* What a runner read of the rows it claimed: their attempts.
Read == UNION {[S -> 0..MaxTries - 1] : S \in SUBSET Jobs}
Idle == [j \in {} |-> 0]

Init ==
  /\ status = [j \in Jobs |-> "absent"]
  /\ attempts = [j \in Jobs |-> 0]
  /\ line = <<>>
  /\ batch = [r \in Runners |-> Idle]
  /\ contested = {}
  /\ rearms = 0 /\ crashes = 0 /\ overruns = 0

Due(j) == \E i \in DOMAIN line : line[i] = j
\* A row stands in line once.
Without(j) ==
  IF Due(j) THEN RemoveAt(line, CHOOSE i \in DOMAIN line : line[i] = j) ELSE line

-----------------------------------------------------------------------------
(* What the lifecycle and the administrator do to a row.                   *)

\* Mutant: a finished row is armed again too.
EnqueueAnew(j) ==
  /\ status[j] \in {"absent", "held", "failed", "done"}
  /\ status[j] # "absent" => rearms < MaxRearms
  /\ rearms' = IF status[j] = "absent" THEN rearms ELSE rearms + 1
  /\ status' = [status EXCEPT ![j] = "queued"]
  /\ attempts' = [attempts EXCEPT ![j] = 0]
  /\ UNCHANGED <<line, batch, contested, crashes, overruns>>

\* enqueue: a new row, or a parked or abandoned one armed again.  A deadline
\* already past puts it among the rows that are due.
Enqueue(j) ==
  /\ status[j] \in {"absent", "held", "failed"}
  /\ status[j] # "absent" => rearms < MaxRearms
  /\ rearms' = IF status[j] = "absent" THEN rearms ELSE rearms + 1
  /\ status' = [status EXCEPT ![j] = "queued"]
  /\ attempts' = [attempts EXCEPT ![j] = 0]
  /\ \/ line' = line
     \/ \E i \in 1..Len(line) + 1 : line' = InsertAt(line, i, j)
  /\ UNCHANGED <<batch, contested, crashes, overruns>>

\* Mutant: a running row is marked done from outside.
CancelUnfinished(j) ==
  /\ status[j] \in {"queued", "running", "held"}
  /\ status' = [status EXCEPT ![j] = "done"]
  /\ line' = Without(j)
  /\ UNCHANGED <<attempts, batch, contested, counters>>

CancelQueued(j) ==
  /\ status[j] \in {"queued", "held"}
  /\ status' = [status EXCEPT ![j] = "done"]
  /\ line' = Without(j)
  /\ UNCHANGED <<attempts, batch, contested, counters>>

\* rearmQueuedJob: the deadline moves later, and nothing else does.
RearmQueued(j) ==
  /\ status[j] = "queued" /\ Due(j)
  /\ rearms < MaxRearms
  /\ rearms' = rearms + 1
  /\ line' = Without(j)
  /\ UNCHANGED <<status, attempts, batch, contested, crashes, overruns>>

\* requeueJob: due at once.
Requeue(j) ==
  /\ status[j] \in {"held", "failed"}
  /\ status' = [status EXCEPT ![j] = "queued"]
  /\ attempts' = [attempts EXCEPT ![j] = 0]
  /\ line' = Append(line, j)
  /\ UNCHANGED <<batch, contested, counters>>

\* A row's run_after passes.
ComesDue(j) ==
  /\ status[j] \in {"queued", "running"} /\ ~Due(j)
  /\ line' = Append(line, j)
  /\ UNCHANGED <<status, attempts, batch, contested, counters>>

-----------------------------------------------------------------------------
(* claimDue                                                                *)

Claimed(r) == DOMAIN batch[r]

Running == {j \in Jobs : status[j] = "running"}
\* Rows some runner is still at work on.
InHand == UNION {Claimed(r) : r \in Runners}

\* Mutant: a row nobody has any more is never taken over.
NeverLapsed == {}

\* `running` for longer than the lease, and nobody has it.
Abandoned == Running \ InHand

\* `running`, and somebody still has it: for longer than the lease, if slow.
AtWork == Running \cap InHand
Overrun == {S \in SUBSET AtWork : overruns + Cardinality(S) <= MaxOverruns}

Ready(j) == (status[j] = "queued" /\ Due(j)) \/ j \in Abandoned

MayTake(r, j) == r \in Buttons => j \in DemoJobs /\ j \in DemoOrders

\* A moved clock reaches some of the rows that are not due yet.
Reach(r) ==
  IF r \in Buttons THEN SUBSET {j \in Jobs : status[j] = "queued" /\ ~Due(j)} ELSE {{}}

\* Row k's run_after is known to be before row j's.
Before(k, j) ==
  \E i \in DOMAIN line : line[i] = k /\ \A n \in 1..i : line[n] # j

\* limit, order by run_after.
OldestOf(eligible) ==
  {S \in SUBSET eligible : /\ S # {}
                           /\ Cardinality(S) <= Batch
                           /\ S = eligible \/ Cardinality(S) = Batch
                           /\ \A j \in S, k \in eligible \ S : ~Before(k, j)}

\* Claims that meet on a row once r has taken S.
Meeting(r, S) ==
  {c \in Runners \X (S \cap InHand) : c[1] = r \/ c[2] \in Claimed(c[1])}

\* One statement: the rows taken are `running` and this runner's.
Claim(r) ==
  /\ Claimed(r) = {}
  /\ \E reach \in Reach(r), slow \in Overrun :
       \E S \in OldestOf({j \in Jobs : (Ready(j) \/ j \in reach \cup slow) /\ MayTake(r, j)}) :
         /\ status' = [j \in Jobs |-> IF j \in S THEN "running" ELSE status[j]]
         /\ batch' = [batch EXCEPT ![r] = [j \in S |-> attempts[j]]]
         /\ contested' = contested \cup Meeting(r, S)
         /\ overruns' = overruns + Cardinality(S \cap AtWork)
  /\ UNCHANGED <<attempts, line, rearms, crashes>>

-----------------------------------------------------------------------------
(* runOne: the handler answers or throws, and its row is written whatever  *)
(* the row says by then.                                                   *)

Answered(r, j) == [k \in Claimed(r) \ {j} |-> batch[r][k]]

Write(r, j, result, tries) ==
  /\ j \in Claimed(r)
  /\ status' = [status EXCEPT ![j] = result]
  /\ attempts' = [attempts EXCEPT ![j] = tries]
  /\ line' = Without(j)
  /\ batch' = [batch EXCEPT ![r] = Answered(r, j)]
  /\ contested' = contested \ {<<r, j>>}
  /\ UNCHANGED counters

MarkDone(r, j) == Write(r, j, "done", attempts[j])

MarkHeld(r, j) == Write(r, j, "held", attempts[j])

\* Counted from what was read at the claim.
Tried(r, j) == batch[r][j] + 1
\* Mutant: the ceiling is compared with the count before this attempt.
ExhaustedLate(r, j) == batch[r][j] >= MaxTries

Exhausted(r, j) == Tried(r, j) >= MaxTries

\* rearmRunningJob: asked to come back; the ceiling parks it.
RearmRunning(r, j) ==
  Write(r, j, IF Exhausted(r, j) THEN "held" ELSE "queued", Tried(r, j))

\* markFailed: threw; the ceiling gives it up.
MarkFailed(r, j) ==
  Write(r, j, IF Exhausted(r, j) THEN "failed" ELSE "queued", Tried(r, j))

RunOne(r, j) ==
  MarkDone(r, j) \/ MarkHeld(r, j) \/ RearmRunning(r, j) \/ MarkFailed(r, j)

\* The process goes, and its rows stay `running`.
RunnerDies(r) ==
  /\ Claimed(r) # {} /\ crashes < MaxCrashes
  /\ crashes' = crashes + 1
  /\ batch' = [batch EXCEPT ![r] = Idle]
  /\ contested' = {c \in contested : c[1] # r}
  /\ UNCHANGED <<status, attempts, line, rearms, overruns>>

-----------------------------------------------------------------------------

Next ==
  \/ \E j \in Jobs :
       Enqueue(j) \/ CancelQueued(j) \/ RearmQueued(j) \/ Requeue(j) \/ ComesDue(j)
  \/ \E r \in Runners :
       \/ Claim(r)
       \/ \E j \in Jobs : RunOne(r, j)
       \/ RunnerDies(r)

\* Time passes, the tick keeps coming, and a handler returns or throws.
Fairness ==
  /\ \A j \in Jobs : WF_vars(ComesDue(j))
  /\ \A r \in Ticks : WF_vars(Claim(r))
  /\ \A r \in Runners : WF_vars(\E j \in Jobs : RunOne(r, j))

Spec == Init /\ [][Next]_vars /\ Fairness

-----------------------------------------------------------------------------

\* Rows and batches hold values their code can write, and no row stands in
\* line twice.
TypeOK ==
  /\ status \in [Jobs -> Statuses]
  /\ attempts \in [Jobs -> 0..MaxTries]
  /\ \A i \in DOMAIN line : line[i] \in Jobs
  /\ \A i, n \in DOMAIN line : line[i] = line[n] => i = n
  /\ batch \in [Runners -> Read]
  /\ contested \subseteq {c \in Runners \X Jobs : c[2] \in Claimed(c[1])}
  /\ rearms \in 0..MaxRearms /\ crashes \in 0..MaxCrashes /\ overruns \in 0..MaxOverruns

\* A claim that no other has met on its row, because its runner kept inside
\* the lease, is exclusive: the row is `running` and no other runner's until
\* that runner answers for it, and nothing cancels, re-arms or counts an
\* attempt on it meanwhile.
OneRunnerPerRow ==
  \A r \in Runners : \A j \in Claimed(r) : <<r, j>> \notin contested =>
    /\ status[j] = "running"
    /\ batch[r][j] = attempts[j]
    /\ \A other \in Runners \ {r} : j \notin Claimed(other)

\* A job is given up on at the ceiling and never runs past it.
GivesUpAtCeiling ==
  \A j \in Jobs :
    /\ status[j] = "failed" => attempts[j] = MaxTries
    /\ status[j] \in {"queued", "running"} => attempts[j] < MaxTries

\* The real clock touches real rows, a moved clock touches only demo rows,
\* whichever way the row came to be claimable.
ShiftedClockTakesDemoOnly ==
  \A r \in Buttons : Claimed(r) \subseteq DemoJobs \cap DemoOrders

\* No row runs past the ceiling, and none that is a real customer's runs on a
\* moved clock, whoever claims it.
Consistent ==
  /\ TypeOK
  /\ GivesUpAtCeiling
  /\ ShiftedClockTakesDemoOnly

\* A row that is done stays done unless a runner whose claim met another's on
\* that very row answers for it, late: no enqueue, requeue, claim or timely
\* answer touches it.
DoneStaysDone ==
  [][\A j \in Jobs : status[j] = "done" /\ status'[j] # "done" =>
       \E r \in Runners : <<r, j>> \in contested /\ RunOne(r, j)]_vars

\* Every row that is queued or running comes to an answer: done, parked with a
\* reason, or given up on.  A runner's death, a backlog longer than one batch,
\* a claim that runs over its lease and an administrator claiming out of turn
\* all leave it to be reached.
EveryJobIsAnswered ==
  \A j \in Jobs :
    (status[j] \in {"queued", "running"}) ~> (status[j] \in {"done", "held", "failed"})

=============================================================================
