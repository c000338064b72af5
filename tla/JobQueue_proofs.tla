---------------------------- MODULE JobQueue_proofs ----------------------------
(***************************************************************************)
(* The rows, their counts and the line stay sound; a moved clock takes     *)
(* demo rows only; a claim is exclusive until another meets it on its row, *)
(* and from that a finished job stays finished unless a runner whose claim *)
(* was met answers late.                                                   *)
(***************************************************************************)
EXTENDS JobQueue, TLAPS, SequenceTheorems, FiniteSetTheorems

RowsTyped ==
  /\ status \in [Jobs -> Statuses]
  /\ attempts \in [Jobs -> 0..MaxTries]
  /\ batch \in [Runners -> Read]

\* A line of rows, each once.
Stands(s) ==
  /\ s \in Seq(Jobs)
  /\ \A i, n \in 1..Len(s) : s[i] = s[n] => i = n

\* No row stands in line twice, or after it was answered for.
LineSound ==
  /\ Stands(line)
  /\ \A i \in 1..Len(line) : status[line[i]] \in {"queued", "running"}

Sound ==
  /\ RowsTyped
  /\ GivesUpAtCeiling
  /\ LineSound
  /\ rearms \in 0..MaxRearms /\ crashes \in 0..MaxCrashes /\ overruns \in 0..MaxOverruns

\* A contested claim is one its runner has not answered for.
ContestedAtWork == contested \subseteq {c \in Runners \X Jobs : c[2] \in Claimed(c[1])}

-----------------------------------------------------------------------------

\* What a runner read is a count for each of some rows.
LEMMA ReadIsPartial ==
  ASSUME NEW f \in Read
  PROVE  /\ DOMAIN f \subseteq Jobs
         /\ \A j \in DOMAIN f : f[j] \in 0..MaxTries - 1
  BY DEF Read

\* ... and any such counts are something a runner could have read.
LEMMA PartialIsRead ==
  ASSUME NEW S \in SUBSET Jobs, NEW f \in [S -> 0..MaxTries - 1]
  PROVE  f \in Read
  BY DEF Read

\* Everything a claim of S by r writes that the arguments below look at.
Taken(r, S) ==
  /\ status' = [j \in Jobs |-> IF j \in S THEN "running" ELSE status[j]]
  /\ batch' = [batch EXCEPT ![r] = [j \in S |-> attempts[j]]]
  /\ contested' = contested \cup Meeting(r, S)
  /\ overruns' = overruns + Cardinality(S \cap AtWork)
  /\ UNCHANGED <<attempts, line, rearms, crashes>>

\* The rows one claim takes are ready for it, or reached by a moved clock.
LEMMA ClaimTakes ==
  ASSUME NEW r \in Runners, Claim(r)
  PROVE  \E S \in SUBSET Jobs :
           /\ \A j \in S : status[j] \in {"queued", "running"} /\ MayTake(r, j)
           /\ Taken(r, S)
           /\ \E slow \in Overrun : S \cap AtWork \subseteq slow
<1>1. PICK reach \in Reach(r), slow \in Overrun :
        \E S \in OldestOf({j \in Jobs : (Ready(j) \/ j \in reach \cup slow) /\ MayTake(r, j)}) :
          Taken(r, S)
  BY DEF Claim, Taken
<1>2. PICK S \in OldestOf({j \in Jobs : (Ready(j) \/ j \in reach \cup slow) /\ MayTake(r, j)}) :
        Taken(r, S)
  BY <1>1
<1>3. S \subseteq {j \in Jobs : (Ready(j) \/ j \in reach \cup slow) /\ MayTake(r, j)}
  BY <1>2 DEF OldestOf
<1>4. /\ \A j \in reach : status[j] = "queued"
      /\ \A j \in slow : status[j] = "running"
  BY <1>1 DEF Reach, Overrun, AtWork, Running
<1>5. \A j \in S : status[j] \in {"queued", "running"} /\ MayTake(r, j)
  BY <1>3, <1>4 DEF Ready, Abandoned, Running
<1>6. S \cap AtWork \subseteq slow
  BY <1>3, <1>4 DEF Ready, Abandoned, Running, AtWork
<1> QED BY <1>1, <1>2, <1>3, <1>5, <1>6

\* A claim stays within the bound on rows taken from a runner at work.
LEMMA OverrunsBounded ==
  ASSUME NEW S \in SUBSET Jobs, NEW slow \in Overrun, S \cap AtWork \subseteq slow,
         overruns \in 0..MaxOverruns
  PROVE  overruns + Cardinality(S \cap AtWork) \in 0..MaxOverruns
<1>1. IsFiniteSet(slow) /\ overruns + Cardinality(slow) <= MaxOverruns
  <2>1. slow \subseteq Jobs
    BY DEF Overrun, AtWork, Running
  <2> QED BY <2>1, QueueAssumption, FS_Subset DEF Overrun, QueueAssumption
<1>2. /\ IsFiniteSet(S \cap AtWork) /\ Cardinality(S \cap AtWork) \in Nat
      /\ Cardinality(slow) \in Nat /\ Cardinality(S \cap AtWork) <= Cardinality(slow)
  BY <1>1, FS_Subset, FS_CardinalityType
<1> QED BY <1>1, <1>2, QueueAssumption DEF QueueAssumption

-----------------------------------------------------------------------------
(* The line.                                                               *)

LEMMA RemoveAtKeeps ==
  ASSUME NEW S, NEW s \in Seq(S), NEW i \in 1..Len(s)
  PROVE  /\ RemoveAt(s, i) \in Seq(S)
         /\ Len(RemoveAt(s, i)) = Len(s) - 1
         /\ \A n \in 1..Len(s) - 1 : RemoveAt(s, i)[n] = IF n < i THEN s[n] ELSE s[n + 1]
<1> DEFINE front == SubSeq(s, 1, i - 1)
           back == SubSeq(s, i + 1, Len(s))
<1>1. /\ front \in Seq(S) /\ Len(front) = i - 1
      /\ \A n \in 1..i - 1 : front[n] = s[n]
  BY SubSeqProperties
<1>2. /\ back \in Seq(S) /\ Len(back) = Len(s) - i
      /\ \A n \in 1..Len(s) - i : back[n] = s[i + n]
  BY SubSeqProperties
<1> HIDE DEF front, back
<1>3. /\ front \o back \in Seq(S)
      /\ Len(front \o back) = Len(s) - 1
      /\ \A n \in 1..Len(s) - 1 : (front \o back)[n] = IF n < i THEN s[n] ELSE s[n + 1]
  <2>1. /\ front \o back \in Seq(S) /\ Len(front \o back) = Len(s) - 1
        /\ \A n \in 1..Len(s) - 1 :
             (front \o back)[n] = IF n <= i - 1 THEN front[n] ELSE back[n - (i - 1)]
    BY <1>1, <1>2, ConcatProperties
  <2>2. \A n \in 1..Len(s) - 1 : ~(n < i) => n - (i - 1) \in 1..Len(s) - i /\ i + (n - (i - 1)) = n + 1
    OBVIOUS
  <2>3. \A n \in 1..Len(s) - 1 : ~(n < i) => back[n - (i - 1)] = s[n + 1]
    BY <1>2, <2>2
  <2>4. \A n \in 1..Len(s) - 1 : n < i => n <= i - 1 /\ front[n] = s[n]
    BY <1>1
  <2>5. ASSUME NEW n \in 1..Len(s) - 1
        PROVE  (front \o back)[n] = IF n < i THEN s[n] ELSE s[n + 1]
    <3>1. (front \o back)[n] = IF n <= i - 1 THEN front[n] ELSE back[n - (i - 1)]
      BY <2>1
    <3>2. n < i <=> n <= i - 1
      OBVIOUS
    <3> QED BY <2>3, <2>4, <3>1, <3>2
  <2> QED BY <2>1, <2>5
<1>4. RemoveAt(s, i) = front \o back
  BY DEF RemoveAt, front, back
<1> QED BY <1>3, <1>4

LEMMA InsertAtKeeps ==
  ASSUME NEW S, NEW s \in Seq(S), NEW i \in 1..Len(s) + 1, NEW e \in S
  PROVE  /\ InsertAt(s, i, e) \in Seq(S)
         /\ Len(InsertAt(s, i, e)) = Len(s) + 1
         /\ \A n \in 1..Len(s) + 1 :
              InsertAt(s, i, e)[n] = IF n < i THEN s[n] ELSE IF n = i THEN e ELSE s[n - 1]
<1> DEFINE front == SubSeq(s, 1, i - 1)
           back == SubSeq(s, i, Len(s))
<1>1. /\ front \in Seq(S) /\ Len(front) = i - 1
      /\ \A n \in 1..i - 1 : front[n] = s[n]
  BY SubSeqProperties
<1>2. /\ back \in Seq(S) /\ Len(back) = Len(s) - i + 1
      /\ \A n \in 1..Len(s) - i + 1 : back[n] = s[i + n - 1]
  BY SubSeqProperties
<1> HIDE DEF front, back
<1>3. /\ front \o <<e>> \in Seq(S) /\ Len(front \o <<e>>) = i
      /\ \A n \in 1..i : (front \o <<e>>)[n] = IF n < i THEN s[n] ELSE e
  BY <1>1
<1>4. /\ (front \o <<e>>) \o back \in Seq(S)
      /\ Len((front \o <<e>>) \o back) = Len(s) + 1
      /\ \A n \in 1..Len(s) + 1 :
           ((front \o <<e>>) \o back)[n] = IF n < i THEN s[n] ELSE IF n = i THEN e ELSE s[n - 1]
  <2> DEFINE upTo == front \o <<e>>
  <2> HIDE DEF upTo
  <2>0. upTo \in Seq(S) /\ Len(upTo) = i
        /\ \A n \in 1..i : upTo[n] = IF n < i THEN s[n] ELSE e
    BY <1>3 DEF upTo
  <2>1. /\ upTo \o back \in Seq(S) /\ Len(upTo \o back) = Len(s) + 1
        /\ \A n \in 1..Len(s) + 1 : (upTo \o back)[n] = IF n <= i THEN upTo[n] ELSE back[n - i]
    BY <1>2, <2>0, ConcatProperties
  <2>2. \A n \in 1..Len(s) + 1 : ~(n <= i) => n - i \in 1..Len(s) - i + 1 /\ i + (n - i) - 1 = n - 1
    OBVIOUS
  <2>3. \A n \in 1..Len(s) + 1 : ~(n <= i) => back[n - i] = s[n - 1]
    BY <1>2, <2>2
  <2> QED BY <2>0, <2>1, <2>3 DEF upTo
<1>5. InsertAt(s, i, e) = (front \o <<e>>) \o back
  BY DEF InsertAt, front, back
<1> QED BY <1>4, <1>5

\* Taking a row out of the line leaves the others, each once.
LEMMA WithoutKeeps ==
  ASSUME Stands(line), NEW j \in Jobs
  PROVE  /\ Stands(Without(j))
         /\ \A n \in 1..Len(Without(j)) :
              Without(j)[n] # j /\ \E i \in 1..Len(line) : Without(j)[n] = line[i]
<1>1. line \in Seq(Jobs) /\ DOMAIN line = 1..Len(line)
      /\ \A i, n \in 1..Len(line) : line[i] = line[n] => i = n
  BY DEF Stands
<1>2. CASE ~Due(j)
  BY <1>1, <1>2 DEF Without, Due, Stands
<1>3. CASE Due(j)
  <2>1. PICK i \in 1..Len(line) : line[i] = j /\ Without(j) = RemoveAt(line, i)
    BY <1>1, <1>3 DEF Without, Due
  <2> DEFINE rest == RemoveAt(line, i)
  <2>2. /\ rest \in Seq(Jobs) /\ Len(rest) = Len(line) - 1
        /\ \A n \in 1..Len(line) - 1 : rest[n] = IF n < i THEN line[n] ELSE line[n + 1]
    BY <1>1, RemoveAtKeeps
  <2> HIDE DEF rest
  <2>3. \A n \in 1..Len(rest) :
          \E m \in 1..Len(line) : m # i /\ rest[n] = line[m] /\ m = IF n < i THEN n ELSE n + 1
    BY <1>1, <2>2
  <2>4. \A n \in 1..Len(rest) : rest[n] # j /\ \E m \in 1..Len(line) : rest[n] = line[m]
    BY <1>1, <2>1, <2>3
  <2>5. \A n, m \in 1..Len(rest) : rest[n] = rest[m] => n = m
    BY <1>1, <2>3
  <2> QED BY <2>1, <2>2, <2>4, <2>5 DEF rest, Stands
<1> QED BY <1>2, <1>3

\* A row that was not in line may join it anywhere.
LEMMA JoiningKeeps ==
  ASSUME Stands(line), NEW j \in Jobs, ~Due(j), NEW joined,
         \/ joined = Append(line, j)
         \/ \E i \in 1..Len(line) + 1 : joined = InsertAt(line, i, j)
  PROVE  /\ Stands(joined)
         /\ \A n \in 1..Len(joined) :
              joined[n] = j \/ \E m \in 1..Len(line) : joined[n] = line[m]
<1>1. /\ line \in Seq(Jobs) /\ DOMAIN line = 1..Len(line)
      /\ \A i, n \in 1..Len(line) : line[i] = line[n] => i = n
      /\ \A i \in 1..Len(line) : line[i] # j
  BY DEF Stands, Due
<1>2. PICK i \in 1..Len(line) + 1 :
        /\ joined \in Seq(Jobs) /\ Len(joined) = Len(line) + 1
        /\ \A n \in 1..Len(line) + 1 :
             joined[n] = IF n < i THEN line[n] ELSE IF n = i THEN j ELSE line[n - 1]
  <2>1. CASE joined = Append(line, j)
    <3>1. /\ joined \in Seq(Jobs) /\ Len(joined) = Len(line) + 1
          /\ \A n \in 1..Len(line) : joined[n] = line[n]
          /\ joined[Len(line) + 1] = j
      BY <1>1, <2>1, AppendProperties
    <3> WITNESS Len(line) + 1 \in 1..Len(line) + 1
    <3> QED BY <3>1
  <2>2. CASE \E i \in 1..Len(line) + 1 : joined = InsertAt(line, i, j)
    <3>1. PICK i \in 1..Len(line) + 1 : joined = InsertAt(line, i, j)
      BY <2>2
    <3>2. line \in Seq(Jobs)
      BY <1>1
    <3>3. /\ InsertAt(line, i, j) \in Seq(Jobs)
          /\ Len(InsertAt(line, i, j)) = Len(line) + 1
          /\ \A n \in 1..Len(line) + 1 :
               InsertAt(line, i, j)[n] =
                 IF n < i THEN line[n] ELSE IF n = i THEN j ELSE line[n - 1]
      BY <3>2, InsertAtKeeps
    <3> WITNESS i \in 1..Len(line) + 1
    <3> QED BY <3>1, <3>3
  <2> QED BY <2>1, <2>2
<1>3. \A n \in 1..Len(joined) :
        \/ n = i /\ joined[n] = j
        \/ \E m \in 1..Len(line) :
             n # i /\ joined[n] = line[m] /\ n = IF m < i THEN m ELSE m + 1
  <2> SUFFICES ASSUME NEW n \in 1..Len(joined), n # i
               PROVE  \E m \in 1..Len(line) : joined[n] = line[m] /\ n = IF m < i THEN m ELSE m + 1
    BY <1>2
  <2>1. CASE n < i
    <3>1. n \in 1..Len(line) /\ joined[n] = line[n]
      BY <1>1, <1>2, <2>1
    <3> QED BY <2>1, <3>1
  <2>2. CASE n > i
    <3>1. n - 1 \in 1..Len(line) /\ joined[n] = line[n - 1]
      BY <1>1, <1>2, <2>2
    <3> QED BY <2>2, <3>1
  <2> QED BY <1>1, <1>2, <2>1, <2>2
<1>4. \A n, m \in 1..Len(joined) : joined[n] = joined[m] => n = m
  BY <1>1, <1>3
<1> QED BY <1>2, <1>3, <1>4 DEF Stands

-----------------------------------------------------------------------------
(* The rows, their counts and the line.                                    *)

\* A row that is in line waits or runs.
LEMMA DueWaits ==
  ASSUME LineSound, NEW j \in Jobs
  PROVE  Due(j) => status[j] \in {"queued", "running"}
BY DEF LineSound, Stands, Due

\* What the lifecycle and the administrator do.
LEMMA QueueStepSound ==
  ASSUME Sound, NEW j \in Jobs,
         Enqueue(j) \/ CancelQueued(j) \/ RearmQueued(j) \/ Requeue(j) \/ ComesDue(j)
  PROVE  Sound'
<1>1. /\ status \in [Jobs -> Statuses] /\ attempts \in [Jobs -> 0..MaxTries]
      /\ Stands(line) /\ 0 \in 0..MaxTries /\ 0 < MaxTries /\ MaxRearms \in Nat
      /\ overruns \in 0..MaxOverruns
  BY QueueAssumption DEF Sound, RowsTyped, LineSound, QueueAssumption
<1>2. RowsTyped'
  BY <1>1 DEF Sound, RowsTyped, Enqueue, CancelQueued, RearmQueued, Requeue, ComesDue, Statuses
<1>3. GivesUpAtCeiling'
  BY <1>1 DEF Sound, GivesUpAtCeiling, Enqueue, CancelQueued, RearmQueued, Requeue, ComesDue
<1>4. (rearms \in 0..MaxRearms /\ crashes \in 0..MaxCrashes /\ overruns \in 0..MaxOverruns)'
  BY <1>1 DEF Sound, Enqueue, CancelQueued, RearmQueued, Requeue, ComesDue, counters
<1>5. LineSound'
  <2>1. CASE Enqueue(j) \/ Requeue(j)
    <3>1. ~Due(j) /\ status'[j] = "queued" /\ \A k \in Jobs \ {j} : status'[k] = status[k]
      BY <1>1, <2>1, DueWaits DEF Sound, Enqueue, Requeue
    <3>2. \/ line' = line
          \/ line' = Append(line, j)
          \/ \E i \in 1..Len(line) + 1 : line' = InsertAt(line, i, j)
      BY <2>1 DEF Enqueue, Requeue
    <3>3. Stands(line') /\ \A n \in 1..Len(line') : line'[n] = j \/ \E m \in 1..Len(line) : line'[n] = line[m]
      BY <1>1, <3>1, <3>2, JoiningKeeps
    <3>4. \A m \in 1..Len(line) : line[m] \in Jobs
      BY <1>1 DEF Stands
    <3>5. \A m \in 1..Len(line) : status[line[m]] \in {"queued", "running"}
      BY DEF Sound, LineSound
    <3>6. \A n \in 1..Len(line') : status'[line'[n]] \in {"queued", "running"}
      BY <3>1, <3>3, <3>4, <3>5
    <3> QED BY <3>3, <3>6 DEF LineSound
  <2>2. CASE CancelQueued(j) \/ RearmQueued(j)
    <3>1. line' = Without(j) /\ \A k \in Jobs \ {j} : status'[k] = status[k]
      BY <1>1, <2>2 DEF CancelQueued, RearmQueued
    <3>2. Stands(line') /\ \A n \in 1..Len(line') :
                             line'[n] # j /\ \E i \in 1..Len(line) : line'[n] = line[i]
      BY <1>1, <3>1, WithoutKeeps
    <3> QED BY <3>1, <3>2 DEF Sound, LineSound, Stands
  <2>3. CASE ComesDue(j)
    <3>1. Stands(line') /\ \A n \in 1..Len(line') : line'[n] = j \/ \E m \in 1..Len(line) : line'[n] = line[m]
      <4>1. /\ ~Due(j)
            /\ \/ line' = Append(line, j)
               \/ \E i \in 1..Len(line) + 1 : line' = InsertAt(line, i, j)
        BY <2>3 DEF ComesDue
      <4> QED BY <1>1, <4>1, JoiningKeeps
    <3> QED BY <2>3, <3>1 DEF ComesDue, Sound, LineSound
  <2> QED BY <2>1, <2>2, <2>3
<1> QED BY <1>2, <1>3, <1>4, <1>5 DEF Sound

LEMMA ClaimSound ==
  ASSUME Sound, NEW r \in Runners, Claim(r)
  PROVE  Sound'
<1>1. PICK S \in SUBSET Jobs :
        /\ \A j \in S : status[j] \in {"queued", "running"} /\ MayTake(r, j)
        /\ Taken(r, S)
        /\ \E slow \in Overrun : S \cap AtWork \subseteq slow
  BY ClaimTakes
<1> USE <1>1 DEF Taken
<1>2. \A j \in S : attempts[j] \in 0..MaxTries - 1
  BY QueueAssumption DEF Sound, RowsTyped, GivesUpAtCeiling, QueueAssumption
<1>3. [j \in S |-> attempts[j]] \in Read
  BY <1>2, PartialIsRead
<1>4. RowsTyped'
  BY <1>3 DEF Sound, RowsTyped, Statuses
<1>5. GivesUpAtCeiling'
  BY <1>2, QueueAssumption DEF Sound, RowsTyped, GivesUpAtCeiling, QueueAssumption
<1>6. overruns' \in 0..MaxOverruns
  BY OverrunsBounded DEF Sound
<1>7. LineSound'
  BY DEF Sound, LineSound, Stands
<1> QED BY <1>4, <1>5, <1>6, <1>7 DEF Sound

\* Every answer of runOne is a write that counts as it should.
LEMMA RunOneWrites ==
  ASSUME Sound, NEW r \in Runners, NEW j \in Jobs, RunOne(r, j)
  PROVE  \E result \in Statuses \ {"running"}, tries \in 0..MaxTries :
           /\ Write(r, j, result, tries)
           /\ result = "failed" => tries = MaxTries
           /\ result = "queued" => tries < MaxTries
<1>1. j \in Claimed(r)
  BY DEF RunOne, MarkDone, MarkHeld, RearmRunning, MarkFailed, Write
<1>2. batch[r][j] \in 0..MaxTries - 1 /\ attempts[j] \in 0..MaxTries
  BY <1>1, ReadIsPartial DEF Sound, RowsTyped, Claimed
<1>3. /\ Tried(r, j) \in 0..MaxTries
      /\ Exhausted(r, j) => Tried(r, j) = MaxTries
      /\ ~Exhausted(r, j) => Tried(r, j) < MaxTries
  BY <1>2, QueueAssumption DEF Tried, Exhausted, QueueAssumption
<1>4. CASE MarkDone(r, j) \/ MarkHeld(r, j)
  BY <1>2, <1>4 DEF MarkDone, MarkHeld, Statuses
<1>5. CASE RearmRunning(r, j) \/ MarkFailed(r, j)
  BY <1>3, <1>5 DEF RearmRunning, MarkFailed, Statuses
<1> QED BY <1>4, <1>5 DEF RunOne

LEMMA RunOneSound ==
  ASSUME Sound, NEW r \in Runners, NEW j \in Jobs, RunOne(r, j)
  PROVE  Sound'
<1>1. PICK result \in Statuses \ {"running"}, tries \in 0..MaxTries :
        /\ Write(r, j, result, tries)
        /\ result = "failed" => tries = MaxTries
        /\ result = "queued" => tries < MaxTries
  BY RunOneWrites
<1>2. /\ status' = [status EXCEPT ![j] = result] /\ attempts' = [attempts EXCEPT ![j] = tries]
      /\ line' = Without(j) /\ batch' = [batch EXCEPT ![r] = Answered(r, j)]
      /\ UNCHANGED <<rearms, crashes, overruns>>
  BY <1>1 DEF Write, counters
<1>3. Answered(r, j) \in Read
  <2>1. Claimed(r) \subseteq Jobs /\ \A k \in Claimed(r) : batch[r][k] \in 0..MaxTries - 1
    BY ReadIsPartial DEF Sound, RowsTyped, Claimed
  <2>2. Answered(r, j) \in [Claimed(r) \ {j} -> 0..MaxTries - 1]
    BY <2>1 DEF Answered
  <2> QED BY <2>1, <2>2, PartialIsRead
<1>4. RowsTyped'
  BY <1>2, <1>3 DEF Sound, RowsTyped
<1>5. GivesUpAtCeiling'
  BY <1>1, <1>2 DEF Sound, RowsTyped, GivesUpAtCeiling
<1>6. LineSound'
  <2>1. Stands(line') /\ \A n \in 1..Len(line') :
                           line'[n] # j /\ \E i \in 1..Len(line) : line'[n] = line[i]
    BY <1>2, WithoutKeeps DEF Sound, LineSound
  <2>2. \A k \in Jobs : k # j => status'[k] = status[k]
    BY <1>2 DEF Sound, RowsTyped
  <2>3. \A i \in 1..Len(line) : line[i] \in Jobs /\ status[line[i]] \in {"queued", "running"}
    BY DEF Sound, LineSound, Stands
  <2>4. \A n \in 1..Len(line') : status'[line'[n]] \in {"queued", "running"}
    BY <2>1, <2>2, <2>3
  <2> QED BY <2>1, <2>4 DEF LineSound
<1> QED BY <1>2, <1>4, <1>5, <1>6 DEF Sound

LEMMA DeathSound ==
  ASSUME Sound, NEW r \in Runners, RunnerDies(r)
  PROVE  Sound'
<1>1. Idle \in Read
  <2>1. Idle \in [{} -> 0..MaxTries - 1]
    BY DEF Idle
  <2> QED BY <2>1, PartialIsRead
<1>2. RowsTyped'
  BY <1>1 DEF RunnerDies, Sound, RowsTyped
<1>3. (rearms \in 0..MaxRearms /\ crashes \in 0..MaxCrashes /\ overruns \in 0..MaxOverruns)'
  BY QueueAssumption DEF RunnerDies, Sound, QueueAssumption
<1> QED BY <1>2, <1>3 DEF RunnerDies, Sound, GivesUpAtCeiling, LineSound

LEMMA SoundAlways == Spec => []Sound
<1>1. Init => Sound
  <2> SUFFICES ASSUME Init PROVE Sound
    OBVIOUS
  <2>1. Idle \in Read
    <3>1. Idle \in [{} -> 0..MaxTries - 1]
      BY DEF Idle
    <3> QED BY <3>1, PartialIsRead
  <2>2. RowsTyped
    BY <2>1, QueueAssumption DEF Init, RowsTyped, Statuses, QueueAssumption
  <2>3. LineSound
    BY DEF Init, LineSound, Stands
  <2> QED BY <2>2, <2>3, QueueAssumption DEF Init, Sound, GivesUpAtCeiling, QueueAssumption
<1>2. Sound /\ [Next]_vars => Sound'
  <2> SUFFICES ASSUME Sound, [Next]_vars PROVE Sound'
    OBVIOUS
  <2>1. CASE UNCHANGED vars
    BY <2>1 DEF vars, counters, Sound, RowsTyped, GivesUpAtCeiling, LineSound
  <2> QED BY <2>1, QueueStepSound, ClaimSound, RunOneSound, DeathSound DEF Next
<1> QED BY <1>1, <1>2, PTL DEF Spec

-----------------------------------------------------------------------------
(* The claim, until another meets it.                                      *)

\* The claims that meet on a row once r has taken S are r's, and those of the
\* runners it was taken from.
LEMMA MeetingIs ==
  ASSUME NEW r \in Runners, NEW S, NEW q \in Runners, NEW j
  PROVE  <<q, j>> \in Meeting(r, S) <=>
           j \in S /\ j \in InHand /\ (q = r \/ j \in Claimed(q))
BY DEF Meeting

LEMMA ContestedStep ==
  ASSUME Sound, ContestedAtWork, [Next]_vars
  PROVE  ContestedAtWork'
<1>1. batch \in [Runners -> Read]
  BY DEF Sound, RowsTyped
<1>2. CASE UNCHANGED <<batch, contested>>
  BY <1>2 DEF ContestedAtWork, Claimed
<1>3. ASSUME NEW r \in Runners, Claim(r)
      PROVE  ContestedAtWork'
  <2>1. PICK S \in SUBSET Jobs : Taken(r, S)
    BY <1>3, ClaimTakes
  <2>2. /\ contested' = contested \cup Meeting(r, S)
        /\ Claimed(r) = {} /\ Claimed(r)' = S
        /\ \A other \in Runners \ {r} : Claimed(other)' = Claimed(other)
    BY <1>1, <1>3, <2>1 DEF Taken, Claim, Claimed
  <2>3. \A c \in Meeting(r, S) : c \in Runners \X Jobs /\ c[2] \in S /\ (c[1] = r \/ c[2] \in Claimed(c[1]))
    BY DEF Meeting
  <2> QED BY <2>2, <2>3 DEF ContestedAtWork
<1>4. ASSUME NEW r \in Runners, NEW j \in Jobs, RunOne(r, j)
      PROVE  ContestedAtWork'
  <2>1. batch' = [batch EXCEPT ![r] = Answered(r, j)] /\ contested' = contested \ {<<r, j>>}
    BY <1>4 DEF RunOne, MarkDone, MarkHeld, RearmRunning, MarkFailed, Write
  <2>2. /\ Claimed(r)' = Claimed(r) \ {j}
        /\ \A other \in Runners \ {r} : Claimed(other)' = Claimed(other)
    BY <1>1, <2>1 DEF Claimed, Answered
  <2> QED BY <2>1, <2>2 DEF ContestedAtWork
<1>5. ASSUME NEW r \in Runners, RunnerDies(r)
      PROVE  ContestedAtWork'
  BY <1>1, <1>5 DEF RunnerDies, ContestedAtWork, Claimed
<1>6. ASSUME NEW j \in Jobs,
             Enqueue(j) \/ CancelQueued(j) \/ RearmQueued(j) \/ Requeue(j) \/ ComesDue(j)
      PROVE  UNCHANGED <<batch, contested>>
  BY <1>6 DEF Enqueue, CancelQueued, RearmQueued, Requeue, ComesDue
<1> QED BY <1>2, <1>3, <1>4, <1>5, <1>6 DEF Next, vars

LEMMA ExclusiveStep ==
  ASSUME Sound, OneRunnerPerRow, [Next]_vars
  PROVE  OneRunnerPerRow'
<1>1. /\ status \in [Jobs -> Statuses] /\ attempts \in [Jobs -> 0..MaxTries]
      /\ batch \in [Runners -> Read]
      /\ \A r \in Runners : Claimed(r) \subseteq Jobs
  BY ReadIsPartial DEF Sound, RowsTyped, Claimed
<1>2. CASE UNCHANGED vars
  BY <1>2 DEF vars, OneRunnerPerRow, Claimed
\* What the lifecycle and the administrator do reaches no running row.
<1>3. ASSUME NEW j \in Jobs,
             Enqueue(j) \/ CancelQueued(j) \/ RearmQueued(j) \/ Requeue(j) \/ ComesDue(j)
      PROVE  OneRunnerPerRow'
  <2>1. CASE status[j] = "running"
    BY <1>3, <2>1 DEF Enqueue, CancelQueued, RearmQueued, Requeue, ComesDue, OneRunnerPerRow, Claimed
  <2>2. CASE status[j] # "running"
    <3>1. \A r \in Runners : j \in Claimed(r) => <<r, j>> \in contested
      BY <2>2 DEF OneRunnerPerRow
    <3>2. /\ \A k \in Jobs \ {j} : status'[k] = status[k] /\ attempts'[k] = attempts[k]
          /\ batch' = batch /\ contested' = contested
      BY <1>1, <1>3 DEF Enqueue, CancelQueued, RearmQueued, Requeue, ComesDue
    <3> QED BY <1>1, <3>1, <3>2 DEF OneRunnerPerRow, Claimed
  <2> QED BY <2>1, <2>2
\* A claim that takes a row another runner has is contested, and so is that
\* runner's.
<1>4. ASSUME NEW r \in Runners, Claim(r)
      PROVE  OneRunnerPerRow'
  <2>1. PICK S \in SUBSET Jobs : Taken(r, S)
    BY <1>4, ClaimTakes
  <2>2. /\ Claimed(r)' = S
        /\ \A j \in S : batch'[r][j] = attempts[j] /\ status'[j] = "running"
        /\ \A j \in Jobs \ S : status'[j] = status[j]
        /\ \A other \in Runners \ {r} : batch'[other] = batch[other]
        /\ attempts' = attempts
    BY <1>1, <2>1 DEF Claimed, Taken
  <2>3. \A j \in S, other \in Runners \ {r} :
          j \in Claimed(other) => <<r, j>> \in contested' /\ <<other, j>> \in contested'
    <3>1. \A j \in S, other \in Runners : j \in Claimed(other) => j \in InHand
      BY DEF InHand
    <3> QED BY <2>1, <3>1, MeetingIs DEF Taken
  <2>4. contested \subseteq contested'
    BY <2>1 DEF Taken
  <2> QED BY <1>1, <2>2, <2>3, <2>4 DEF OneRunnerPerRow, Claimed
\* An answer writes a row no uncontested claim of another runner is on.
<1>5. ASSUME NEW r \in Runners, NEW j \in Jobs, RunOne(r, j)
      PROVE  OneRunnerPerRow'
  <2>1. /\ j \in Claimed(r)
        /\ \A k \in Jobs \ {j} : status'[k] = status[k] /\ attempts'[k] = attempts[k]
        /\ batch' = [batch EXCEPT ![r] = Answered(r, j)]
        /\ contested' = contested \ {<<r, j>>}
    BY <1>1, <1>5 DEF RunOne, MarkDone, MarkHeld, RearmRunning, MarkFailed, Write
  <2>2. /\ Claimed(r)' = Claimed(r) \ {j}
        /\ \A k \in Claimed(r) \ {j} : batch'[r][k] = batch[r][k]
        /\ \A other \in Runners \ {r} : batch'[other] = batch[other]
    BY <1>1, <2>1 DEF Claimed, Answered
  <2>3. \A other \in Runners \ {r} : j \in Claimed(other) => <<other, j>> \in contested
    BY <2>1 DEF OneRunnerPerRow
  <2>4. \A q \in Runners : \A k \in Claimed(q)' : <<q, k>> \notin contested' => k # j /\ <<q, k>> \notin contested
    BY <2>1, <2>2, <2>3 DEF Claimed
  <2>5. \A q \in Runners : \A k \in Claimed(q)' : k \in Claimed(q) /\ batch'[q][k] = batch[q][k]
    BY <2>2 DEF Claimed
  <2>6. \A q \in Runners : Claimed(q)' \subseteq Claimed(q)
    BY <2>5
  <2> QED BY <1>1, <2>1, <2>4, <2>5, <2>6 DEF OneRunnerPerRow
<1>6. ASSUME NEW r \in Runners, RunnerDies(r)
      PROVE  OneRunnerPerRow'
  <2>1. /\ Claimed(r)' = {}
        /\ \A other \in Runners \ {r} : batch'[other] = batch[other]
        /\ contested' = {c \in contested : c[1] # r}
        /\ UNCHANGED <<status, attempts>>
    BY <1>1, <1>6 DEF RunnerDies, Claimed, Idle
  <2>2. \A q \in Runners \ {r} : \A k \in Claimed(q) : <<q, k>> \in contested => <<q, k>> \in contested'
    BY <2>1
  <2> QED BY <2>1, <2>2 DEF OneRunnerPerRow, Claimed
<1> QED BY <1>2, <1>3, <1>4, <1>5, <1>6 DEF Next

-----------------------------------------------------------------------------

\* However many runners there are, however they interleave and however long
\* they are at it, a row whose claim no other has met is one runner's
\* (jobs/repo.ts, claimDue).
THEOREM ClaimIsExclusive == Spec => []OneRunnerPerRow
<1>1. Init => OneRunnerPerRow
  BY DEF Init, OneRunnerPerRow, Claimed, Idle
<1>2. Sound /\ OneRunnerPerRow /\ [Next]_vars => OneRunnerPerRow'
  BY ExclusiveStep
<1> QED BY <1>1, <1>2, SoundAlways, PTL DEF Spec

\* The ceiling on attempts holds for rows that run, and for nothing less is a
\* row given up (jobs/repo.ts, markFailed and
\* rearmRunningJob).
THEOREM CeilingHolds == Spec => []GivesUpAtCeiling
<1>1. Sound => GivesUpAtCeiling
  BY DEF Sound
<1> QED BY <1>1, SoundAlways, PTL

\* The unconditional writes of a runner land on a row that is done only where
\* another runner took that row from it (jobs/repo.ts, requeue: "a job that
\* finished is finished"); nothing else moves such a row at all.
THEOREM FinishedForGood == Spec => DoneStaysDone
<1>1. Sound /\ OneRunnerPerRow /\ [Next]_vars =>
        [\A j \in Jobs : status[j] = "done" /\ status'[j] # "done" =>
           \E r \in Runners : <<r, j>> \in contested /\ RunOne(r, j)]_vars
  <2> SUFFICES ASSUME Sound, OneRunnerPerRow, Next,
                      NEW j \in Jobs, status[j] = "done", status'[j] # "done"
               PROVE  \E r \in Runners : <<r, j>> \in contested /\ RunOne(r, j)
    OBVIOUS
  <2>1. \A r \in Runners : j \in Claimed(r) => <<r, j>> \in contested
    BY DEF OneRunnerPerRow
  <2>2. ASSUME NEW k \in Jobs,
               Enqueue(k) \/ CancelQueued(k) \/ RearmQueued(k) \/ Requeue(k) \/ ComesDue(k)
        PROVE  FALSE
    BY <2>2 DEF Enqueue, CancelQueued, RearmQueued, Requeue, ComesDue, Sound, RowsTyped
  <2>3. ASSUME NEW r \in Runners, Claim(r)
        PROVE  FALSE
    <3>1. PICK S \in SUBSET Jobs :
            /\ \A k \in S : status[k] \in {"queued", "running"} /\ MayTake(r, k)
            /\ Taken(r, S)
      BY <2>3, ClaimTakes
    <3> QED BY <3>1 DEF Taken
  <2>4. ASSUME NEW r \in Runners, NEW k \in Jobs, RunOne(r, k)
        PROVE  \E q \in Runners : <<q, j>> \in contested /\ RunOne(q, j)
    <3>1. k \in Claimed(r) /\ (k # j => status'[j] = status[j])
      BY <2>4 DEF RunOne, MarkDone, MarkHeld, RearmRunning, MarkFailed, Write, Sound, RowsTyped
    <3> QED BY <2>1, <2>4, <3>1
  <2>5. ASSUME NEW r \in Runners, RunnerDies(r)
        PROVE  FALSE
    BY <2>5 DEF RunnerDies
  <2> QED BY <2>2, <2>3, <2>4, <2>5 DEF Next
<1> QED BY <1>1, SoundAlways, ClaimIsExclusive, PTL DEF Spec, DoneStaysDone

-----------------------------------------------------------------------------

\* What of the type the argument about the moved clock needs.
DemoInv == DOMAIN batch = Runners /\ ShiftedClockTakesDemoOnly

\* A moved clock never reaches a row, or the order of a row, that is a real
\* customer's (jobs/repo.ts, demoFilter).
THEOREM DemoOnly == Spec => []ShiftedClockTakesDemoOnly
<1>1. Init => DemoInv
  BY DEF Init, DemoInv, ShiftedClockTakesDemoOnly, Claimed, Idle, Runners
<1>2. DemoInv /\ [Next]_vars => DemoInv'
  <2> SUFFICES ASSUME DemoInv, [Next]_vars PROVE DemoInv'
    OBVIOUS
  <2> USE DEF DemoInv, ShiftedClockTakesDemoOnly, Runners
  <2>1. CASE batch' = batch
    BY <2>1 DEF Claimed
  <2>2. ASSUME NEW r \in Runners, Claim(r)
        PROVE  DemoInv'
    <3>1. PICK S \in SUBSET Jobs :
            /\ \A k \in S : status[k] \in {"queued", "running"} /\ MayTake(r, k)
            /\ batch' = [batch EXCEPT ![r] = [k \in S |-> attempts[k]]]
      BY <2>2, ClaimTakes DEF Taken
    <3>2. r \in Buttons => S \subseteq DemoJobs \cap DemoOrders
      BY <3>1 DEF MayTake
    <3> QED BY <3>1, <3>2 DEF Claimed
  <2>3. ASSUME NEW r \in Runners, NEW k \in Jobs, RunOne(r, k)
        PROVE  DemoInv'
    <3>1. batch' = [batch EXCEPT ![r] = Answered(r, k)]
      BY <2>3 DEF RunOne, MarkDone, MarkHeld, RearmRunning, MarkFailed, Write
    <3>2. DOMAIN Answered(r, k) \subseteq Claimed(r)
      BY DEF Answered
    <3> QED BY <3>1, <3>2 DEF Claimed
  <2>4. ASSUME NEW r \in Runners, RunnerDies(r)
        PROVE  DemoInv'
    BY <2>4 DEF RunnerDies, Claimed, Idle
  <2>5. ASSUME NEW j \in Jobs,
               Enqueue(j) \/ CancelQueued(j) \/ RearmQueued(j) \/ Requeue(j) \/ ComesDue(j)
        PROVE  batch' = batch
    BY <2>5 DEF Enqueue, CancelQueued, RearmQueued, Requeue, ComesDue
  <2> QED BY <2>1, <2>2, <2>3, <2>4, <2>5 DEF Next, vars
<1> QED BY <1>1, <1>2, PTL DEF Spec, DemoInv

\* The rows, their counts and the line hold what their code can write, no row
\* stands in line twice, no row runs past the ceiling, and none that is a real
\* customer's runs on a moved clock, whichever leases run out.
THEOREM QueueIsConsistent == Spec => []Consistent
<1>1. Sound /\ ContestedAtWork => TypeOK
  <2> SUFFICES ASSUME Sound, ContestedAtWork PROVE TypeOK
    OBVIOUS
  <2>1. DOMAIN line = 1..Len(line) /\ \A i \in 1..Len(line) : line[i] \in Jobs
    BY DEF Sound, LineSound, Stands
  <2>2. \A i, n \in DOMAIN line : line[i] = line[n] => i = n
    BY <2>1 DEF Sound, LineSound, Stands
  <2> QED BY <2>1, <2>2 DEF Sound, RowsTyped, TypeOK, ContestedAtWork
<1>2. TypeOK /\ GivesUpAtCeiling /\ ShiftedClockTakesDemoOnly => Consistent
  BY DEF Consistent
<1>3. Init => ContestedAtWork
  BY DEF Init, ContestedAtWork
<1>4. Sound /\ ContestedAtWork /\ [Next]_vars => ContestedAtWork'
  BY ContestedStep
<1> QED BY <1>1, <1>2, <1>3, <1>4, SoundAlways, CeilingHolds, DemoOnly, PTL DEF Spec

=============================================================================
