---------------------------- MODULE AdminProofs ----------------------------
(***************************************************************************)
(* What holds of the staff's work in the background: the announcements and *)
(* the sealing, checking and purging of the audit trail.                   *)
(*                                                                         *)
(* Announcements: types, one fan-out at a time, a cancellation that stops  *)
(* the rest, and that SENT means everybody, for every audience, batch,     *)
(* number of attempts, staff handlers and workers, and however often       *)
(* workers die.  A run that does not hold the job's lock was made by a     *)
(* fault (Strays).  Only a run that had decided on a batch before the      *)
(* cancellation may still begin one, and then its next look at the row     *)
(* ends it (Stopped).  Whoever is behind a run's cursor and not in its     *)
(* batch has been answered (Reached).                                      *)
(*                                                                         *)
(* The chain: types, one chain, no link reported as broken, sealed rows    *)
(* that stay, no alarm within the retention, for every number of           *)
(* overlapping runs of the two jobs, any of which may die.  A run that     *)
(* seals holds the end of the chain or has lost the race (Sealing), a      *)
(* verification has read what is there or what a purge took (Verifying),   *)
(* and a purge cuts between two segments, never the last one off           *)
(* (Purging); that needs the trail to be sealed up to a recent moment      *)
(* (Clock) and the segments to lie end to end (Chain).                     *)
(***************************************************************************)
EXTENDS Announcements, AuditChain, SequenceTheorems, FiniteSetTheorems, WellFoundedInduction, TLAPS

Job == [at : JobStates, made : 0..ATTEMPTS, stalls : 0..2, lock : SUBSET Workers]
CallRecord == [at : CallSteps, op : Ops, audience : SUBSET Members]
RunRecord == [at : RunSteps, to : SUBSET Members, cursor : Nat, batch : SUBSET Members, last : BOOLEAN]

(* A job that is still to be worked on has an attempt left and has stalled *)
(* once at most.                                                           *)
Live(j) == j.at # "failed" => j.made < ATTEMPTS /\ j.stalls <= 1

(* The runs that do not hold the lock are no more than the faults.         *)
Strays == {w \in Running : ~Mine(w)}
FewStrays == IsFiniteSet(Strays) /\ Cardinality(Strays) <= faults

(* After a cancellation a run may begin the batch it had decided on.       *)
Stopped ==
  state = "CANCELLED" =>
    \A w \in Workers : late[w] = 0 \/ (late[w] = 1 /\ run[w].at # "create")

(* Whom a run has passed it has answered.                                  *)
Looping == {"check", "create", "mail", "mark", "finish"}
Passed(w) == \A m \in run[w].to : m <= run[w].cursor => m \in run[w].batch \/ Answered(m)
Reached(w) ==
  /\ run[w].at \in {"read", "begin"} => run[w].batch = {} /\ run[w].cursor = 0
  /\ run[w].at \in Looping => Passed(w)
  /\ run[w].at = "check" => run[w].batch = {}
  /\ run[w].at = "mark" /\ NextUp(w) \in Members => got[NextUp(w)] > 0
  /\ run[w].at = "finish" => \A m \in run[w].to : Answered(m)

IInv == TypeOK /\ Live(job) /\ FewStrays /\ Stopped /\ \A w \in Workers : Reached(w)

-----------------------------------------------------------------------------
(* A finite set of numbers that is not empty has a greatest element.       *)
LEMMA Greatest ==
  ASSUME NEW S, IsFiniteSet(S), S # {}, S \subseteq Nat
  PROVE  \E m \in S : \A n \in S : n <= m
<1> DEFINE Below(m) == {n \in S : n < m}
           Left(m) == Cardinality(S) - Cardinality(Below(m))
           T == {Left(m) : m \in S}
<1>1. \A m : IsFiniteSet(Below(m)) /\ Cardinality(Below(m)) \in Nat /\ Cardinality(Below(m)) <= Cardinality(S)
  BY FS_Subset, FS_CardinalityType
<1>2. \A m \in S : Left(m) \in Nat
  BY <1>1, FS_CardinalityType
<1>3. T \subseteq Nat /\ T # {}
  BY <1>2
<1>4. PICK t \in T : \A u \in T : ~(<<u, t>> \in OpToRel(<, Nat))
  BY <1>3, NatLessThanWellFounded, WFMin
<1>5. PICK m \in S : t = Left(m)
  OBVIOUS
<1>6. ASSUME NEW n \in S, m < n PROVE FALSE
  <2>1. Below(m) \cup {m} \subseteq Below(n) /\ m \notin Below(m)
    <3>1. m \in Nat /\ n \in Nat /\ \A k \in Below(m) : k \in Nat /\ k \in S /\ k < m
      OBVIOUS
    <3>2. \A k \in Below(m) : k < n
      BY <1>6, <3>1
    <3>3. Below(m) \subseteq Below(n)
      BY <3>1, <3>2
    <3>4. m \in Below(n) /\ m \notin Below(m)
      BY <1>6, <3>1
    <3> HIDE DEF Below
    <3> QED
      BY <3>3, <3>4
  <2>2. Cardinality(Below(m)) + 1 <= Cardinality(Below(n))
    <3>1. Cardinality(Below(m) \cup {m}) = Cardinality(Below(m)) + 1
      <4> HIDE DEF Below
      <4> QED
        BY <1>1, <2>1, FS_AddElement
    <3>2. Cardinality(Below(m) \cup {m}) <= Cardinality(Below(n))
      BY <1>1, <2>1, FS_Subset
    <3> QED
      BY <3>1, <3>2
  <2>3. Left(n) < Left(m) /\ Left(n) \in Nat /\ Left(m) \in Nat
    <3> HIDE DEF Below
    <3> QED
      BY <1>1, <1>2, <1>6, <2>2, FS_CardinalityType
  <2>4. Left(n) \in T
    OBVIOUS
  <2> HIDE DEF Left, T
  <2> QED
    BY <1>3, <1>4, <1>5, <2>3, <2>4 DEF OpToRel
<1> QED
  BY <1>6

(* One more element makes a finite set larger by one at most.              *)
LEMMA OneMore ==
  ASSUME NEW S, IsFiniteSet(S), NEW x
  PROVE  IsFiniteSet(S \cup {x}) /\ Cardinality(S \cup {x}) <= Cardinality(S) + 1
<1>1. Cardinality(S) \in Nat
  BY FS_CardinalityType
<1>2. IsFiniteSet(S \cup {x})
  BY FS_AddElement
<1>3. Cardinality(S \cup {x}) = IF x \in S THEN Cardinality(S) ELSE Cardinality(S) + 1
  BY FS_AddElement
<1> QED
  BY <1>1, <1>2, <1>3

(* The next batch: it reaches as far as the cursor that is put behind it,  *)
(* and leaves out nobody before that.                                      *)
LEMMA BatchReaches ==
  ASSUME TypeOK, NEW w \in Workers, Ahead(w) # {}
  PROVE  /\ Batch(w) \subseteq Ahead(w) /\ Batch(w) # {}
         /\ Cursor(w) \in Batch(w) /\ Cursor(w) \in Nat
         /\ \A m \in Ahead(w) : m <= Cursor(w) => m \in Batch(w)
<1>1. IsFiniteSet(Ahead(w)) /\ Ahead(w) \subseteq Members /\ Members \subseteq Nat
  <2>1. Ahead(w) \subseteq Members
    BY DEF Ahead, TypeOK
  <2> QED
    BY <2>1, ConstantsAssumption, FS_Subset
<1>2. Batch(w) \subseteq Ahead(w)
  BY DEF Batch
<1>3. Batch(w) # {}
  <2>1. PICK m \in Ahead(w) : \A n \in Ahead(w) : ~(<<n, m>> \in OpToRel(<, Nat))
    BY <1>1, NatLessThanWellFounded, WFMin
  <2>2. {n \in Ahead(w) : n < m} = {}
    BY <1>1, <2>1 DEF OpToRel
  <2> QED
    BY <2>2, FS_EmptySet, ConstantsAssumption DEF Batch
<1>4. IsFiniteSet(Batch(w)) /\ Batch(w) \subseteq Nat
  BY <1>1, <1>2, FS_Subset
<1>5. Cursor(w) \in Batch(w) /\ \A n \in Batch(w) : n <= Cursor(w)
  BY <1>3, <1>4, Greatest DEF Cursor, Furthest
<1>6. ASSUME NEW m \in Ahead(w), m <= Cursor(w) PROVE m \in Batch(w)
  <2> DEFINE last == Cursor(w)
  <2>1. {n \in Ahead(w) : n < m} \subseteq {n \in Ahead(w) : n < last} /\ last \in Nat
    <3>1. last \in Nat /\ m \in Nat /\ m <= last
      BY <1>1, <1>4, <1>5, <1>6
    <3> HIDE DEF last
    <3>2. \A n \in Ahead(w) : n \in Nat /\ (n < m => n < last)
      BY <1>1, <3>1
    <3> QED
      BY <3>1, <3>2
  <2>2. last \in Ahead(w) /\ Cardinality({n \in Ahead(w) : n < last}) < BATCH
    BY <1>5 DEF Batch
  <2>3. IsFiniteSet({n \in Ahead(w) : n < last})
    BY <1>1, FS_Subset
  <2>4. Cardinality({n \in Ahead(w) : n < m}) <= Cardinality({n \in Ahead(w) : n < last})
    BY <2>1, <2>3, FS_Subset
  <2>5. IsFiniteSet({n \in Ahead(w) : n < m})
    BY <1>1, FS_Subset
  <2>6. Cardinality({n \in Ahead(w) : n < m}) < BATCH
    BY <2>2, <2>3, <2>4, <2>5, FS_CardinalityType, ConstantsAssumption
  <2> QED
    BY <2>6 DEF Batch
<1> QED
  BY <1>2, <1>3, <1>4, <1>5, <1>6

-----------------------------------------------------------------------------
(* The queue keeps a job a job.                                            *)
LEMMA NoJobLives == NoJob \in Job /\ Live(NoJob) /\ NoJob.lock = {} /\ NoJob.at = "none"
BY ConstantsAssumption DEF NoJob, Job, Live, JobStates

(* Adding a job keeps one that is there, or makes a new one.               *)
LEMMA AddLives ==
  ASSUME job \in Job, Live(job), NEW at \in {"delayed", "waiting"}, Add(at)
  PROVE  job' \in Job /\ Live(job)'
<1>1. [NoJob EXCEPT !.at = at] \in Job /\ Live([NoJob EXCEPT !.at = at])
  BY NoJobLives DEF Job, Live, JobStates
<1> QED
  BY <1>1 DEF Add, Live

(* And so does leaving it or taking it away.                               *)
LEMMA DropLives ==
  ASSUME job \in Job, Live(job), job' \in {job, NoJob}
  PROVE  job' \in Job /\ Live(job)'
BY NoJobLives DEF Live

(* Back to the queue, or into a worker's hands.                            *)
LEMMA MoveLives ==
  ASSUME job \in Job, Live(job), job.at # "failed",
         NEW at \in {"waiting", "active"}, NEW lock \in SUBSET Workers,
         job' = [job EXCEPT !.at = at, !.lock = lock]
  PROVE  job' \in Job /\ Live(job)'
BY DEF Job, Live, JobStates

(* An attempt failed: the job waits for the next, or has failed.           *)
LEMMA RejectLives ==
  ASSUME job \in Job, Live(job), NEW w \in Workers, Reject(w)
  PROVE  job' \in Job /\ Live(job)'
<1>1. CASE ~Mine(w)
  BY <1>1 DEF Reject, Live
<1>2. CASE Mine(w)
  <2>1. job.made < ATTEMPTS /\ job.stalls <= 1 /\ job.made \in Nat
    BY <1>2, ConstantsAssumption DEF Mine, Live, Job
  <2>2. job.made + 1 \in 0..ATTEMPTS
    BY <2>1, ConstantsAssumption
  <2> DEFINE next == IF AttemptsLeft(job.made + 1) THEN "delayed" ELSE "failed"
  <2>3. next \in JobStates /\ (next # "failed" => job.made + 1 < ATTEMPTS)
    BY DEF JobStates, AttemptsLeft
  <2>4. job' = [job EXCEPT !.made = job.made + 1, !.lock = {}, !.at = next]
    BY <1>2 DEF Reject, Job
  <2> HIDE DEF next
  <2> QED
    BY <2>1, <2>2, <2>3, <2>4 DEF Job, Live
<1> QED
  BY <1>1, <1>2

(* A lock expired: back to the queue, or failed the second time.           *)
LEMMA StalledLives ==
  ASSUME job \in Job, Live(job), job.at = "active", job' = Stalled
  PROVE  job' \in Job /\ Live(job)'
<1>1. job.made < ATTEMPTS /\ job.stalls <= 1 /\ job.stalls \in Nat
  BY DEF Live, Job
<1>2. job.stalls + 1 \in 0..2
  BY <1>1
<1> DEFINE next == IF job.stalls = 0 THEN "waiting" ELSE "failed"
<1>3. next \in JobStates /\ (next # "failed" => job.stalls + 1 <= 1)
  BY DEF JobStates
<1>4. job' = [job EXCEPT !.stalls = job.stalls + 1, !.lock = {}, !.at = next]
  BY DEF Stalled
<1> HIDE DEF next
<1> QED
  BY <1>1, <1>2, <1>3, <1>4 DEF Job, Live
-----------------------------------------------------------------------------
(* A worker that rests, or is replaced by what it does next, stays of the  *)
(* types; nobody else is touched.                                          *)
LEMMA RestingType ==
  \A step \in RunSteps : [Resting EXCEPT !.at = step] \in RunRecord /\ Resting \in RunRecord
BY DEF Resting, RunRecord, RunSteps

(* What the runs are after one of them is replaced,                        *)
LEMMA RunReplaced ==
  ASSUME TypeOK, NEW w \in Workers, NEW after \in RunRecord, run' = [run EXCEPT ![w] = after]
  PROVE  run' \in [Workers -> RunRecord] /\ \A v \in Workers : run'[v] = IF v = w THEN after ELSE run[v]
BY DEF TypeOK, RunRecord

(* goes to another step,                                                   *)
LEMMA RunGoesTo ==
  ASSUME TypeOK, NEW w \in Workers, NEW step \in RunSteps, RunGoTo(w, step)
  PROVE  /\ run' \in [Workers -> RunRecord]
         /\ \A v \in Workers \ {w} : run'[v] = run[v]
         /\ run'[w].at = step /\ run'[w].to = run[w].to
         /\ run'[w].cursor = run[w].cursor /\ run'[w].batch = run[w].batch
BY DEF TypeOK, RunRecord, RunGoTo

(* leaves the loop,                                                        *)
LEMMA RunLeaves ==
  ASSUME TypeOK, NEW w \in Workers, NEW step \in RunSteps, Leave(w, step)
  PROVE  /\ run' \in [Workers -> RunRecord]
         /\ \A v \in Workers \ {w} : run'[v] = run[v]
         /\ run'[w].at = step /\ run'[w].batch = {} /\ run'[w].cursor = 0
<1> DEFINE after == [Resting EXCEPT !.at = step]
<1>1. after \in RunRecord /\ after.at = step /\ after.batch = {} /\ after.cursor = 0
  BY RestingType DEF Resting
<1>2. run' = [run EXCEPT ![w] = after]
  BY DEF Leave
<1> HIDE DEF after
<1> QED
  BY <1>1, <1>2, RunReplaced

(* or passes on to the next member of its batch.                           *)
LEMMA RunPasses ==
  ASSUME TypeOK, NEW w \in Workers, AfterMember(w)
  PROVE  /\ run' \in [Workers -> RunRecord]
         /\ \A v \in Workers \ {w} : run'[v] = run[v]
         /\ run'[w].to = run[w].to /\ run'[w].cursor = run[w].cursor
         /\ run'[w].batch = run[w].batch \ {NextUp(w)}
         /\ run'[w].at = IF run[w].batch \ {NextUp(w)} = {} THEN "check" ELSE "mail"
<1> DEFINE rest == run[w].batch \ {NextUp(w)}
           after == [run[w] EXCEPT !.batch = rest, !.at = IF rest = {} THEN "check" ELSE "mail"]
<1>1. run[w] \in RunRecord
  BY DEF TypeOK, RunRecord, RunSteps
<1>2. /\ after \in RunRecord /\ after.to = run[w].to /\ after.cursor = run[w].cursor
      /\ after.batch = rest /\ after.at = IF rest = {} THEN "check" ELSE "mail"
  BY <1>1 DEF RunRecord, RunSteps
<1>3. run' = [run EXCEPT ![w] = after]
  BY DEF AfterMember
<1> HIDE DEF after
<1> QED
  BY <1>2, <1>3, RunReplaced

(* A staff handler moves on.                                               *)
LEMMA CallGoes ==
  ASSUME TypeOK, NEW c \in Calls, NEW step \in CallSteps, CallGoTo(c, step)
  PROVE  call' \in [Calls -> CallRecord]
BY ConstantsAssumption DEF TypeOK, CallRecord, CallGoTo, Unasked, Ops, CallSteps

-----------------------------------------------------------------------------
(* What each step leaves alone, and what it may write.                     *)
TypeBut == /\ audience' \in SUBSET Members /\ state' \in States
           /\ delivery' \in [Members -> Statuses]
           /\ got' \in [Members -> 0..2] /\ late' \in [Workers -> 0..2]
           /\ faults' \in 0..MaxFaults

(* The rows and the history stay of their types in every step.             *)
LEMMA RowsFit ==
  ASSUME TypeOK, Next
  PROVE  TypeBut
<1> USE DEF TypeOK, row, history
<1>1. ASSUME NEW c \in Calls, NEW op \in Ops, NEW new \in Audiences, Ask(c, op, new) PROVE TypeBut
  BY <1>1 DEF Ask, TypeBut
<1>2. ASSUME NEW c \in Calls, Handle(c) \/ Abandon(c) PROVE TypeBut
  <2>1. call[c].op \in Ops /\ call[c].audience \in SUBSET Members
    OBVIOUS
  <2>2. CASE Write(c)
    <3>1. Written(call[c].op) \in States
      BY <2>1 DEF Written, Ops, States
    <3>2. late' \in [Workers -> 0..2]
      BY <2>2 DEF Write
    <3> QED
      BY <2>1, <2>2, <3>1, <3>2 DEF Write, TypeBut
  <2> QED
    BY <1>2, <2>2 DEF Handle, Unqueue, Enqueue, Abandon, TypeBut
<1>3. ASSUME NEW w \in Workers, Read(w) \/ Check(w) \/ Return(w) \/ Throw(w) PROVE TypeBut
  BY <1>3 DEF Read, Check, Return, Throw, TypeBut
<1>4. ASSUME NEW w \in Workers, Begin(w) \/ Finish(w) \/ Break(w) PROVE TypeBut
  BY <1>4 DEF Begin, Finish, Break, TypeBut, States
<1>5. ASSUME NEW w \in Workers, Create(w) PROVE TypeBut
  <2>1. delivery' \in [Members -> Statuses]
    BY <1>5 DEF Create, Statuses
  <2>2. late' \in [Workers -> 0..2]
    BY <1>5 DEF Create
  <2> QED
    BY <1>5, <2>1, <2>2 DEF Create, TypeBut
<1>6. ASSUME NEW w \in Workers, Mail(w) PROVE TypeBut
  <2>1. got' \in [Members -> 0..2]
    <3> DEFINE n == NextUp(w)
               more == IF got[n] < 2 THEN got[n] + 1 ELSE got[n]
    <3>1. got' = [got EXCEPT ![n] = more]
      BY <1>6 DEF Mail
    <3>2. n \in Members => more \in 0..2
      <4>1. n \in Members => got[n] \in 0..2
        OBVIOUS
      <4> QED
        BY <4>1
    <3> HIDE DEF n, more
    <3> QED
      BY <3>1, <3>2
  <2> QED
    BY <1>6, <2>1 DEF Mail, TypeBut
<1>7. ASSUME NEW w \in Workers, MailNot(w) PROVE TypeBut
  BY <1>7 DEF MailNot, TypeBut, Statuses
<1>8. ASSUME NEW w \in Workers, Mark(w) PROVE TypeBut
  <2>1. PICK status \in {"SENT", "FAILED", delivery[NextUp(w)]} : delivery' = [delivery EXCEPT ![NextUp(w)] = status]
    BY <1>8 DEF Mark
  <2>2. delivery' \in [Members -> Statuses]
    BY <2>1 DEF Statuses
  <2> QED
    BY <1>8, <2>2 DEF Mark, TypeBut
<1>9. ASSUME NEW w \in Workers, Die(w) \/ LoseLock(w) \/ BreakUnsaid(w) PROVE TypeBut
  <2>1. faults' \in 0..MaxFaults
    BY <1>9, ConstantsAssumption DEF Die, LoseLock, BreakUnsaid
  <2> QED
    BY <1>9, <2>1 DEF Die, LoseLock, BreakUnsaid, TypeBut
<1>10. CASE Serve \/ Due \/ Stall
  BY <1>10 DEF Serve, Take, Due, Stall, TypeBut
<1> QED
  BY <1>1, <1>2, <1>3, <1>4, <1>5, <1>6, <1>7, <1>8, <1>9, <1>10 DEF Next, Step

(* So do the handlers, the workers and the job.                            *)
LEMMA ProcessesFit ==
  ASSUME TypeOK, Live(job), Next
  PROVE  /\ call' \in [Calls -> CallRecord] /\ run' \in [Workers -> RunRecord]
         /\ job' \in Job /\ Live(job)'
<1> DEFINE Goal == /\ call' \in [Calls -> CallRecord] /\ run' \in [Workers -> RunRecord]
                   /\ job' \in Job /\ Live(job)'
<1>0. job \in Job /\ call \in [Calls -> CallRecord] /\ run \in [Workers -> RunRecord]
  BY DEF TypeOK, Job, CallRecord, RunRecord
<1>00. job' = job => job' \in Job /\ Live(job)'
  BY <1>0 DEF Live
<1>1. ASSUME NEW c \in Calls, NEW op \in Ops, NEW new \in Audiences, Ask(c, op, new) PROVE Goal
  <2>1. [at |-> "write", op |-> op, audience |-> new] \in CallRecord
    BY ConstantsAssumption DEF CallRecord, CallSteps
  <2> QED
    BY <1>0, <1>00, <1>1, <2>1 DEF Ask
<1>2. ASSUME NEW c \in Calls, Handle(c) \/ Abandon(c) PROVE Goal
  <2>1. call' \in [Calls -> CallRecord]
    BY <1>2, CallGoes DEF Handle, Write, Unqueue, Enqueue, Abandon, CallSteps
  <2>2. job' = job \/ Remove \/ \E at \in {"delayed", "waiting"} : Add(at)
    BY <1>2 DEF Handle, Write, Unqueue, Enqueue, Abandon
  <2>3. job' \in Job /\ Live(job)'
    BY <1>0, <2>2, AddLives, DropLives DEF Remove
  <2>4. run' = run
    BY <1>2 DEF Handle, Write, Unqueue, Enqueue, Abandon
  <2> QED
    BY <1>0, <2>1, <2>3, <2>4
<1>3. ASSUME NEW w \in Workers, Step(w) \/ Break(w) \/ Die(w) \/ BreakUnsaid(w) PROVE Goal
  <2>1. call' = call
    BY <1>3 DEF Step, Read, Begin, Check, Create, Mail, MailNot, Mark, Finish, Return, Throw, Break, Die, BreakUnsaid
  <2>2. job' \in {job, NoJob} \/ Reject(w)
    BY <1>3 DEF Step, Read, Begin, Check, Create, Mail, MailNot, Mark, Finish, Return, Throw, Break, Die, BreakUnsaid,
                Complete
  <2>3. job' \in Job /\ Live(job)'
    BY <1>0, <2>2, DropLives, RejectLives
  <2>4. CASE Read(w)
    <3>1. [run[w] EXCEPT !.at = "begin", !.to = audience] \in RunRecord
      <4>1. run[w] \in RunRecord /\ audience \in SUBSET Members
        BY <1>0 DEF TypeOK
      <4> QED
        BY <4>1 DEF RunRecord, RunSteps
    <3>2. run' = [run EXCEPT ![w] = [run[w] EXCEPT !.at = "begin", !.to = audience]] \/ Leave(w, "return")
      BY <1>0, <2>4 DEF Read
    <3>3. run' \in [Workers -> RunRecord]
      <4>1. CASE Leave(w, "return")
        BY <1>0, <4>1, RunLeaves DEF RunSteps
      <4>2. CASE run' = [run EXCEPT ![w] = [run[w] EXCEPT !.at = "begin", !.to = audience]]
        BY <1>0, <3>1, <4>2, RunReplaced
      <4> QED
        BY <3>2, <4>1, <4>2
    <3> QED
      BY <1>0, <2>1, <2>3, <3>3
  <2>5. CASE Check(w)
    <3>1. CASE Leave(w, "return") \/ RunGoTo(w, "finish")
      <4>1. run' \in [Workers -> RunRecord]
        BY <1>0, <3>1, RunLeaves, RunGoesTo DEF RunSteps
      <4> QED
        BY <1>0, <2>1, <2>3, <4>1
    <3>2. CASE /\ Ahead(w) # {}
               /\ run' = [run EXCEPT ![w].at = "create", ![w].batch = Batch(w), ![w].cursor = Cursor(w)]
      <4>1. Batch(w) \in SUBSET Members /\ Cursor(w) \in Nat
        BY <3>2, BatchReaches DEF Ahead, TypeOK
      <4>2. [run[w] EXCEPT !.at = "create", !.batch = Batch(w), !.cursor = Cursor(w)] \in RunRecord
        BY <1>0, <4>1 DEF RunRecord, RunSteps
      <4>3. run' = [run EXCEPT ![w] = [run[w] EXCEPT !.at = "create", !.batch = Batch(w), !.cursor = Cursor(w)]]
        BY <1>0, <3>2
      <4> QED
        BY <1>0, <2>1, <2>3, <4>2, <4>3, RunReplaced
    <3> QED
      BY <2>5, <3>1, <3>2 DEF Check
  <2>6. CASE MailNot(w) \/ Mark(w)
    BY <1>0, <2>1, <2>3, <2>6, RunPasses DEF MailNot, Mark
  <2>7. CASE Begin(w) \/ Create(w) \/ Mail(w) \/ Finish(w) \/ Break(w) \/ BreakUnsaid(w)
    <3>1. (\E step \in RunSteps : RunGoTo(w, step)) \/ (\E step \in RunSteps : Leave(w, step))
      BY <2>7 DEF Begin, Create, Mail, Finish, Break, BreakUnsaid, RunSteps
    <3> QED
      BY <1>0, <2>1, <2>3, <3>1, RunLeaves, RunGoesTo
  <2>8. CASE Return(w) \/ Throw(w) \/ Die(w)
    <3>1. run' = [run EXCEPT ![w] = Resting]
      BY <2>8 DEF Return, Throw, Die
    <3> QED
      BY <1>0, <2>1, <2>3, <3>1, RestingType, RunReplaced DEF RunSteps
  <2> QED
    BY <1>3, <2>4, <2>5, <2>6, <2>7, <2>8 DEF Step
<1>4. ASSUME NEW w \in Workers, LoseLock(w) PROVE Goal
  BY <1>0, <1>4, StalledLives DEF LoseLock, Mine
<1>5. ASSUME NEW w \in Workers, Take(w) PROVE Goal
  <2> DEFINE last == Last
             after == [Resting EXCEPT !.at = "read", !.last = last]
  <2>0. last \in BOOLEAN
    BY DEF Last
  <2>a. run' = [run EXCEPT ![w] = after] /\ call' = call
    BY <1>5 DEF Take
  <2> HIDE DEF last
  <2>1. after \in RunRecord
    BY <2>0 DEF Resting, RunRecord, RunSteps
  <2> HIDE DEF after
  <2>2. run' \in [Workers -> RunRecord]
    BY <2>1, <2>a, RunReplaced
  <2>3. job.at # "failed" /\ job' = [job EXCEPT !.at = "active", !.lock = {w}]
    BY <1>5 DEF Take
  <2>4. job' \in Job /\ Live(job)'
    <3>1. {w} \in SUBSET Workers
      OBVIOUS
    <3> QED
      BY <1>0, <2>3, <3>1, MoveLives
  <2> QED
    BY <2>2, <2>a, <2>4, <1>0
<1>6. CASE Due
  <2>1. job' = [job EXCEPT !.at = "waiting", !.lock = job.lock] /\ job.lock \in SUBSET Workers
    BY <1>0, <1>6 DEF Due, Job
  <2>2. job.at # "failed" /\ call' = call /\ run' = run
    BY <1>6 DEF Due
  <2>3. job' \in Job /\ Live(job)'
    BY <1>0, <2>1, <2>2, MoveLives
  <2> QED
    BY <1>0, <2>2, <2>3
<1>7. CASE Stall
  BY <1>0, <1>7, StalledLives DEF Stall, Mine
<1> QED
  BY <1>1, <1>2, <1>3, <1>4, <1>5, <1>6, <1>7 DEF Next, Serve

(* Every step keeps the types.                                             *)
LEMMA TypeStep ==
  ASSUME TypeOK, Live(job), Next
  PROVE  TypeOK' /\ Live(job)'
BY RowsFit, ProcessesFit DEF TypeOK, TypeBut, Job, CallRecord, RunRecord
-----------------------------------------------------------------------------
(* A run that does not hold the lock was made by a fault.  The lock is one *)
(* worker's.                                                               *)
LEMMA OneHolder ==
  ASSUME NEW v \in Workers, NEW w \in Workers, Mine(v), Mine(w)
  PROVE  v = w
BY DEF Mine

(* A step that makes no stray.                                             *)
LEMMA NoMoreStrays ==
  ASSUME TypeOK, FewStrays, faults' \in Nat, faults <= faults', Strays' \subseteq Strays
  PROVE  FewStrays'
<1>1. IsFiniteSet(Strays') /\ Cardinality(Strays') <= Cardinality(Strays)
  BY FS_Subset DEF FewStrays
<1>2. Cardinality(Strays') \in Nat /\ Cardinality(Strays) \in Nat /\ faults \in Nat
  BY <1>1, FS_CardinalityType, ConstantsAssumption DEF FewStrays, TypeOK
<1> QED
  BY <1>1, <1>2 DEF FewStrays

(* Every stray run was made by a fault: one action after another.          *)
LEMMA StrayStep ==
  ASSUME IInv, Next, TypeOK'
  PROVE  FewStrays'
<1> USE DEF IInv
<1>0. faults \in Nat /\ faults' \in Nat
  BY ConstantsAssumption DEF TypeOK
<1>1. ASSUME NEW c \in Calls, NEW op \in Ops, NEW new \in Audiences, Ask(c, op, new) PROVE FewStrays'
  BY <1>0, <1>1, NoMoreStrays DEF Ask, Strays, Running, Mine
<1>2. ASSUME NEW c \in Calls, Handle(c) \/ Abandon(c) PROVE FewStrays'
  <2>1. job' = job \/ (job.at # "active" /\ job'.at # "active")
    BY <1>2, NoJobLives DEF Handle, Write, Unqueue, Enqueue, Abandon, Add, Remove, NoJob
  <2>2. run' = run /\ faults' = faults
    BY <1>2 DEF Handle, Write, Unqueue, Enqueue, Abandon
  <2>3. Strays' \subseteq Strays
    BY <2>1, <2>2 DEF Strays, Running, Mine
  <2> QED
    BY <1>0, <2>2, <2>3, NoMoreStrays
<1>3. ASSUME NEW w \in Workers,
             \/ Read(w) \/ Begin(w) \/ Check(w) \/ Create(w) \/ Mail(w) \/ MailNot(w)
             \/ Mark(w) \/ Finish(w) \/ Break(w) \/ BreakUnsaid(w)
      PROVE  FewStrays'
  <2>1. job' = job /\ faults <= faults' /\ run[w].at # "idle"
    BY <1>0, <1>3 DEF Read, Begin, Check, Create, Mail, MailNot, Mark, Finish, Break, BreakUnsaid
  <2>2. \A v \in Workers \ {w} : run'[v] = run[v]
    <3>1. \A after : \A v \in Workers \ {w} : ([run EXCEPT ![w] = after])[v] = run[v]
      BY DEF TypeOK
    <3>2. \E after : run' = [run EXCEPT ![w] = after]
      BY <1>3 DEF Read, Begin, Check, Create, Mail, MailNot, Mark, Finish, Break, BreakUnsaid,
                  RunGoTo, Leave, AfterMember
    <3> QED
      BY <3>1, <3>2
  <2>3. Strays' \subseteq Strays
    BY <2>1, <2>2 DEF Strays, Running, Mine
  <2> QED
    BY <1>0, <2>1, <2>3, NoMoreStrays
<1>4. ASSUME NEW w \in Workers, Return(w) \/ Throw(w) \/ Die(w) PROVE FewStrays'
  <2>1. run' = [run EXCEPT ![w] = Resting] /\ faults <= faults' /\ (job' = job \/ Complete(w) \/ Reject(w))
    BY <1>0, <1>4 DEF Return, Throw, Die
  <2>2. \A v \in Workers : run'[v] = IF v = w THEN Resting ELSE run[v]
    BY <2>1 DEF TypeOK
  <2>3. \A v \in Workers \ {w} : Mine(v) => job' = job
    BY <2>1, OneHolder DEF Complete, Reject
  <2>4. Strays' \subseteq Strays
    BY <2>2, <2>3 DEF Strays, Running, Resting, Mine
  <2> QED
    BY <1>0, <2>1, <2>4, NoMoreStrays
<1>5. ASSUME NEW w \in Workers, LoseLock(w) PROVE FewStrays'
  <2>1. run' = run /\ faults' = faults + 1
    BY <1>5 DEF LoseLock
  <2>2. Strays' \subseteq Strays \cup {w}
    BY <1>5, <2>1, OneHolder DEF LoseLock, Strays, Running
  <2> DEFINE S == Strays
  <2>a. IsFiniteSet(S) /\ Cardinality(S) \in Nat /\ Cardinality(S) <= faults
    BY FS_CardinalityType DEF FewStrays
  <2> HIDE DEF S
  <2>b. IsFiniteSet(S \cup {w}) /\ Cardinality(S \cup {w}) <= Cardinality(S) + 1
    BY <2>a, OneMore
  <2>3. IsFiniteSet(Strays \cup {w}) /\ Cardinality(Strays \cup {w}) <= Cardinality(Strays) + 1
    BY <2>b DEF S
  <2>4. IsFiniteSet(Strays') /\ Cardinality(Strays') <= Cardinality(Strays \cup {w})
    BY <2>2, <2>3, FS_Subset
  <2> QED
    BY <1>0, <2>1, <2>3, <2>4, FS_CardinalityType DEF FewStrays
<1>6. ASSUME NEW w \in Workers, Take(w) PROVE FewStrays'
  <2>1. /\ job.at = "waiting" /\ job' = [job EXCEPT !.at = "active", !.lock = {w}] /\ faults' = faults
        /\ \A v \in Workers \ {w} : run'[v] = run[v]
    BY <1>6 DEF Take, TypeOK
  <2>2. Mine(w)'
    BY <2>1 DEF Mine, TypeOK
  <2>3. Strays' \subseteq Strays
    BY <2>1, <2>2 DEF Strays, Running, Mine
  <2> QED
    BY <1>0, <2>1, <2>3, NoMoreStrays
<1>7. CASE Due
  BY <1>0, <1>7, NoMoreStrays DEF Due, Strays, Running, Mine
<1>8. CASE Stall
  <2>1. PICK w \in Workers : Mine(w) /\ run[w].at = "idle"
    BY <1>8 DEF Stall
  <2>2. run' = run /\ faults' = faults
    BY <1>8 DEF Stall
  <2>3. Strays' \subseteq Strays
    BY <2>1, <2>2, OneHolder DEF Strays, Running
  <2> QED
    BY <1>0, <2>2, <2>3, NoMoreStrays
<1> QED
  BY <1>1, <1>2, <1>3, <1>4, <1>5, <1>6, <1>7, <1>8 DEF Next, Step, Serve

(* Only a run that finds SENDING decides on a batch.                       *)
LEMMA StoppedStep ==
  ASSUME IInv, Next, TypeOK'
  PROVE  Stopped'
<1> USE DEF IInv
<1> SUFFICES ASSUME state' = "CANCELLED", NEW v \in Workers
             PROVE  late'[v] = 0 \/ (late'[v] = 1 /\ run'[v].at # "create")
  BY DEF Stopped
<1>1. ASSUME NEW c \in Calls, Write(c), call[c].op = "cancel" PROVE late'[v] = 0
  BY <1>1 DEF Write
<1>2. CASE state = "CANCELLED" /\ late' = late /\ (run'[v] = run[v] \/ run'[v].at # "create")
  BY <1>2 DEF Stopped
<1>3. ASSUME NEW w \in Workers, Create(w)
      PROVE  late'[v] = 0 \/ (late'[v] = 1 /\ run'[v].at # "create")
  <2>1. state = "CANCELLED" /\ run[w].at = "create"
    BY <1>3 DEF Create, row
  <2>2. late[w] = 0
    BY <2>1 DEF Stopped
  <2>3. late' = [late EXCEPT ![w] = late[w] + 1]
    BY <1>3, <2>1, <2>2 DEF Create
  <2>4. late'[v] = IF v = w THEN 1 ELSE late[v]
    BY <2>2, <2>3 DEF TypeOK
  <2>5. run'[w].at = "mail" /\ (v # w => run'[v] = run[v])
    <3>1. RunGoTo(w, "mail") /\ "mail" \in RunSteps
      BY <1>3 DEF Create, RunSteps
    <3> QED
      BY <3>1, RunGoesTo
  <2> QED
    BY <2>1, <2>4, <2>5 DEF Stopped
<1>4. ASSUME NEW c \in Calls, \/ \E op \in Ops, new \in Audiences : Ask(c, op, new)
                              \/ Handle(c) \/ Abandon(c)
      PROVE  late'[v] = 0 \/ (late'[v] = 1 /\ run'[v].at # "create")
  <2>1. run' = run
    BY <1>4 DEF Ask, Handle, Write, Unqueue, Enqueue, Abandon
  <2>2. CASE Write(c) /\ call[c].op # "cancel"
    <3>1. call[c].op \in Ops
      BY DEF TypeOK
    <3>2. state' = state /\ late' = late
      BY <2>2, <3>1 DEF Write, Written, Ops
    <3> QED
      BY <1>2, <2>1, <3>2
  <2> QED
    BY <1>1, <1>2, <1>4, <2>1, <2>2 DEF Ask, Handle, Unqueue, Enqueue, Abandon, row, history
<1>5. ASSUME NEW w \in Workers, Begin(w) \/ Finish(w) PROVE FALSE
  BY <1>5 DEF Begin, Finish
<1>6. ASSUME NEW w \in Workers,
             \/ Read(w) \/ Mail(w) \/ MailNot(w) \/ Mark(w) \/ Return(w) \/ Throw(w)
             \/ Break(w) \/ Die(w) \/ BreakUnsaid(w) \/ Take(w)
      PROVE  late'[v] = 0 \/ (late'[v] = 1 /\ run'[v].at # "create")
  <2>1. state = "CANCELLED" /\ late' = late
    BY <1>6 DEF Read, Mail, MailNot, Mark, Return, Throw, Break, Die, BreakUnsaid, Take, row, history
  <2>2. run'[v] = run[v] \/ run'[v].at # "create"
    <3>1. CASE MailNot(w) \/ Mark(w)
      <4>1. AfterMember(w)
        BY <3>1 DEF MailNot, Mark
      <4>2. (v # w => run'[v] = run[v]) /\ run'[w].at \in {"check", "mail"}
        BY <4>1, RunPasses
      <4> QED
        BY <4>2
    <3>2. CASE Mail(w) \/ Break(w) \/ BreakUnsaid(w)
      <4>1. RunGoTo(w, "mark") \/ Leave(w, "throw")
        BY <3>2 DEF Mail, Break, BreakUnsaid
      <4>2. "mark" \in RunSteps /\ "throw" \in RunSteps
        BY DEF RunSteps
      <4>3. (v # w => run'[v] = run[v]) /\ run'[w].at \in {"mark", "throw"}
        BY <4>1, <4>2, RunGoesTo, RunLeaves
      <4> QED
        BY <4>3
    <3>3. CASE Read(w)
      BY <3>3 DEF Read, Leave, Resting, TypeOK
    <3>4. CASE Return(w) \/ Throw(w) \/ Die(w)
      BY <3>4 DEF Return, Throw, Die, Resting, TypeOK
    <3>5. CASE Take(w)
      BY <3>5 DEF Take, Resting, TypeOK
    <3> QED
      BY <1>6, <3>1, <3>2, <3>3, <3>4, <3>5
  <2> QED
    BY <1>2, <2>1, <2>2
<1>7. ASSUME NEW w \in Workers, Check(w)
      PROVE  late'[v] = 0 \/ (late'[v] = 1 /\ run'[v].at # "create")
  <2>1. state = "CANCELLED" /\ late' = late /\ Leave(w, "return")
    BY <1>7 DEF Check, GoesOn, row, history
  <2>2. run'[v] = run[v] \/ run'[v].at # "create"
    BY <2>1, RunLeaves DEF RunSteps, Resting
  <2> QED
    BY <1>2, <2>1, <2>2
<1>8. ASSUME NEW w \in Workers, LoseLock(w)
      PROVE  late'[v] = 0 \/ (late'[v] = 1 /\ run'[v].at # "create")
  BY <1>2, <1>8 DEF LoseLock, row, history
<1>9. ASSUME Due \/ Stall
      PROVE  late'[v] = 0 \/ (late'[v] = 1 /\ run'[v].at # "create")
  BY <1>2, <1>9 DEF Due, Stall, row, history
<1> QED
  BY <1>3, <1>4, <1>5, <1>6, <1>7, <1>8, <1>9 DEF Next, Step, Serve
-----------------------------------------------------------------------------
(* Whoever was answered stays so: a row that says why not is only written  *)
(* over by a run that has mailed, or by one that says why not.             *)
Kept == \A m \in Members : (Answered(m) => Answered(m)') /\ (got[m] > 0 => got'[m] > 0)

(* No step of Next takes an answer back.                                   *)
LEMMA AnswersStay ==
  ASSUME IInv, Next
  PROVE  Kept
<1> USE DEF IInv
<1>1. CASE delivery' = delivery /\ got' = got
  BY <1>1 DEF Kept, Answered
<1>2. ASSUME NEW w \in Workers, Create(w) PROVE Kept
  BY <1>2 DEF Create, Kept, Answered, TypeOK
<1>3. ASSUME NEW w \in Workers, Mail(w) PROVE Kept
  <2>1. delivery' = delivery
    BY <1>3 DEF Mail
  <2>2. \A m \in Members : got[m] \in 0..2 /\ (got'[m] = got[m] \/ got'[m] = got[m] + 1)
    BY <1>3 DEF Mail, TypeOK
  <2> QED
    BY <2>1, <2>2 DEF Kept, Answered
<1>4. ASSUME NEW w \in Workers, MailNot(w) PROVE Kept
  <2>1. got' = got
    BY <1>4 DEF MailNot, history
  <2>2. \A m \in Members : delivery'[m] = delivery[m] \/ delivery'[m] \in {"FAILED", "SKIPPED_PREFERENCE"}
    BY <1>4 DEF MailNot, TypeOK
  <2> QED
    BY <2>1, <2>2 DEF Kept, Answered
<1>5. ASSUME NEW w \in Workers, Mark(w) PROVE Kept
  <2>1. got' = got
    BY <1>5 DEF Mark, history
  <2>2. NextUp(w) \in Members => got[NextUp(w)] > 0
    BY <1>5 DEF Mark, Reached
  <2>3. \A m \in Members : m # NextUp(w) => delivery'[m] = delivery[m]
    BY <1>5 DEF Mark, TypeOK
  <2> QED
    BY <2>1, <2>2, <2>3 DEF Kept, Answered
<1>6. ASSUME NEW w \in Workers, \/ Read(w) \/ Begin(w) \/ Check(w) \/ Finish(w) \/ Return(w) \/ Throw(w)
                                \/ Break(w) \/ Die(w) \/ LoseLock(w) \/ BreakUnsaid(w)
      PROVE  delivery' = delivery /\ got' = got
  BY <1>6 DEF Read, Begin, Check, Finish, Return, Throw, Break, Die, LoseLock, BreakUnsaid, history
<1>7. ASSUME NEW c \in Calls, \/ \E op \in Ops, new \in Audiences : Ask(c, op, new)
                              \/ Handle(c) \/ Abandon(c)
      PROVE  delivery' = delivery /\ got' = got
  BY <1>7 DEF Ask, Handle, Write, Unqueue, Enqueue, Abandon, history
<1>8. ASSUME Serve \/ Due \/ Stall PROVE delivery' = delivery /\ got' = got
  BY <1>8 DEF Serve, Take, Due, Stall, history
<1> QED
  BY <1>1, <1>2, <1>3, <1>4, <1>5, <1>6, <1>7, <1>8 DEF Next, Step

(* A run that did not move is where it was.                                *)
LEMMA OthersReached ==
  ASSUME TypeOK, Kept, NEW v \in Workers, Reached(v), run'[v] = run[v]
  PROVE  Reached(v)'
<1>1. run[v].to \subseteq Members
  BY DEF TypeOK
<1>2. NextUp(v)' = NextUp(v)
  BY DEF NextUp
<1> QED
  BY <1>1, <1>2 DEF Reached, Passed, Kept

(* A run that is in none of the places Reached speaks of.                  *)
LEMMA ElsewhereReached ==
  ASSUME NEW v \in Workers, run'[v].at \notin {"read", "begin"} \cup Looping
  PROVE  Reached(v)'
BY DEF Reached, Looping

(* A run that has dealt with the member that is next in its batch.         *)
LEMMA PassedStep ==
  ASSUME TypeOK, Kept, NEW w \in Workers, Passed(w), AfterMember(w),
         \A m \in Members : m = NextUp(w) => Answered(m)'
  PROVE  Reached(w)'
<1>1. /\ run'[w].to = run[w].to /\ run'[w].cursor = run[w].cursor
      /\ run'[w].batch = run[w].batch \ {NextUp(w)}
      /\ run'[w].at = IF run[w].batch \ {NextUp(w)} = {} THEN "check" ELSE "mail"
  BY RunPasses
<1>2. run[w].to \subseteq Members
  BY DEF TypeOK
<1>3. \A m \in run[w].to : m <= run[w].cursor => m \in run[w].batch \ {NextUp(w)} \/ Answered(m)'
  <2> TAKE m \in run[w].to
  <2> HAVE m <= run[w].cursor
  <2>1. m \in Members /\ (m \in run[w].batch \/ Answered(m))
    BY <1>2 DEF Passed
  <2>2. Answered(m) => Answered(m)'
    BY <2>1 DEF Kept
  <2> QED
    BY <2>1, <2>2
<1>4. Passed(w)'
  BY <1>1, <1>3 DEF Passed
<1>5. run'[w].at \in {"check", "mail"} /\ (run'[w].at = "check" => run'[w].batch = {})
  BY <1>1
<1> QED
  BY <1>4, <1>5 DEF Reached

(* A run that looped goes on, or is through with everybody.                *)
LEMMA LoopReached ==
  ASSUME IInv, Kept, NEW w \in Workers, Check(w) \/ Create(w) \/ Mail(w) \/ MailNot(w) \/ Mark(w)
  PROVE  Reached(w)'
<1> USE DEF IInv
<1>0. run[w].to \subseteq Members /\ run[w].cursor \in Nat /\ Members \subseteq Nat /\ run[w] \in RunRecord
  BY ConstantsAssumption DEF TypeOK, RunRecord
<1>1. Passed(w)
  BY DEF Reached, Looping, Check, Create, Mail, MailNot, Mark
<1>2. CASE Check(w)
  <2>1. CASE Leave(w, "return")
    <3>1. run'[w].at = "return"
      BY <2>1, RunLeaves DEF RunSteps
    <3> QED
      BY <3>1, ElsewhereReached DEF Looping
  <2>2. CASE Ahead(w) = {} /\ RunGoTo(w, "finish") /\ UNCHANGED <<delivery, got>>
    <3>1. \A m \in run[w].to : Answered(m)
      <4>1. \A m \in run[w].to : m <= run[w].cursor
        <5> TAKE m \in run[w].to
        <5>1. m \in Nat /\ run[w].cursor \in Nat /\ ~(m > run[w].cursor)
          BY <1>0, <2>2 DEF Ahead
        <5> QED
          BY <5>1
      <4>2. run[w].batch = {}
        BY <1>2 DEF Reached, Check
      <4> QED
        BY <1>1, <4>1, <4>2 DEF Passed
    <3>2. run'[w].at = "finish" /\ run'[w].to = run[w].to /\ run'[w].cursor = run[w].cursor
      BY <2>2, RunGoesTo DEF RunSteps
    <3>3. \A m \in run'[w].to : Answered(m)'
      BY <2>2, <3>1, <3>2 DEF Answered
    <3> QED
      BY <3>2, <3>3 DEF Reached, Passed
  <2>3. CASE /\ Ahead(w) # {} /\ UNCHANGED <<delivery, got>>
             /\ run' = [run EXCEPT ![w].at = "create", ![w].batch = Batch(w), ![w].cursor = Cursor(w)]
    <3>1. /\ run'[w].at = "create" /\ run'[w].to = run[w].to
          /\ run'[w].batch = Batch(w) /\ run'[w].cursor = Cursor(w)
      BY <1>0, <2>3 DEF TypeOK, RunRecord
    <3>2. run[w].batch = {}
      BY <1>2 DEF Reached, Check
    <3>3. \A m \in run[w].to : m <= Cursor(w) => m \in Batch(w) \/ Answered(m)
      <4> TAKE m \in run[w].to
      <4>1. CASE m \in Ahead(w)
        BY <2>3, <4>1, BatchReaches
      <4>2. CASE m \notin Ahead(w)
        <5>1. m <= run[w].cursor
          <6>1. m \in Nat /\ run[w].cursor \in Nat /\ ~(m > run[w].cursor)
            BY <1>0, <4>2 DEF Ahead
          <6> QED
            BY <6>1
        <5> QED
          BY <1>1, <3>2, <5>1 DEF Passed
      <4> QED
        BY <4>1, <4>2
    <3>4. Passed(w)'
      BY <2>3, <3>1, <3>3 DEF Passed, Answered
    <3> QED
      BY <3>1, <3>4 DEF Reached
  <2> QED
    BY <1>2, <2>1, <2>2, <2>3 DEF Check, history
<1>3. CASE Create(w)
  <2>1. run'[w].at = "mail" /\ run'[w].to = run[w].to /\ run'[w].cursor = run[w].cursor /\ run'[w].batch = run[w].batch
    <3>1. RunGoTo(w, "mail") /\ "mail" \in RunSteps
      BY <1>3 DEF Create, RunSteps
    <3> QED
      BY <3>1, RunGoesTo
  <2>2. Passed(w)'
    BY <1>0, <1>1, <2>1 DEF Passed, Kept
  <2> QED
    BY <2>1, <2>2 DEF Reached
<1>4. CASE Mail(w)
  <2>1. run'[w].at = "mark" /\ run'[w].to = run[w].to /\ run'[w].cursor = run[w].cursor /\ run'[w].batch = run[w].batch
    <3>1. RunGoTo(w, "mark") /\ "mark" \in RunSteps
      BY <1>4 DEF Mail, RunSteps
    <3> QED
      BY <3>1, RunGoesTo
  <2>2. Passed(w)'
    BY <1>0, <1>1, <2>1 DEF Passed, Kept
  <2>3. NextUp(w)' = NextUp(w)
    BY <2>1 DEF NextUp
  <2>4. NextUp(w) \in Members => got'[NextUp(w)] > 0
    <3> DEFINE n == NextUp(w)
    <3> HAVE n \in Members
    <3>1. got[n] \in 0..2 /\ got' = [got EXCEPT ![n] = IF @ < 2 THEN @ + 1 ELSE @]
      BY <1>4 DEF Mail, TypeOK
    <3> HIDE DEF n
    <3>2. got'[n] = IF got[n] < 2 THEN got[n] + 1 ELSE got[n]
      BY <3>1 DEF TypeOK
    <3> QED
      BY <3>1, <3>2 DEF n
  <2> QED
    BY <2>1, <2>2, <2>3, <2>4 DEF Reached
<1>5. CASE MailNot(w)
  <2>1. \A m \in Members : m = NextUp(w) => delivery'[m] \in {"FAILED", "SKIPPED_PREFERENCE"}
    BY <1>5 DEF MailNot, TypeOK
  <2>2. \A m \in Members : m = NextUp(w) => Answered(m)'
    BY <2>1 DEF Answered
  <2> QED
    BY <1>1, <1>5, <2>2, PassedStep DEF MailNot
<1>6. CASE Mark(w)
  <2>1. \A m \in Members : m = NextUp(w) => got[m] > 0 /\ got' = got
    BY <1>6 DEF Mark, Reached, history
  <2>2. \A m \in Members : m = NextUp(w) => Answered(m)'
    BY <2>1 DEF Answered
  <2> QED
    BY <1>1, <1>6, <2>2, PassedStep DEF Mark
<1> QED
  BY <1>2, <1>3, <1>4, <1>5, <1>6

(* Every step leaves every run where Reached says.                         *)
LEMMA ReachedStep ==
  ASSUME IInv, Next, NEW v \in Workers
  PROVE  Reached(v)'
<1> USE DEF IInv
<1>0. Kept
  BY AnswersStay
<1>1. CASE run'[v] = run[v]
  BY <1>0, <1>1, OthersReached
<1>2. ASSUME NEW w \in Workers, Check(w) \/ Create(w) \/ Mail(w) \/ MailNot(w) \/ Mark(w)
      PROVE  Reached(v)'
  <2>1. CASE v = w
    BY <1>0, <1>2, <2>1, LoopReached
  <2>2. CASE v # w
    <3>1. run'[v] = run[v]
      <4>1. \A after : ([run EXCEPT ![w] = after])[v] = run[v]
        BY <2>2 DEF TypeOK
      <4>2. \E after : run' = [run EXCEPT ![w] = after]
        BY <1>2 DEF Check, Create, Mail, MailNot, Mark, RunGoTo, Leave, AfterMember
      <4> QED
        BY <4>1, <4>2
    <3> QED
      BY <1>1, <3>1
  <2> QED
    BY <2>1, <2>2
<1>3. ASSUME NEW w \in Workers, Finish(w) \/ Break(w) \/ BreakUnsaid(w) PROVE Reached(v)'
  <2>1. Leave(w, "return") \/ Leave(w, "throw")
    BY <1>3 DEF Finish, Break, BreakUnsaid
  <2>2. (v # w => run'[v] = run[v]) /\ run'[w].at \in {"return", "throw"}
    BY <2>1, RunLeaves DEF RunSteps
  <2> QED
    BY <1>1, <2>2, ElsewhereReached DEF Looping
<1>4. ASSUME NEW w \in Workers, Return(w) \/ Throw(w) \/ Die(w) PROVE Reached(v)'
  <2>1. (v # w => run'[v] = run[v]) /\ run'[w].at = "idle"
    BY <1>4 DEF Return, Throw, Die, Resting, TypeOK
  <2> QED
    BY <1>1, <2>1, ElsewhereReached DEF Looping
<1>5. ASSUME NEW w \in Workers, Take(w) PROVE Reached(v)'
  <2>1. (v # w => run'[v] = run[v]) /\ run'[w].at = "read" /\ run'[w].batch = {} /\ run'[w].cursor = 0
    BY <1>5 DEF Take, Resting, TypeOK
  <2>2. Reached(w)'
    BY <2>1 DEF Reached, Looping
  <2> QED
    BY <1>1, <2>1, <2>2
<1>6. ASSUME NEW w \in Workers, Read(w) PROVE Reached(v)'
  <2>1. CASE Leave(w, "return")
    <3>1. (v # w => run'[v] = run[v]) /\ run'[w].at = "return"
      BY <2>1, RunLeaves DEF RunSteps
    <3> QED
      BY <1>1, <3>1, ElsewhereReached DEF Looping
  <2>2. CASE run' = [run EXCEPT ![w].at = "begin", ![w].to = audience]
    <3>1. (v # w => run'[v] = run[v]) /\ run'[w].at = "begin" /\ run'[w].batch = run[w].batch
          /\ run'[w].cursor = run[w].cursor
      BY <2>2 DEF TypeOK
    <3>2. run[w].batch = {} /\ run[w].cursor = 0
      BY <1>6 DEF Read, Reached
    <3>3. Reached(w)'
      BY <3>1, <3>2 DEF Reached, Looping
    <3> QED
      BY <1>1, <3>1, <3>3
  <2> QED
    BY <1>6, <2>1, <2>2 DEF Read
<1>7. ASSUME NEW w \in Workers, Begin(w) PROVE Reached(v)'
  <2>1. CASE Leave(w, "return")
    <3>1. (v # w => run'[v] = run[v]) /\ run'[w].at = "return"
      BY <2>1, RunLeaves DEF RunSteps
    <3> QED
      BY <1>1, <3>1, ElsewhereReached DEF Looping
  <2>2. CASE RunGoTo(w, "check")
    <3>1. /\ v # w => run'[v] = run[v]
          /\ run'[w].at = "check" /\ run'[w].batch = run[w].batch
          /\ run'[w].cursor = run[w].cursor /\ run'[w].to = run[w].to
      BY <2>2, RunGoesTo DEF RunSteps
    <3>2. run[w].batch = {} /\ run[w].cursor = 0
      BY <1>7 DEF Begin, Reached
    <3>3. \A m \in run[w].to : ~(m <= 0)
      BY ConstantsAssumption DEF TypeOK
    <3>4. Reached(w)'
      BY <3>1, <3>2, <3>3 DEF Reached, Passed
    <3> QED
      BY <1>1, <3>1, <3>4
  <2> QED
    BY <1>7, <2>1, <2>2 DEF Begin
<1>8. ASSUME NEW c \in Calls, \/ \E op \in Ops, new \in Audiences : Ask(c, op, new)
                              \/ Handle(c) \/ Abandon(c)
      PROVE  run' = run
  BY <1>8 DEF Ask, Handle, Write, Unqueue, Enqueue, Abandon
<1>9. ASSUME NEW w \in Workers, LoseLock(w) PROVE run' = run
  BY <1>9 DEF LoseLock
<1>10. ASSUME Due \/ Stall PROVE run' = run
  BY <1>10 DEF Due, Stall
<1> QED
  BY <1>1, <1>2, <1>3, <1>4, <1>5, <1>6, <1>7, <1>8, <1>9, <1>10 DEF Next, Step, Serve

-----------------------------------------------------------------------------
(* The invariant holds at first.                                           *)
LEMMA InvariantInit == Init => IInv
<1> SUFFICES ASSUME Init PROVE IInv
  OBVIOUS
<1>1. Resting \in RunRecord /\ Resting.at = "idle"
  BY RestingType DEF Resting, RunSteps
<1>2. Unasked \in CallRecord
  BY ConstantsAssumption DEF Unasked, CallRecord, CallSteps, Ops
<1>3. run \in [Workers -> RunRecord] /\ \A w \in Workers : run[w].at = "idle"
  BY <1>1 DEF Init
<1>4. call \in [Calls -> CallRecord]
  BY <1>2 DEF Init
<1>5. /\ state \in States /\ audience \in SUBSET Members /\ delivery \in [Members -> Statuses]
      /\ got \in [Members -> 0..2] /\ late \in [Workers -> 0..2] /\ faults \in 0..MaxFaults
  BY ConstantsAssumption DEF Init, States, Statuses
<1>6. job \in Job /\ Live(job)
  BY NoJobLives DEF Init
<1>7. TypeOK
  BY <1>3, <1>4, <1>5, <1>6 DEF TypeOK, Job, CallRecord, RunRecord
<1>8. Strays = {} /\ faults = 0
  BY <1>3 DEF Strays, Running, Init
<1>9. FewStrays
  BY <1>8, FS_EmptySet DEF FewStrays
<1>10. Stopped
  BY DEF Stopped, Init
<1>11. \A w \in Workers : Reached(w)
  BY <1>3 DEF Reached, Looping
<1> QED
  BY <1>6, <1>7, <1>9, <1>10, <1>11 DEF IInv

(* Every step keeps it.                                                    *)
LEMMA InvariantStep == IInv /\ [Next]_vars => IInv'
<1>1. ASSUME IInv, UNCHANGED vars PROVE IInv'
  BY <1>1 DEF vars, IInv, TypeOK, Live, FewStrays, Strays, Running, Mine, Stopped, Reached, Passed, Answered,
              NextUp
<1>2. ASSUME IInv, Next PROVE IInv'
  <2>1. TypeOK' /\ Live(job)'
    BY <1>2, TypeStep DEF IInv
  <2> QED
    BY <1>2, <2>1, StrayStep, StoppedStep, ReachedStep DEF IInv
<1> QED
  BY <1>1, <1>2

(* TypeOK: the row, the job, the deliveries and every process are what the *)
(* schema and the queue allow.                                             *)
THEOREM TypeCorrect == Spec => []TypeOK
<1>1. IInv => TypeOK
  BY DEF IInv
<1> QED
  BY <1>1, InvariantInit, InvariantStep, PTL DEF Spec

(* OneFanoutAtATime: "a double-pressed send cannot start two fan-outs"     *)
(* (enqueue); two are under way only after a worker lost its lock.         *)
THEOREM FanoutsAreOne == Spec => []OneFanoutAtATime
<1>1. IInv => OneFanoutAtATime
  <2> SUFFICES ASSUME IInv PROVE Cardinality(Running) <= 1 + faults
    BY DEF OneFanoutAtATime
  <2> DEFINE S == Strays
  <2>1. IsFiniteSet(S) /\ Cardinality(S) \in Nat /\ Cardinality(S) <= faults /\ faults \in Nat
    BY FS_CardinalityType, ConstantsAssumption DEF IInv, FewStrays, TypeOK
  <2>2. PICK w : Running \subseteq S \cup {w}
    <3>1. CASE \E w \in Running : Mine(w)
      BY <3>1, OneHolder DEF Strays, Running
    <3>2. CASE ~\E w \in Running : Mine(w)
      BY <3>2 DEF Strays
    <3> QED
      BY <3>1, <3>2
  <2> HIDE DEF S
  <2>3. IsFiniteSet(S \cup {w}) /\ Cardinality(S \cup {w}) <= Cardinality(S) + 1
    BY <2>1, OneMore
  <2>4. IsFiniteSet(Running) /\ Cardinality(Running) <= Cardinality(S \cup {w})
    BY <2>2, <2>3, FS_Subset
  <2>5. Cardinality(Running) \in Nat /\ Cardinality(S \cup {w}) \in Nat
    BY <2>3, <2>4, FS_CardinalityType
  <2> QED
    BY <2>1, <2>3, <2>4, <2>5
<1> QED
  BY <1>1, InvariantInit, InvariantStep, PTL DEF Spec

(* CancelStopsTheRest: "cancelling a send in progress stops the rest of it *)
(* within one batch", for every run that is under way (fanOut).            *)
THEOREM CancelAlwaysStops == Spec => []CancelStopsTheRest
<1>1. IInv => CancelStopsTheRest
  BY DEF IInv, Stopped, CancelStopsTheRest
<1> QED
  BY <1>1, InvariantInit, InvariantStep, PTL DEF Spec

(* SentMeansEveryone: SENT is written only once everybody the run was for  *)
(* has a mail, or a row that says why not (fanOut).                        *)
THEOREM SentIsComplete == Spec => SentMeansEveryone
<1> DEFINE Whole == state # "SENT" /\ state' = "SENT" =>
                          \E w \in Workers : run[w].at = "finish" /\ \A m \in run[w].to : Answered(m)
<1>1. IInv /\ [Next]_vars => [Whole]_vars
  <2> SUFFICES ASSUME IInv, Next, state # "SENT", state' = "SENT"
               PROVE  \E w \in Workers : run[w].at = "finish" /\ \A m \in run[w].to : Answered(m)
    BY Zenon
  <2>1. ASSUME NEW w \in Workers, Finish(w)
        PROVE  run[w].at = "finish" /\ \A m \in run[w].to : Answered(m)
    BY <2>1 DEF Finish, IInv, Reached
  <2>2. ASSUME NEW w \in Workers,
               \/ Read(w) \/ Begin(w) \/ Check(w) \/ Create(w) \/ Mail(w) \/ MailNot(w) \/ Mark(w)
               \/ Return(w) \/ Throw(w) \/ Break(w) \/ Die(w) \/ LoseLock(w) \/ BreakUnsaid(w)
        PROVE  FALSE
    BY <2>2 DEF Read, Begin, Check, Create, Mail, MailNot, Mark, Return, Throw, Break, Die, LoseLock,
                BreakUnsaid, row
  <2>3. ASSUME NEW c \in Calls, \/ \E op \in Ops, new \in Audiences : Ask(c, op, new)
                                \/ Handle(c) \/ Abandon(c)
        PROVE  FALSE
    <3>1. call[c].op \in Ops
      BY DEF IInv, TypeOK
    <3> QED
      BY <2>3, <3>1 DEF Ask, Handle, Write, Written, Ops, Unqueue, Enqueue, Abandon, row
  <2>4. ~(Serve \/ Due \/ Stall)
    BY DEF Serve, Take, Due, Stall, row
  <2> QED
    BY <2>1, <2>2, <2>3, <2>4 DEF Next, Step
<1> QED
  BY <1>1, InvariantInit, InvariantStep, PTL DEF Spec, SentMeansEveryone

-----------------------------------------------------------------------------
(* The chain of the audit trail.                                           *)

Runs == ChainRuns \cup PurgeRuns
Doing == [at : At, started : 0..MaxTime, from : Int, prev : Hash, to : Int,
              rows : SUBSET Entry, seen : Seq(Segment)]
InFlight == {doing[r] : r \in Runs}

Tip == segments[Len(segments)]

(* Later than the retention by as much as a run may take.                  *)
Fresh(time) == time > now - (Retention - RunTime)

(* What lets time pass, between its steps as well.                         *)
Clock ==
  /\ \A e \in DOMAIN recorded : recorded[e] <= now
  /\ \A e \in open : recorded[e] > now - Lag
  /\ \A e \in (log \cup open) \ Sealed : Fresh(recorded[e])
  /\ segments # <<>> => Fresh(Tip.to)

(* Every segment goes on after every earlier one.                          *)
Ordered ==
  \A i, j \in DOMAIN segments :
    i < j => segments[i].seq < segments[j].seq /\ segments[i].to <= segments[j].from

(* Rows that the cap does not cut when they are read again.                *)
Snug(rows) == Cardinality(rows) < MaxRows \/ \A e, f \in rows : recorded[e] = recorded[f]

WellSealed(s) ==
  /\ s.from < s.to /\ s.to <= now - Lag
  /\ \A e \in s.rows : e \in DOMAIN recorded /\ s.from < recorded[e] /\ recorded[e] <= s.to
  /\ Snug(s.rows)

(* Each segment follows the one before it.                                 *)
Joined ==
  \A i \in DOMAIN segments : i > 1 =>
    segments[i].from = segments[i - 1].to /\ segments[i].prev = HashOf(segments[i - 1])

Chain ==
  /\ Joined /\ Ordered /\ SealedForGood
  /\ \A s \in Table : WellSealed(s)
  /\ segments # <<>> => FirstLinked(segments[1])

Started(mine) == mine.at # "idle" => now - RunTime < mine.started /\ mine.started <= now

(* A run that seals holds the end of the chain, or has lost the race.      *)
IsFirst(from) == (\E e \in log : recorded[e] = from + 1) /\ \A e \in log : recorded[e] > from
Follows(from, prev) ==
  IF segments = <<>> THEN prev = <<>> /\ IsFirst(from)
                     ELSE from = Tip.to /\ prev = HashOf(Tip)
Taken(from) == \E s \in Table : s.from = from

Sealing(mine) ==
  mine.at \in {"window", "insert"} =>
    /\ mine.from < mine.started - Lag
    /\ mine.from + 1 > mine.started - (Retention - RunTime)
    /\ Follows(mine.from, mine.prev) \/ Taken(mine.from)
    /\ mine.at = "insert" =>
         /\ mine.rows # {} /\ mine.rows = InRange(mine.from, mine.to)
         /\ mine.from < mine.to /\ mine.to <= mine.started - Lag
         /\ Snug(mine.rows)

(* What a verification still looks at is there, or a purge took it.        *)
Verifying(mine) ==
  mine.at \in {"links", "check", "mark"} =>
    /\ \A i \in DOMAIN mine.seen : mine.seen[i] \in Table \/ mine.seen[i].to <= now - Retention
    /\ IF mine.at = "links" THEN Linked(mine.seen) ELSE mine.seen # <<>>

(* A purge cuts between two segments, and never the last one off.          *)
CutHolds(cut) ==
  /\ segments # <<>> /\ cut.seq <= Tip.seq
  /\ cut \in Table \/ \A s \in Table : s.seq > cut.seq

Purging(mine) ==
  /\ mine.at = "cut" => mine.seen = <<>>
  /\ mine.at \in {"entries", "truncate", "drop"} =>
       /\ mine.to <= mine.started - Retention
       /\ \A s \in Table : s.from >= mine.to \/ s.to <= mine.to
       /\ mine.seen # <<>> => Head(mine.seen).to = mine.to /\ CutHolds(Head(mine.seen))
       /\ mine.at # "entries" => mine.seen # <<>> /\ InRange(0, mine.to) = {}
       /\ mine.at = "drop" => HashOf(Head(mine.seen)) \in truncated

Known(mine) == Started(mine) /\ Sealing(mine) /\ Verifying(mine) /\ Purging(mine)

ChainInv == ChainTypeOK /\ Clock /\ Chain /\ \A mine \in InFlight : Known(mine)

-----------------------------------------------------------------------------
(* Numbers, sets of times and windows.                                     *)

(* What the constants are.                                                 *)
LEMMA Bounds ==
  /\ Lag \in Nat /\ Span \in Nat /\ MaxRows \in Nat /\ RunTime \in Nat
  /\ Retention \in Nat /\ MaxTime \in Nat
  /\ Lag >= 1 /\ Span >= 1 /\ MaxRows >= 1 /\ RunTime >= 1 /\ MaxTime >= 1
  /\ Retention > RunTime + Lag
BY ChainAssumption

(* What the variables are, seen one at a time.                             *)
LEMMA Shapes ==
  ASSUME ChainTypeOK
  PROVE  /\ now \in Nat /\ now >= 1
         /\ Len(recorded) \in Nat /\ DOMAIN recorded = 1 .. Len(recorded)
         /\ DOMAIN recorded \subseteq Entry
         /\ \A e \in DOMAIN recorded : recorded[e] \in Nat /\ recorded[e] >= 1
         /\ open \subseteq DOMAIN recorded /\ log \subseteq DOMAIN recorded
         /\ Len(segments) \in Nat /\ DOMAIN segments = 1 .. Len(segments)
         /\ \A i \in DOMAIN segments : segments[i] \in Segment
         /\ Table \subseteq Segment
         /\ segments # <<>> => /\ Len(segments) >= 1 /\ Len(segments) \in DOMAIN segments
                               /\ 1 \in DOMAIN segments
                               /\ Tip \in Table /\ Tip = segments[Len(segments)]
<1>1. now \in Nat /\ now >= 1
  BY Bounds DEF ChainTypeOK
<1>2. recorded \in Seq(1 .. MaxTime) /\ Len(recorded) <= MaxEntries /\ MaxEntries \in Nat
  BY ChainAssumption DEF ChainTypeOK
<1>3. /\ Len(recorded) \in Nat /\ DOMAIN recorded = 1 .. Len(recorded)
      /\ DOMAIN recorded \subseteq Entry
      /\ \A e \in DOMAIN recorded : recorded[e] \in Nat /\ recorded[e] >= 1
  BY <1>2, Bounds, LenProperties, ElementOfSeq DEF Entry
<1>4. segments \in Seq(Segment)
  BY DEF ChainTypeOK
<1>5. /\ Len(segments) \in Nat /\ DOMAIN segments = 1 .. Len(segments)
      /\ \A i \in DOMAIN segments : segments[i] \in Segment
  BY <1>4, LenProperties, ElementOfSeq
<1>6. segments # <<>> => Len(segments) >= 1
  BY <1>4, <1>5, EmptySeq
<1> QED
  BY <1>1, <1>3, <1>5, <1>6 DEF ChainTypeOK, Table, Tip

(* What a segment is made of.                                              *)
LEMMA SegmentShape ==
  ASSUME NEW s \in Segment
  PROVE  /\ s.seq \in Nat /\ s.from \in Int /\ s.to \in Int
         /\ s.rows \in SUBSET Entry /\ s.prev \in Hash /\ HashOf(s) \in Hash
         /\ HashOf(s) # <<>>
<1>1. s.seq \in Nat /\ s.from \in Int /\ s.to \in Int /\ s.rows \in SUBSET Entry /\ s.prev \in Hash
  BY DEF Segment
<1>2. HashOf(s) \in Hash /\ HashOf(s) # <<>>
  BY <1>1, AppendProperties DEF HashOf, Hash
<1> QED
  BY <1>1, <1>2

(* A set of numbers has a least one.                                       *)
LEMMA MinIs ==
  ASSUME NEW S \in SUBSET Nat, S # {}
  PROVE  Min(S) \in S /\ \A y \in S : Min(S) <= y
<1>1. PICK x \in S : \A y \in S : ~(<<y, x>> \in OpToRel(<, Nat))
  BY NatLessThanWellFounded, WFMin
<1>2. ASSUME NEW y \in S PROVE x <= y
  <2>1. x \in Nat /\ y \in Nat
    OBVIOUS
  <2>2. ~(y < x)
    BY <1>1, <2>1 DEF OpToRel
  <2> QED
    BY <2>1, <2>2
<1> QED
  BY <1>2 DEF Min

(* A set of numbers with a bound has a greatest one.                       *)
LEMMA MaxIs ==
  ASSUME NEW S \in SUBSET Nat, S # {}, NEW b \in Nat, \A y \in S : y <= b
  PROVE  Max(S) \in S /\ \A y \in S : Max(S) >= y
<1> DEFINE D == {b - y : y \in S}
<1>1. D \in SUBSET Nat /\ D # {}
  <2>1. \A y \in S : b - y \in Nat
    OBVIOUS
  <2> QED
    BY <2>1
<1>2. Min(D) \in D /\ \A d \in D : Min(D) <= d
  BY <1>1, MinIs
<1>3. PICK x \in S : Min(D) = b - x
  BY <1>2
<1>4. ASSUME NEW y \in S PROVE x >= y
  <2>1. b - x <= b - y
    BY <1>2, <1>3
  <2> QED
    BY <2>1
<1> QED
  BY <1>4 DEF Max

(* The times of some entries are numbers the clock has passed.             *)
LEMMA TimesAre ==
  ASSUME ChainTypeOK, NEW rows \in SUBSET DOMAIN recorded
  PROVE  /\ TimesOf(rows) \in SUBSET Nat
         /\ \A t \in TimesOf(rows) : t <= MaxTime
         /\ rows # {} => TimesOf(rows) # {}
         /\ IsFiniteSet(rows) /\ Cardinality(rows) \in Nat
<1>1. recorded \in Seq(1 .. MaxTime)
  BY DEF ChainTypeOK
<1>2. \A e \in DOMAIN recorded : recorded[e] \in 1 .. MaxTime
  BY <1>1, ElementOfSeq, LenProperties
<1>3. DOMAIN recorded = 1 .. Len(recorded) /\ Len(recorded) \in Nat
  BY <1>1, LenProperties
<1>4. IsFiniteSet(rows) /\ Cardinality(rows) \in Nat
  <2>1. IsFiniteSet(1 .. Len(recorded))
    BY <1>3, FS_Interval
  <2>2. IsFiniteSet(rows)
    BY <1>3, <2>1, FS_Subset
  <2> QED
    BY <2>2, FS_CardinalityType
<1>5. ASSUME NEW e \in rows PROVE recorded[e] \in Nat /\ recorded[e] <= MaxTime
  <2>1. recorded[e] \in 1 .. MaxTime
    BY <1>2
  <2> QED
    BY <2>1, Bounds
<1>6. /\ TimesOf(rows) \in SUBSET Nat
      /\ \A t \in TimesOf(rows) : t <= MaxTime
      /\ rows # {} => TimesOf(rows) # {}
  BY <1>5 DEF TimesOf
<1> QED
  BY <1>4, <1>6

(* The entries up to the latest of them are all of them.                   *)
LEMMA UpToAll ==
  ASSUME ChainTypeOK, NEW rows \in SUBSET DOMAIN recorded, rows # {}
  PROVE  /\ Max(TimesOf(rows)) \in TimesOf(rows)
         /\ UpTo(rows, Max(TimesOf(rows))) = rows
<1>1. /\ Max(TimesOf(rows)) \in TimesOf(rows)
      /\ \A t \in TimesOf(rows) : Max(TimesOf(rows)) >= t
  BY TimesAre, MaxIs, Bounds
<1>2. \A e \in rows : recorded[e] \in TimesOf(rows) /\ recorded[e] \in Nat
  BY TimesAre DEF TimesOf
<1>3. Max(TimesOf(rows)) \in Nat
  BY <1>1, TimesAre
<1> QED
  BY <1>1, <1>2, <1>3 DEF UpTo

(* A capped window holds what was recorded before its end, and is short or *)
(* of one instant.                                                         *)
LEMMA CappedWindow ==
  ASSUME ChainTypeOK, NEW rows \in SUBSET DOMAIN recorded, rows # {},
         Cardinality(rows) >= MaxRows
  PROVE  /\ Capped(rows).to \in TimesOf(rows)
         /\ Capped(rows).rows = UpTo(rows, Capped(rows).to)
         /\ Capped(rows).rows # {}
         /\ Snug(Capped(rows).rows)
<1> DEFINE full == {t \in TimesOf(rows) : Cardinality(UpTo(rows, t)) >= MaxRows}
           edge == Min(full)
           trimmed == UpTo(rows, edge - 1)
           kept == IF trimmed # {} THEN trimmed ELSE UpTo(rows, edge)
           to == Max(TimesOf(kept))
<1>1. Capped(rows).rows = kept /\ Capped(rows).to = to
  BY DEF Capped
<1>2. full \in SUBSET Nat /\ full # {}
  BY UpToAll, TimesAre
<1>3. edge \in full /\ (\A t \in full : edge <= t) /\ edge \in Nat
  BY <1>2, MinIs
<1> HIDE DEF edge
<1>4. \A e \in rows : recorded[e] \in TimesOf(rows) /\ recorded[e] \in Nat
  BY TimesAre DEF TimesOf
<1>5. trimmed \subseteq rows /\ UpTo(rows, edge) \subseteq rows /\ kept \subseteq rows
  BY DEF UpTo
<1>6. kept # {}
  <2>1. PICK e \in rows : recorded[e] = edge
    BY <1>3 DEF TimesOf
  <2> QED
    BY <1>3, <2>1 DEF UpTo
<1>7. /\ to \in TimesOf(kept) /\ \A e \in kept : recorded[e] <= to
      /\ to \in Nat
  <2>1. to \in TimesOf(kept) /\ \A t \in TimesOf(kept) : to >= t
    BY <1>5, <1>6, TimesAre, MaxIs, Bounds
  <2>2. TimesOf(kept) \in SUBSET Nat
    BY <1>5, TimesAre
  <2>3. \A e \in kept : recorded[e] \in TimesOf(kept)
    BY DEF TimesOf
  <2> QED
    BY <2>1, <2>2, <2>3
<1>8. to \in TimesOf(rows)
  BY <1>5, <1>7 DEF TimesOf
<1>9. kept = UpTo(rows, to)
  <2>1. \A e \in rows : recorded[e] <= to => e \in kept
    <3>1. CASE trimmed # {}
      <4>1. to <= edge - 1
        BY <1>7, <3>1 DEF TimesOf, UpTo
      <4> QED
        BY <1>3, <1>4, <1>7, <3>1, <4>1 DEF UpTo
    <3>2. CASE trimmed = {}
      <4>1. to <= edge
        BY <1>7, <3>2 DEF TimesOf, UpTo
      <4> QED
        BY <1>3, <1>4, <1>7, <3>2, <4>1 DEF UpTo
    <3> QED
      BY <3>1, <3>2
  <2> QED
    BY <1>5, <1>7, <2>1 DEF UpTo
<1>10. Snug(kept)
  <2>1. CASE trimmed # {}
    <3> SUFFICES ASSUME Cardinality(kept) >= MaxRows PROVE FALSE
      BY <1>5, TimesAre, Bounds DEF Snug
    <3>1. to \in full
      BY <1>8, <1>9
    <3>2. to <= edge - 1
      BY <1>7, <2>1 DEF TimesOf, UpTo
    <3> QED
      BY <1>3, <1>7, <3>1, <3>2
  <2>2. CASE trimmed = {}
    <3>1. \A e \in kept : recorded[e] = edge
      BY <1>3, <1>4, <1>5, <2>2 DEF UpTo
    <3> QED
      BY <3>1 DEF Snug
  <2> QED
    BY <2>1, <2>2
<1> QED
  BY <1>1, <1>6, <1>8, <1>9, <1>10

(* A window that is read holds what is in its range, and is short or of    *)
(* one instant.                                                            *)
LEMMA Window ==
  ASSUME ChainTypeOK, NEW from \in Int, NEW to \in Int
  PROVE  /\ RowsIn(from, to).to \in Int /\ RowsIn(from, to).to <= to
         /\ RowsIn(from, to).rows = InRange(from, RowsIn(from, to).to)
         /\ Snug(RowsIn(from, to).rows)
<1> DEFINE rows == InRange(from, to)
<1>1. rows \in SUBSET DOMAIN recorded
  BY Shapes DEF InRange
<1>2. Cardinality(rows) \in Nat
  BY <1>1, TimesAre
<1>3. CASE Cardinality(rows) < MaxRows
  <2>1. RowsIn(from, to) = [rows |-> rows, to |-> to]
    BY <1>3 DEF RowsIn
  <2> QED
    BY <1>3, <2>1 DEF Snug
<1>4. CASE Cardinality(rows) >= MaxRows
  <2>1. RowsIn(from, to) = Capped(rows)
    BY <1>2, <1>4, Bounds DEF RowsIn
  <2>2. rows # {}
    BY <1>4, Bounds, FS_EmptySet
  <2>3. /\ Capped(rows).to \in TimesOf(rows)
        /\ Capped(rows).rows = UpTo(rows, Capped(rows).to)
        /\ Snug(Capped(rows).rows)
    BY <1>1, <1>4, <2>2, CappedWindow
  <2>4. Capped(rows).to \in Nat /\ Capped(rows).to <= to
    BY <1>1, <2>3, TimesAre DEF TimesOf, InRange
  <2>5. UpTo(rows, Capped(rows).to) = InRange(from, Capped(rows).to)
    <3>1. \A e \in log : recorded[e] \in Nat
      BY Shapes
    <3> QED
      BY <2>4, <3>1 DEF UpTo, InRange
  <2> QED
    BY <2>1, <2>3, <2>4, <2>5
<1> QED
  BY <1>2, <1>3, <1>4, Bounds

(* The same holds of the window to seal next, which ends by the cutoff.    *)
LEMMA NextWindowIs ==
  ASSUME ChainTypeOK, NEW from \in Int, NEW cutoff \in Int
  PROVE  /\ NextWindow(from, cutoff).to \in Int /\ NextWindow(from, cutoff).to <= cutoff
         /\ NextWindow(from, cutoff).rows = InRange(from, NextWindow(from, cutoff).to)
         /\ Snug(NextWindow(from, cutoff).rows)
<1> DEFINE first == RowsIn(from, DayAfter(from, cutoff))
           later == InRange(from, cutoff)
<1>1. \A n \in Int : DayAfter(n, cutoff) \in Int /\ DayAfter(n, cutoff) <= cutoff
  BY Bounds DEF DayAfter
<1>2. CASE first.rows = {} /\ later # {}
  <2> DEFINE day == DayAfter(Min(TimesOf(later)), cutoff)
  <2>1. later \in SUBSET DOMAIN recorded
    BY Shapes DEF InRange
  <2>2. Min(TimesOf(later)) \in Nat
    BY <1>2, <2>1, TimesAre, MinIs
  <2>3. day \in Int /\ day <= cutoff
    BY <1>1, <2>2
  <2>4. NextWindow(from, cutoff) = RowsIn(from, day)
    BY <1>2 DEF NextWindow
  <2> HIDE DEF day
  <2> QED
    BY <2>3, <2>4, Window
<1>3. CASE ~(first.rows = {} /\ later # {})
  <2>1. NextWindow(from, cutoff) = first
    BY <1>3 DEF NextWindow
  <2>2. DayAfter(from, cutoff) \in Int /\ DayAfter(from, cutoff) <= cutoff
    BY <1>1
  <2> QED
    BY <2>1, <2>2, Window
<1> QED
  BY <1>2, <1>3

(* A sealed stretch that still holds its rows is read as it was sealed:    *)
(* the cap, which read it short once, reads it whole now.                  *)
LEMMA ReadAgain ==
  ASSUME ChainTypeOK, NEW from \in Int, NEW to \in Int, Snug(InRange(from, to))
  PROVE  RowsIn(from, to).rows = InRange(from, to)
<1> DEFINE rows == InRange(from, to)
<1>1. rows \in SUBSET DOMAIN recorded
  BY Shapes DEF InRange
<1>2. Cardinality(rows) \in Nat
  BY <1>1, TimesAre
<1>3. CASE Cardinality(rows) < MaxRows
  BY <1>3 DEF RowsIn
<1>4. CASE Cardinality(rows) >= MaxRows
  <2>1. RowsIn(from, to) = Capped(rows)
    BY <1>2, <1>4, Bounds DEF RowsIn
  <2>2. rows # {}
    BY <1>4, Bounds, FS_EmptySet
  <2>3. /\ Capped(rows).to \in TimesOf(rows)
        /\ Capped(rows).rows = UpTo(rows, Capped(rows).to)
    BY <1>1, <1>4, <2>2, CappedWindow
  <2>4. \A e, f \in rows : recorded[e] = recorded[f]
    BY <1>2, <1>4, Bounds DEF Snug
  <2>5. \A e \in rows : recorded[e] \in Nat /\ recorded[e] = Capped(rows).to
    BY <1>1, <2>3, <2>4, Shapes DEF TimesOf
  <2>6. UpTo(rows, Capped(rows).to) = rows
    BY <2>5 DEF UpTo
  <2> QED
    BY <2>1, <2>3, <2>6
<1> QED
  BY <1>2, <1>3, <1>4, Bounds

-----------------------------------------------------------------------------
(* Types.                                                                  *)

(* What a run has read, field by field.                                    *)
LEMMA RunFields ==
  ASSUME ChainTypeOK, NEW r \in Runs
  PROVE  /\ doing[r] \in Doing
         /\ doing[r].at \in At /\ doing[r].started \in 0 .. MaxTime
         /\ doing[r].from \in Int /\ doing[r].prev \in Hash /\ doing[r].to \in Int
         /\ doing[r].rows \in SUBSET Entry /\ doing[r].seen \in Seq(Segment)
<1>1. doing[r] \in Doing
  BY DEF ChainTypeOK, Runs, Doing
<1> QED
  BY <1>1 DEF Doing

(* A run that has read nothing.                                            *)
LEMMA IdleIs ==
  /\ Idle \in Doing
  /\ \A at \in At, started \in 0 .. MaxTime :
       [Idle EXCEPT !.at = at, !.started = started] \in Doing
<1>1. <<>> \in Hash /\ <<>> \in Seq(Segment)
  BY EmptySeq DEF Hash
<1>2. 0 \in 0 .. MaxTime /\ 0 \in Int /\ {} \in SUBSET Entry
  BY Bounds
<1>3. Idle \in Doing
  BY <1>1, <1>2 DEF Idle, Doing, At
<1>4. ASSUME NEW at \in At, NEW started \in 0 .. MaxTime
      PROVE  [Idle EXCEPT !.at = at, !.started = started] \in Doing
  BY <1>3 DEF Doing
<1> QED
  BY <1>3, <1>4

(* A step of a run that changes none of the tables keeps the types.        *)
LEMMA GoTyped ==
  ASSUME ChainTypeOK, NEW r \in Runs, NEW to \in Doing, Go(r, to),
         UNCHANGED <<now, recorded, open, log, segments, truncated, deaths>>
  PROVE  ChainTypeOK'
<1>1. doing' \in [Runs -> Doing]
  BY DEF ChainTypeOK, Runs, Doing, Go
<1> QED
  BY <1>1 DEF ChainTypeOK, Runs, Doing

(* A stretch of segments is made of segments.                              *)
LEMMA Stretch ==
  ASSUME NEW chain \in Seq(Segment), NEW due \in DueFrom(chain)
  PROVE  /\ due \in Seq(Segment) /\ due # <<>>
         /\ \A i \in DOMAIN due : \E j \in DOMAIN chain : due[i] = chain[j]
<1>1. PICK i \in DOMAIN chain : due = SubSeq(chain, i, Len(chain))
  BY DEF DueFrom
<1>2. DOMAIN chain = 1 .. Len(chain) /\ Len(chain) \in Nat
  BY LenProperties
<1>3. \A j \in i .. Len(chain) : chain[j] \in Segment
  BY <1>1, <1>2, ElementOfSeq
<1>4. /\ due \in Seq(Segment) /\ Len(due) = Len(chain) - i + 1
      /\ \A j \in 1 .. Len(chain) - i + 1 : due[j] = chain[i + j - 1]
  BY <1>1, <1>2, <1>3, SubSeqProperties
<1>5. DOMAIN due = 1 .. Len(chain) - i + 1
  BY <1>4, LenProperties
<1>6. \A j \in DOMAIN due : i + j - 1 \in DOMAIN chain
  BY <1>1, <1>2, <1>5
<1>7. due # <<>>
  BY <1>1, <1>2, <1>4, EmptySeq
<1> QED
  BY <1>4, <1>5, <1>6, <1>7

(* So is what is left of one, and it goes on where the old one did.        *)
LEMMA Remainder ==
  ASSUME NEW chain \in Seq(Segment), chain # <<>>, NEW due \in DueFrom(Tail(chain))
  PROVE  /\ due \in Seq(Segment) /\ due # <<>>
         /\ \A i \in DOMAIN due : \E j \in DOMAIN chain : due[i] = chain[j]
<1>1. /\ Tail(chain) \in Seq(Segment) /\ Len(Tail(chain)) = Len(chain) - 1
      /\ \A i \in 1 .. Len(Tail(chain)) : Tail(chain)[i] = chain[i + 1]
  BY HeadTailProperties
<1>2. /\ due \in Seq(Segment) /\ due # <<>>
      /\ \A i \in DOMAIN due : \E j \in DOMAIN Tail(chain) : due[i] = Tail(chain)[j]
  BY <1>1, Stretch
<1>3. /\ DOMAIN chain = 1 .. Len(chain) /\ Len(chain) \in Nat
      /\ DOMAIN Tail(chain) = 1 .. Len(Tail(chain)) /\ Len(Tail(chain)) \in Nat
  BY <1>1, LenProperties
<1>4. \A j \in DOMAIN Tail(chain) : j + 1 \in DOMAIN chain /\ Tail(chain)[j] = chain[j + 1]
  BY <1>1, <1>3
<1> QED
  BY <1>2, <1>4

(* Where a run of the sealing starts: the end of the chain, or just before *)
(* the first entry.                                                        *)
LEMMA FirstEntry ==
  ASSUME ChainTypeOK, log # {}
  PROVE  Min(TimesOf(log)) - 1 \in Int /\ IsFirst(Min(TimesOf(log)) - 1)
<1>1. log \in SUBSET DOMAIN recorded
  BY Shapes
<1>2. TimesOf(log) \in SUBSET Nat /\ TimesOf(log) # {}
  BY <1>1, TimesAre
<1>3. Min(TimesOf(log)) \in TimesOf(log) /\ \A t \in TimesOf(log) : Min(TimesOf(log)) <= t
  BY <1>2, MinIs
<1>4. \A e \in log : recorded[e] \in TimesOf(log)
  BY DEF TimesOf
<1>5. PICK e \in log : recorded[e] = Min(TimesOf(log))
  BY <1>3 DEF TimesOf
<1> QED
  BY <1>2, <1>3, <1>4, <1>5 DEF IsFirst

(* The clock, a record and a commit keep the types.                        *)
LEMMA TypeTrail ==
  ASSUME ChainTypeOK, Record \/ (\E e \in open : Commit(e)) \/ Tick
  PROVE  ChainTypeOK'
<1>1. CASE Record
  <2>1. recorded \in Seq(1 .. MaxTime) /\ now \in 1 .. MaxTime /\ MaxEntries \in Nat
    BY ChainAssumption DEF ChainTypeOK
  <2>2. recorded' = Append(recorded, now) /\ Len(recorded) < MaxEntries
    BY <1>1 DEF Record
  <2>3. recorded' \in Seq(1 .. MaxTime) /\ Len(recorded') = Len(recorded) + 1
    BY <2>1, <2>2, AppendProperties
  <2>4. /\ DOMAIN recorded = 1 .. Len(recorded) /\ Len(recorded) \in Nat
        /\ DOMAIN recorded' = 1 .. Len(recorded')
    BY <2>1, <2>3, LenProperties
  <2>5. Len(recorded') \notin DOMAIN recorded /\ Len(recorded') \in DOMAIN recorded'
        /\ DOMAIN recorded \subseteq DOMAIN recorded' /\ Len(recorded') <= MaxEntries
    BY <2>1, <2>2, <2>3, <2>4
  <2> QED
    BY <1>1, <2>3, <2>5 DEF ChainTypeOK, Record
<1>2. CASE \E e \in open : Commit(e)
  BY <1>2 DEF ChainTypeOK, Commit
<1>3. CASE Tick
  BY <1>3, Bounds DEF ChainTypeOK, Tick
<1> QED
  BY <1>1, <1>2, <1>3

(* Sealing keeps the types.                                                *)
LEMMA TypeSeal ==
  ASSUME ChainTypeOK, NEW r \in Runs, StartChain(r) \/ Seal(r)
  PROVE  ChainTypeOK'
<1>0. /\ doing[r] \in Doing
      /\ doing[r].at \in At /\ doing[r].started \in 0 .. MaxTime /\ doing[r].started \in Int
      /\ doing[r].from \in Int /\ doing[r].prev \in Hash /\ doing[r].to \in Int
      /\ doing[r].rows \in SUBSET Entry /\ doing[r].seen \in Seq(Segment)
  BY RunFields, Bounds
<1>1. CASE StartChain(r)
  <2>1. [Idle EXCEPT !.at = "last", !.started = now] \in Doing
    <3>1. now \in 0 .. MaxTime
      BY DEF ChainTypeOK
    <3> QED
      BY <3>1, IdleIs DEF At
  <2> QED
    BY <1>1, <2>1, GoTyped DEF StartChain
<1>2. CASE SealLast(r)
  <2> DEFINE from == IF segments # <<>> THEN segments[Len(segments)].to
                                        ELSE Min(TimesOf(log)) - 1
             prev == IF segments # <<>> THEN HashOf(segments[Len(segments)]) ELSE <<>>
  <2>1. [Idle EXCEPT !.at = "segments", !.started = doing[r].started] \in Doing
    BY <1>0, IdleIs DEF At
  <2>2. segments # <<>> \/ log # {} => from \in Int
    <3>1. segments # <<>> => segments[Len(segments)] \in Segment
      BY Shapes
    <3> QED
      BY <3>1, SegmentShape, FirstEntry
  <2>3. prev \in Hash
    <3>1. segments # <<>> => segments[Len(segments)] \in Segment
      BY Shapes
    <3>2. <<>> \in Hash
      BY EmptySeq DEF Hash
    <3> QED
      BY <3>1, <3>2, SegmentShape
  <2> HIDE DEF from, prev
  <2>4. segments # <<>> \/ log # {} =>
          [doing[r] EXCEPT !.at = "window", !.from = from, !.prev = prev] \in Doing
    BY <1>0, <2>2, <2>3 DEF Doing, At
  <2>5. \/ Go(r, [Idle EXCEPT !.at = "segments", !.started = doing[r].started])
        \/ /\ segments # <<>> \/ log # {}
           /\ Go(r, [doing[r] EXCEPT !.at = "window", !.from = from, !.prev = prev])
    BY <1>2 DEF SealLast, from, prev
  <2>6. UNCHANGED <<now, recorded, open, log, segments, truncated, deaths>>
    BY <1>2 DEF SealLast
  <2> QED
    BY <2>1, <2>4, <2>5, <2>6, GoTyped
<1>3. CASE SealWindow(r)
  <2> DEFINE window == NextWindow(doing[r].from, Cutoff(doing[r].started))
  <2>1. Cutoff(doing[r].started) \in Int
    BY <1>0, Bounds DEF Cutoff
  <2>2. window.to \in Int /\ window.rows = InRange(doing[r].from, window.to)
    BY <1>0, <2>1, NextWindowIs
  <2>3. window.rows \in SUBSET Entry
    BY <2>2, Shapes DEF InRange
  <2> HIDE DEF window
  <2>4. [Idle EXCEPT !.at = "segments", !.started = doing[r].started] \in Doing
    BY <1>0, IdleIs DEF At
  <2>5. [doing[r] EXCEPT !.at = "insert", !.rows = window.rows, !.to = window.to] \in Doing
    BY <1>0, <2>2, <2>3 DEF Doing, At
  <2>6. /\ \/ Go(r, [Idle EXCEPT !.at = "segments", !.started = doing[r].started])
           \/ Go(r, [doing[r] EXCEPT !.at = "insert", !.rows = window.rows, !.to = window.to])
        /\ UNCHANGED <<now, recorded, open, log, segments, truncated, deaths>>
    BY <1>3 DEF SealWindow, window
  <2> QED
    BY <2>4, <2>5, <2>6, GoTyped
<1>4. CASE SealInsert(r)
  <2>1. CASE Unique(doing[r].from, doing[r].prev)
    <3> DEFINE new == [seq |-> NextSeq, from |-> doing[r].from, to |-> doing[r].to,
                       rows |-> doing[r].rows, prev |-> doing[r].prev]
    <3>1. NextSeq \in Nat
      <4>1. segments # <<>> => segments[Len(segments)] \in Segment
        BY Shapes
      <4> QED
        BY <4>1, SegmentShape DEF NextSeq
    <3>2. new \in Segment
      BY <1>0, <3>1 DEF Segment
    <3>3. segments' = Append(segments, new)
      BY <1>4, <2>1 DEF SealInsert
    <3>4. segments' \in Seq(Segment)
      BY <3>2, <3>3, AppendProperties DEF ChainTypeOK
    <3>5. \E to \in Doing : Go(r, to)
      <4>1. /\ [Idle EXCEPT !.at = "segments", !.started = doing[r].started] \in Doing
            /\ [Idle EXCEPT !.at = "last", !.started = doing[r].started] \in Doing
        BY <1>0, IdleIs DEF At
      <4> QED
        BY <1>4, <2>1, <4>1 DEF SealInsert
    <3>6. doing' \in [Runs -> Doing]
      BY <3>5 DEF ChainTypeOK, Runs, Doing, Go
    <3>7. UNCHANGED <<now, recorded, open, log, truncated, deaths>>
      BY <1>4 DEF SealInsert
    <3> QED
      BY <3>4, <3>6, <3>7 DEF ChainTypeOK, Runs, Doing
  <2>2. CASE ~Unique(doing[r].from, doing[r].prev)
    BY <1>4, <2>2, IdleIs, GoTyped DEF SealInsert, Stop
  <2> QED
    BY <2>1, <2>2
<1> QED
  BY <1>1, <1>2, <1>3, <1>4 DEF Seal

(* The next segment a verification is to check.                            *)
LEMMA NextCheckGoes ==
  ASSUME ChainTypeOK, NEW r \in Runs, doing[r].seen # <<>>, NextCheck(r)
  PROVE  \/ Go(r, Idle)
         \/ \E due \in DueFrom(Tail(doing[r].seen)) :
              /\ Go(r, [doing[r] EXCEPT !.at = "check", !.seen = due])
              /\ [doing[r] EXCEPT !.at = "check", !.seen = due] \in Doing
<1>1. CASE Len(doing[r].seen) = 1
  BY <1>1 DEF NextCheck, Stop
<1>2. CASE Len(doing[r].seen) # 1
  <2>1. PICK due \in DueFrom(Tail(doing[r].seen)) :
          Go(r, [doing[r] EXCEPT !.at = "check", !.seen = due])
    BY <1>2 DEF NextCheck
  <2>2. due \in Seq(Segment)
    BY RunFields, Remainder
  <2>3. [doing[r] EXCEPT !.at = "check", !.seen = due] \in Doing
    BY <2>2, RunFields DEF Doing, At
  <2> QED
    BY <2>1, <2>3
<1> QED
  BY <1>1, <1>2

(* The links of the chain, and which segment a verification checks first.  *)
LEMMA VerifyLinksGoes ==
  ASSUME ChainTypeOK, NEW r \in Runs, VerifyLinks(r)
  PROVE  \/ Go(r, Idle)
         \/ \E due \in DueFrom(doing[r].seen) :
              /\ Go(r, [doing[r] EXCEPT !.at = "check", !.seen = due])
              /\ [doing[r] EXCEPT !.at = "check", !.seen = due] \in Doing
<1>1. CASE doing[r].seen = <<>>
  BY <1>1 DEF VerifyLinks, Stop
<1>2. CASE doing[r].seen # <<>>
  <2>1. PICK due \in DueFrom(doing[r].seen) :
          Go(r, [doing[r] EXCEPT !.at = "check", !.seen = due])
    BY <1>2 DEF VerifyLinks
  <2>2. due \in Seq(Segment)
    BY RunFields, Stretch
  <2>3. [doing[r] EXCEPT !.at = "check", !.seen = due] \in Doing
    BY <2>2, RunFields DEF Doing, At
  <2> QED
    BY <2>1, <2>3
<1> QED
  BY <1>1, <1>2

(* Verifying keeps the types.                                              *)
LEMMA TypeVerify ==
  ASSUME ChainTypeOK, NEW r \in Runs, Verify(r),
         doing[r].at \in {"check", "mark"} => doing[r].seen # <<>>
  PROVE  ChainTypeOK'
<1>1. UNCHANGED <<now, recorded, open, log, segments, truncated, deaths>>
  BY DEF Verify, VerifySegments, VerifyLinks, VerifyCheck, VerifyMark
<1>2. Go(r, Idle) \/ \E to \in Doing : Go(r, to)
  <2>1. CASE VerifySegments(r)
    <3>1. [doing[r] EXCEPT !.at = "links", !.seen = segments] \in Doing
      BY RunFields DEF Doing, At, ChainTypeOK
    <3> QED
      BY <2>1, <3>1 DEF VerifySegments
  <2>2. CASE VerifyLinks(r)
    BY <2>2, VerifyLinksGoes
  <2>3. CASE VerifyCheck(r)
    <3>1. [doing[r] EXCEPT !.at = "mark"] \in Doing
      BY RunFields DEF Doing, At
    <3>2. doing[r].seen # <<>>
      BY <2>3 DEF VerifyCheck
    <3>3. Go(r, [doing[r] EXCEPT !.at = "mark"]) \/ NextCheck(r)
      BY <2>3 DEF VerifyCheck
    <3> QED
      BY <3>1, <3>2, <3>3, NextCheckGoes
  <2>4. CASE VerifyMark(r)
    <3>1. doing[r].seen # <<>>
      BY <2>4 DEF VerifyMark
    <3>2. Stop(r) \/ NextCheck(r)
      BY <2>4 DEF VerifyMark
    <3> QED
      BY <3>1, <3>2, NextCheckGoes DEF Stop
  <2> QED
    BY <2>1, <2>2, <2>3, <2>4 DEF Verify
<1> QED
  BY <1>1, <1>2, IdleIs, GoTyped

(* The cut of a purge.                                                     *)
LEMMA PurgeCutGoes ==
  ASSUME ChainTypeOK, NEW r \in Runs, PurgeCut(r)
  PROVE  LET boundary == Boundary(doing[r].started)
             past == {s \in Table : s.to <= boundary}
             plain == [doing[r] EXCEPT !.at = "entries", !.to = UnsealedBound(boundary)]
         IN  \/ past = {} /\ Go(r, plain) /\ plain \in Doing
             \/ \E cut \in Newest(past) :
                  LET till == [doing[r] EXCEPT !.at = "entries", !.seen = <<cut>>, !.to = cut.to]
                  IN  Go(r, till) /\ till \in Doing
<1> DEFINE boundary == Boundary(doing[r].started)
           past == {s \in Table : s.to <= boundary}
<1>1. CASE past = {}
  <2>1. UnsealedBound(boundary) \in Int
    BY Bounds, RunFields, Shapes, SegmentShape DEF UnsealedBound, Boundary
  <2>2. [doing[r] EXCEPT !.at = "entries", !.to = UnsealedBound(boundary)] \in Doing
    BY <2>1, RunFields DEF Doing, At
  <2> QED
    BY <1>1, <2>2 DEF PurgeCut
<1>2. CASE past # {}
  <2>1. PICK cut \in Newest(past) :
          Go(r, [doing[r] EXCEPT !.at = "entries", !.seen = <<cut>>, !.to = cut.to])
    BY <1>2 DEF PurgeCut
  <2>2. cut \in Segment
    BY <2>1, Shapes DEF Newest
  <2>3. cut.to \in Int /\ <<cut>> \in Seq(Segment)
    BY <2>2, SegmentShape
  <2>4. [doing[r] EXCEPT !.at = "entries", !.seen = <<cut>>, !.to = cut.to] \in Doing
    BY <2>3, RunFields DEF Doing, At
  <2> QED
    BY <2>1, <2>4
<1> QED
  BY <1>1, <1>2

(* Purging keeps the types.                                                *)
LEMMA TypePurge ==
  ASSUME ChainTypeOK, NEW r \in Runs, StartPurge(r) \/ Purge(r),
         doing[r].at \in {"truncate", "drop"} => doing[r].seen # <<>>
  PROVE  ChainTypeOK'
<1>0. doing[r] \in Doing /\ doing[r].seen \in Seq(Segment)
  BY RunFields
<1>1. CASE StartPurge(r)
  <2>1. now \in 0 .. MaxTime
    BY DEF ChainTypeOK
  <2>2. [Idle EXCEPT !.at = "cut", !.started = now] \in Doing
    BY <2>1, IdleIs DEF At
  <2> QED
    BY <1>1, <2>2, GoTyped DEF StartPurge
<1>2. CASE PurgeCut(r)
  <2>1. \E to \in Doing : Go(r, to)
    BY <1>2, PurgeCutGoes
  <2> QED
    BY <1>2, <2>1, GoTyped DEF PurgeCut
<1>3. CASE PurgeEntries(r)
  <2>1. CASE \E e \in Oldest(doing[r].to) : log' = log \ {e} /\ UNCHANGED doing
    BY <1>3, <2>1 DEF ChainTypeOK, PurgeEntries
  <2>2. CASE UNCHANGED log /\ (Stop(r) \/ Go(r, [doing[r] EXCEPT !.at = "truncate"]))
    <3>1. [doing[r] EXCEPT !.at = "truncate"] \in Doing
      BY <1>0 DEF Doing, At
    <3>2. UNCHANGED <<now, recorded, open, log, segments, truncated, deaths>>
      BY <1>3, <2>2 DEF PurgeEntries
    <3> QED
      BY <2>2, <3>1, <3>2, IdleIs, GoTyped DEF Stop
  <2> QED
    BY <1>3, <2>1, <2>2 DEF PurgeEntries
<1>4. CASE PurgeTruncate(r)
  <2>1. Head(doing[r].seen) \in Segment
    BY <1>0, <1>4, HeadTailProperties DEF PurgeTruncate
  <2>2. truncated' \subseteq Hash
    BY <1>4, <2>1, SegmentShape DEF PurgeTruncate, Explanation, ChainTypeOK
  <2>3. [doing[r] EXCEPT !.at = "drop"] \in Doing
    BY <1>0 DEF Doing, At
  <2>4. doing' \in [Runs -> Doing]
    BY <1>4, <2>3 DEF PurgeTruncate, Go, ChainTypeOK, Runs, Doing
  <2>5. UNCHANGED <<now, recorded, open, log, segments, deaths>>
    BY <1>4 DEF PurgeTruncate
  <2> QED
    BY <2>2, <2>4, <2>5 DEF ChainTypeOK, Runs, Doing
<1>5. CASE PurgeDrop(r)
  <2>1. PICK k \in 0 .. Len(segments) : segments' = SubSeq(segments, k + 1, Len(segments))
    BY <1>5 DEF PurgeDrop, UpToSeq
  <2>2. segments' \in Seq(Segment)
    <3>1. \A i \in k + 1 .. Len(segments) : segments[i] \in Segment
      BY Shapes
    <3> QED
      BY <2>1, <3>1, Shapes, SubSeqProperties
  <2>3. doing' \in [Runs -> Doing]
    BY <1>5, IdleIs DEF PurgeDrop, Stop, Go, ChainTypeOK, Runs, Doing
  <2>4. UNCHANGED <<now, recorded, open, log, truncated, deaths>>
    BY <1>5 DEF PurgeDrop
  <2> QED
    BY <2>2, <2>3, <2>4 DEF ChainTypeOK, Runs, Doing
<1> QED
  BY <1>1, <1>2, <1>3, <1>4, <1>5 DEF Purge

(* So does the death of a run.                                             *)
LEMMA TypeKilled ==
  ASSUME ChainTypeOK, NEW r \in Runs, Killed(r)
  PROVE  ChainTypeOK'
<1>1. deaths' \in 0 .. MaxDeaths
  <2>1. MaxDeaths \in Nat
    BY ChainAssumption
  <2>2. deaths \in 0 .. MaxDeaths /\ deaths < MaxDeaths /\ deaths' = deaths + 1
    BY DEF Killed, ChainTypeOK
  <2> QED
    BY <2>1, <2>2
<1>2. doing' \in [Runs -> Doing]
  BY IdleIs DEF Killed, Stop, Go, ChainTypeOK, Runs, Doing
<1> QED
  BY <1>1, <1>2 DEF Killed, ChainTypeOK, Runs, Doing

(* Every step keeps the types.                                             *)
LEMMA ChainTypeStep ==
  ASSUME ChainInv, [ChainNext]_chainVars
  PROVE  ChainTypeOK'
<1>1. ChainTypeOK
  BY DEF ChainInv
<1>2. ASSUME NEW r \in Runs
      PROVE  doing[r].at \in {"check", "mark", "truncate", "drop"} => doing[r].seen # <<>>
  <2>1. Known(doing[r])
    BY DEF ChainInv, InFlight
  <2> QED
    BY <2>1 DEF Known, Verifying, Purging
<1>3. ASSUME NEW r \in Runs, StartChain(r) \/ Seal(r) PROVE ChainTypeOK'
  BY <1>1, <1>3, TypeSeal
<1>4. ASSUME NEW r \in Runs, Verify(r) PROVE ChainTypeOK'
  BY <1>1, <1>2, <1>4, TypeVerify
<1>5. ASSUME NEW r \in Runs, StartPurge(r) \/ Purge(r) PROVE ChainTypeOK'
  BY <1>1, <1>2, <1>5, TypePurge
<1>6. ASSUME NEW r \in Runs, Killed(r) PROVE ChainTypeOK'
  BY <1>1, <1>6, TypeKilled
<1>7. CASE UNCHANGED chainVars
  BY <1>1, <1>7 DEF chainVars, ChainTypeOK
<1> QED
  BY <1>1, <1>3, <1>4, <1>5, <1>6, <1>7, TypeTrail DEF ChainNext, Runs

-----------------------------------------------------------------------------
(* Steps that neither seal nor drop a segment.                             *)

(* What such a step may do: let time pass, record, commit what the lag has *)
(* not passed, delete what is past the retention, account for a cut.       *)
Ongoing ==
  /\ now' \in Nat /\ now' >= now
  /\ segments' = segments /\ truncated \subseteq truncated'
  /\ \A e \in DOMAIN recorded : e \in DOMAIN recorded' /\ recorded'[e] = recorded[e]
  /\ \A s \in Table : s.to > now - Retention => InRange(s.from, s.to)' = InRange(s.from, s.to)
  /\ \A from, to \in Int :
       from >= now - Retention /\ to <= now - Lag => InRange(from, to)' = InRange(from, to)
  /\ \A to \in Int :
       to <= now - Retention /\ InRange(0, to) = {} => InRange(0, to)' = {}
  /\ \A from \in Int :
       segments = <<>> /\ from < now - Lag /\ IsFirst(from) => IsFirst(from)'

(* Rows recorded once stay short or of one instant.                        *)
LEMMA SnugStays ==
  ASSUME \A e \in DOMAIN recorded : e \in DOMAIN recorded' /\ recorded'[e] = recorded[e],
         NEW rows \in SUBSET DOMAIN recorded, Snug(rows)
  PROVE  Snug(rows)'
BY DEF Snug

(* The chain stays whole under such a step.                                *)
LEMMA ChainGoesOn ==
  ASSUME ChainInv, Ongoing
  PROVE  Chain'
<1>1. ChainTypeOK /\ Chain
  BY DEF ChainInv
<1>2. segments' = segments /\ Table' = Table /\ now \in Nat /\ now' \in Nat /\ now' >= now
  BY <1>1, Shapes DEF Ongoing, Table
<1>3. Joined' /\ Ordered'
  BY <1>1, <1>2 DEF Chain, Joined, Ordered, HashOf
<1>4. ASSUME NEW s \in Table PROVE WellSealed(s)'
  <2>1. WellSealed(s) /\ s.from \in Int /\ s.to \in Int
    BY <1>1, Shapes, SegmentShape DEF Chain
  <2>2. Snug(s.rows)'
    BY <2>1, SnugStays DEF WellSealed, Ongoing
  <2>3. s.to <= now' - Lag
    BY <1>2, <2>1, Bounds DEF WellSealed
  <2>4. \A e \in s.rows : e \in DOMAIN recorded' /\ s.from < recorded'[e] /\ recorded'[e] <= s.to
    BY <2>1 DEF WellSealed, Ongoing
  <2> QED
    BY <2>1, <2>2, <2>3, <2>4 DEF WellSealed
<1>5. ASSUME NEW s \in Table, s.to > now' - Retention PROVE InRange(s.from, s.to)' = s.rows
  <2>1. s.to > now - Retention
    BY <1>1, <1>2, <1>5, Shapes, SegmentShape, Bounds
  <2> QED
    BY <1>1, <1>5, <2>1 DEF Ongoing, Chain, SealedForGood
<1>6. SealedForGood'
  BY <1>2, <1>5 DEF SealedForGood
<1>7. (segments # <<>> => FirstLinked(segments[1]))'
  BY <1>1, <1>2 DEF Chain, FirstLinked, Ongoing
<1> QED
  BY <1>2, <1>3, <1>4, <1>6, <1>7 DEF Chain

(* How far back a window to seal can begin.                                *)
LEMMA WindowIsRecent ==
  ASSUME ChainTypeOK, NEW mine \in Doing, Started(mine), Sealing(mine),
         mine.at \in {"window", "insert"}
  PROVE  /\ mine.from \in Int /\ mine.from > now - Retention /\ mine.from < now - Lag
         /\ mine.to \in Int
         /\ mine.at = "insert" => mine.to <= now - Lag
<1>1. mine.from \in Int /\ mine.to \in Int /\ mine.started \in Int /\ mine.at # "idle"
  BY Bounds DEF Doing
<1>2. now - RunTime < mine.started /\ mine.started <= now
  BY <1>1 DEF Started
<1>3. mine.from + 1 > mine.started - (Retention - RunTime) /\ mine.from < mine.started - Lag
  BY DEF Sealing
<1>4. mine.at = "insert" => mine.to <= mine.started - Lag
  BY DEF Sealing
<1>5. /\ now \in Nat /\ RunTime \in Nat /\ Retention \in Nat /\ Lag \in Nat
      /\ Retention > RunTime + Lag
  BY Shapes, Bounds
<1>6. mine.from > now - Retention
  BY <1>1, <1>2, <1>3, <1>5
<1>7. mine.from < now - Lag
  BY <1>1, <1>2, <1>3, <1>5
<1>8. mine.at = "insert" => mine.to <= now - Lag
  BY <1>1, <1>2, <1>4, <1>5
<1> QED
  BY <1>1, <1>6, <1>7, <1>8

(* What a run knows stays true under such a step.                          *)
LEMMA KnownGoesOn ==
  ASSUME ChainInv, Ongoing, NEW mine \in Doing, Known(mine), Started(mine)'
  PROVE  Known(mine)'
<1>1. ChainTypeOK /\ Chain
  BY DEF ChainInv
<1>2. segments' = segments /\ Table' = Table /\ now \in Nat /\ now' \in Nat /\ now' >= now
  BY <1>1, Shapes DEF Ongoing, Table
<1>3. mine.from \in Int /\ mine.to \in Int /\ mine.started \in Int /\ mine.seen \in Seq(Segment)
  BY Bounds DEF Doing
<1>4. Sealing(mine)'
  <2> SUFFICES ASSUME mine.at \in {"window", "insert"}
               PROVE  /\ Follows(mine.from, mine.prev)' \/ Taken(mine.from)'
                      /\ mine.at = "insert" =>
                           mine.rows = InRange(mine.from, mine.to)' /\ Snug(mine.rows)'
    BY DEF Known, Sealing
  <2>1. Started(mine) /\ Sealing(mine)
    BY DEF Known
  <2>2. /\ mine.from > now - Retention /\ mine.from < now - Lag
        /\ mine.at = "insert" => mine.to <= now - Lag
    BY <1>1, <2>1, WindowIsRecent
  <2>3. Taken(mine.from) => Taken(mine.from)'
    BY <1>2 DEF Taken
  <2>4. Follows(mine.from, mine.prev) => Follows(mine.from, mine.prev)'
    <3>1. segments = <<>> /\ IsFirst(mine.from) => IsFirst(mine.from)'
      BY <1>3, <2>2 DEF Ongoing
    <3> QED
      BY <1>2, <3>1 DEF Follows, HashOf, Tip
  <2>5. ASSUME mine.at = "insert"
        PROVE  mine.rows = InRange(mine.from, mine.to)' /\ Snug(mine.rows)'
    <3>1. mine.rows = InRange(mine.from, mine.to) /\ Snug(mine.rows)
      BY <2>1, <2>5 DEF Sealing
    <3>2. InRange(mine.from, mine.to)' = InRange(mine.from, mine.to)
      <4>1. mine.from >= now - Retention
        BY <1>2, <1>3, <2>2, Bounds
      <4> QED
        BY <1>3, <2>2, <2>5, <4>1 DEF Ongoing
    <3>3. mine.rows \in SUBSET DOMAIN recorded
      BY <1>1, <3>1, Shapes DEF InRange
    <3> QED
      BY <3>1, <3>2, <3>3, SnugStays DEF Ongoing
  <2> QED
    BY <2>1, <2>3, <2>4, <2>5 DEF Sealing
<1>5. Verifying(mine)'
  <2> SUFFICES ASSUME mine.at \in {"links", "check", "mark"}
               PROVE  /\ \A i \in DOMAIN mine.seen :
                           mine.seen[i] \in Table' \/ mine.seen[i].to <= now' - Retention
                      /\ mine.at = "links" => Linked(mine.seen)'
                      /\ mine.at # "links" => mine.seen # <<>>
    BY DEF Verifying
  <2>1. Verifying(mine)
    BY DEF Known
  <2>2. ASSUME NEW i \in DOMAIN mine.seen
        PROVE  mine.seen[i] \in Table' \/ mine.seen[i].to <= now' - Retention
    <3>1. mine.seen[i] \in Segment
      BY <1>3, LenProperties, ElementOfSeq
    <3>2. mine.seen[i].to \in Int
      BY <3>1, SegmentShape
    <3> QED
      BY <1>2, <2>1, <3>2, Bounds DEF Verifying
  <2>3. mine.at = "links" => Linked(mine.seen)'
    <3>1. mine.at = "links" => Linked(mine.seen)
      BY <2>1 DEF Verifying
    <3> QED
      BY <3>1 DEF Linked, FirstLinked, HashOf, Ongoing
  <2> QED
    BY <2>1, <2>2, <2>3 DEF Verifying
<1>6. Purging(mine)'
  <2>1. Purging(mine) /\ Started(mine)
    BY DEF Known
  <2>2. mine.at \in {"truncate", "drop"} => InRange(0, mine.to)' = {}
    <3> SUFFICES ASSUME mine.at \in {"truncate", "drop"} PROVE InRange(0, mine.to)' = {}
      OBVIOUS
    <3>1. mine.to <= mine.started - Retention /\ mine.started <= now
      BY <2>1 DEF Purging, Started
    <3>2. mine.to <= now - Retention
      BY <1>2, <1>3, <3>1, Bounds
    <3> QED
      BY <1>3, <2>1, <3>2 DEF Ongoing, Purging
  <2>3. \A cut : CutHolds(cut) => CutHolds(cut)'
    BY <1>2 DEF CutHolds, Tip
  <2>4. mine.at = "drop" => HashOf(Head(mine.seen)) \in truncated'
    BY <2>1 DEF Purging, Ongoing
  <2> QED
    BY <1>2, <2>1, <2>2, <2>3, <2>4 DEF Purging, HashOf
<1> QED
  BY <1>4, <1>5, <1>6 DEF Known

-----------------------------------------------------------------------------
(* Such steps, one by one.                                                 *)

(* The run that takes a step and the others, which go on as they were.     *)
LEMMA FlightAfter ==
  ASSUME ChainTypeOK, NEW r \in Runs, NEW to, Go(r, to),
         NEW mine, mine \in InFlight'
  PROVE  mine = to \/ mine \in InFlight
BY DEF InFlight, Go, ChainTypeOK, Runs

(* A step of a run that changes none of the tables: what it comes to know  *)
(* has to be shown, nothing else.                                          *)
LEMMA QuietStep ==
  ASSUME ChainInv, NEW r \in Runs, NEW to \in Doing, Go(r, to), Known(to),
         UNCHANGED <<now, recorded, open, log, segments, truncated>>, ChainTypeOK'
  PROVE  ChainInv'
<1>1. ChainTypeOK /\ Clock
  BY DEF ChainInv
<1>2. Ongoing
  BY <1>1, Shapes DEF Ongoing, InRange, IsFirst
<1>3. Clock'
  BY <1>1 DEF Clock, Sealed, Table, Fresh, Tip
<1>4. ASSUME NEW mine, mine \in InFlight' PROVE Known(mine)'
  <2>1. mine \in Doing /\ Known(mine)
    <3>1. mine = to \/ mine \in InFlight
      BY <1>1, <1>4, FlightAfter
    <3> QED
      BY <1>1, <3>1, RunFields DEF ChainInv, InFlight
  <2>2. Started(mine)'
    BY <2>1 DEF Known, Started
  <2> QED
    BY <1>2, <2>1, <2>2, KnownGoesOn
<1> QED
  BY <1>2, <1>3, <1>4, ChainGoesOn DEF ChainInv

(* A run that has read nothing yet knows nothing that could go wrong.      *)
LEMMA KnownBlank ==
  ASSUME ChainTypeOK
  PROVE  /\ Known(Idle)
         /\ \A at \in {"last", "segments", "cut"}, started \in 0 .. MaxTime :
              now - RunTime < started /\ started <= now =>
                /\ [Idle EXCEPT !.at = at, !.started = started] \in Doing
                /\ Known([Idle EXCEPT !.at = at, !.started = started])
<1>1. Known(Idle)
  BY DEF Idle, Known, Started, Sealing, Verifying, Purging
<1>2. ASSUME NEW at \in {"last", "segments", "cut"}, NEW started \in 0 .. MaxTime,
             now - RunTime < started /\ started <= now
      PROVE  Known([Idle EXCEPT !.at = at, !.started = started])
  <2> DEFINE blank == [Idle EXCEPT !.at = at, !.started = started]
  <2>1. blank.at = at /\ blank.started = started /\ blank.seen = <<>>
    BY DEF Idle
  <2> HIDE DEF blank
  <2>2. Started(blank) /\ Sealing(blank) /\ Verifying(blank) /\ Purging(blank)
    BY <1>2, <2>1 DEF Started, Sealing, Verifying, Purging
  <2> QED
    BY <2>2 DEF Known, blank
<1>3. {"last", "segments", "cut"} \subseteq At
  BY DEF At
<1> QED
  BY <1>1, <1>2, <1>3, IdleIs

(* A run that is under way, or begins now, goes on in time.                *)
LEMMA Timely ==
  ASSUME ChainInv, NEW r \in Runs
  PROVE  /\ now \in 0 .. MaxTime /\ now - RunTime < now /\ now <= now
         /\ doing[r] \in Doing /\ Known(doing[r])
         /\ doing[r].started \in 0 .. MaxTime
         /\ doing[r].at # "idle" => now - RunTime < doing[r].started /\ doing[r].started <= now
<1>1. ChainTypeOK /\ Known(doing[r])
  BY DEF ChainInv, InFlight
<1>2. now \in 0 .. MaxTime /\ now - RunTime < now /\ now <= now
  BY <1>1, Bounds DEF ChainTypeOK
<1> QED
  BY <1>1, <1>2, RunFields DEF Known, Started

(* A run begins, dies or stops.                                            *)
LEMMA BeginStep ==
  ASSUME ChainInv, NEW r \in Runs, StartChain(r) \/ StartPurge(r) \/ Killed(r), ChainTypeOK'
  PROVE  ChainInv'
<1>1. UNCHANGED <<now, recorded, open, log, segments, truncated>>
  BY DEF StartChain, StartPurge, Killed
<1>2. \E to \in Doing : Go(r, to) /\ Known(to)
  <2>1. CASE StartChain(r)
    <3>1. Go(r, [Idle EXCEPT !.at = "last", !.started = now])
      BY <2>1 DEF StartChain
    <3>2. /\ [Idle EXCEPT !.at = "last", !.started = now] \in Doing
          /\ Known([Idle EXCEPT !.at = "last", !.started = now])
      BY Timely, KnownBlank DEF ChainInv
    <3> QED
      BY <3>1, <3>2
  <2>2. CASE StartPurge(r)
    <3>1. Go(r, [Idle EXCEPT !.at = "cut", !.started = now])
      BY <2>2 DEF StartPurge
    <3>2. /\ [Idle EXCEPT !.at = "cut", !.started = now] \in Doing
          /\ Known([Idle EXCEPT !.at = "cut", !.started = now])
      BY Timely, KnownBlank DEF ChainInv
    <3> QED
      BY <3>1, <3>2
  <2>3. CASE Killed(r)
    BY <2>3, IdleIs, KnownBlank DEF Killed, Stop, ChainInv
  <2> QED
    BY <2>1, <2>2, <2>3
<1> QED
  BY <1>1, <1>2, QuietStep

(* seal() reads where the chain ends.                                      *)
LEMMA SealLastStep ==
  ASSUME ChainInv, NEW r \in Runs, SealLast(r), ChainTypeOK'
  PROVE  ChainInv'
<1> DEFINE from == IF segments # <<>> THEN segments[Len(segments)].to
                                      ELSE Min(TimesOf(log)) - 1
           prev == IF segments # <<>> THEN HashOf(segments[Len(segments)]) ELSE <<>>
           verify == [Idle EXCEPT !.at = "segments", !.started = doing[r].started]
           seal == [doing[r] EXCEPT !.at = "window", !.from = from, !.prev = prev]
<1>0. ChainTypeOK /\ Clock /\ Chain /\ doing[r].at = "last"
  BY DEF ChainInv, SealLast
<1>1. UNCHANGED <<now, recorded, open, log, segments, truncated>>
  BY DEF SealLast
<1>2. CASE Go(r, verify)
  <2>1. verify \in Doing /\ Known(verify)
    BY <1>0, Timely, KnownBlank
  <2> QED
    BY <1>1, <1>2, <2>1, QuietStep
<1>3. CASE /\ segments # <<>> \/ log # {}
           /\ from < Cutoff(doing[r].started)
           /\ Go(r, seal)
  <2>1. from \in Int /\ prev \in Hash
    <3>1. segments # <<>> => segments[Len(segments)] \in Segment
      BY <1>0, Shapes
    <3>2. <<>> \in Hash
      BY EmptySeq DEF Hash
    <3> QED
      BY <1>0, <1>3, <3>1, <3>2, SegmentShape, FirstEntry
  <2>2. Follows(from, prev)
    BY <1>0, <1>3, FirstEntry DEF Follows, Tip
  <2>3. Fresh(from + 1)
    <3>1. CASE segments # <<>>
      <4>1. Fresh(from)
        BY <1>0, <3>1 DEF Clock, Tip
      <4> QED
        BY <1>0, <2>1, <4>1, Shapes, Bounds DEF Fresh
    <3>2. CASE segments = <<>>
      <4>1. IsFirst(from)
        BY <2>2, <3>2 DEF Follows
      <4>2. PICK e \in log : recorded[e] = from + 1
        BY <4>1 DEF IsFirst
      <4>3. Sealed = {}
        BY <3>2 DEF Sealed, Table
      <4> QED
        BY <1>0, <4>2, <4>3 DEF Clock
    <3> QED
      BY <3>1, <3>2
  <2> HIDE DEF from, prev
  <2>4. seal \in Doing
    BY <1>0, <2>1, RunFields DEF Doing, At
  <2>5. /\ seal.at = "window" /\ seal.started = doing[r].started /\ seal.from = from
        /\ seal.prev = prev /\ doing[r].started \in Int
    BY Timely, <1>0, Bounds, RunFields DEF Doing
  <2> HIDE DEF seal
  <2>6. now - RunTime < seal.started /\ seal.started <= now
    BY <1>0, <2>5, Timely
  <2>7. seal.from < seal.started - Lag
    BY <1>3, <2>5 DEF Cutoff
  <2>8. seal.from + 1 > seal.started - (Retention - RunTime)
    BY <1>0, <2>1, <2>3, <2>5, <2>6, Shapes, Bounds DEF Fresh
  <2>9. Known(seal)
    BY <2>2, <2>5, <2>6, <2>7, <2>8 DEF Known, Started, Sealing, Verifying, Purging
  <2> QED
    BY <1>1, <1>3, <2>4, <2>9, QuietStep DEF seal
<1>4. from < Cutoff(doing[r].started) \/ from >= Cutoff(doing[r].started)
      \/ (segments = <<>> /\ log = {})
  <2>1. segments # <<>> => segments[Len(segments)] \in Segment
    BY <1>0, Shapes
  <2>2. segments # <<>> \/ log # {} => from \in Int
    BY <1>0, <2>1, SegmentShape, FirstEntry
  <2>3. Cutoff(doing[r].started) \in Int
    BY Timely, Bounds DEF Cutoff
  <2> HIDE DEF from
  <2> QED
    BY <2>2, <2>3
<1> QED
  BY <1>2, <1>3, <1>4 DEF SealLast

(* seal() reads the window after it.                                       *)
LEMMA SealWindowStep ==
  ASSUME ChainInv, NEW r \in Runs, SealWindow(r), ChainTypeOK'
  PROVE  ChainInv'
<1> DEFINE window == NextWindow(doing[r].from, Cutoff(doing[r].started))
           verify == [Idle EXCEPT !.at = "segments", !.started = doing[r].started]
           seal == [doing[r] EXCEPT !.at = "insert", !.rows = window.rows, !.to = window.to]
<1>0. ChainTypeOK /\ Clock /\ Chain /\ doing[r].at = "window" /\ Known(doing[r])
  BY Timely DEF ChainInv, SealWindow
<1>1. UNCHANGED <<now, recorded, open, log, segments, truncated>>
  BY DEF SealWindow
<1>2. CASE Go(r, verify)
  <2>1. verify \in Doing /\ Known(verify)
    BY <1>0, Timely, KnownBlank
  <2> QED
    BY <1>1, <1>2, <2>1, QuietStep
<1>3. CASE window.rows # {} /\ Go(r, seal)
  <2>1. /\ doing[r].from \in Int /\ doing[r].started \in Int
        /\ Cutoff(doing[r].started) = doing[r].started - Lag /\ Cutoff(doing[r].started) \in Int
    BY <1>0, RunFields, Bounds DEF Cutoff
  <2>2. /\ window.to \in Int /\ window.to <= doing[r].started - Lag
        /\ window.rows = InRange(doing[r].from, window.to) /\ Snug(window.rows)
    BY <1>0, <2>1, NextWindowIs
  <2> HIDE DEF window
  <2>3. doing[r].from < window.to
    <3>1. PICK e \in log : doing[r].from < recorded[e] /\ recorded[e] <= window.to
      BY <1>3, <2>2 DEF InRange
    <3>2. recorded[e] \in Nat
      BY <1>0, Shapes
    <3> QED
      BY <2>1, <2>2, <3>1, <3>2
  <2>4. window.rows \in SUBSET Entry
    BY <1>0, <2>2, Shapes DEF InRange
  <2>5. seal \in Doing
    BY <1>0, <2>2, <2>4, RunFields DEF Doing, At
  <2>6. /\ seal.at = "insert" /\ seal.started = doing[r].started /\ seal.from = doing[r].from
        /\ seal.prev = doing[r].prev /\ seal.rows = window.rows /\ seal.to = window.to
    BY <1>0, RunFields DEF Doing
  <2> HIDE DEF seal
  <2>7. Started(seal) /\ Verifying(seal) /\ Purging(seal)
    BY <1>0, <2>6 DEF Known, Started, Verifying, Purging
  <2>8. Sealing(seal)
    BY <1>0, <1>3, <2>2, <2>3, <2>6 DEF Known, Sealing
  <2>9. Known(seal)
    BY <2>7, <2>8 DEF Known
  <2> QED
    BY <1>1, <1>3, <2>5, <2>9, QuietStep DEF seal
<1> QED
  BY <1>2, <1>3 DEF SealWindow

(* A verification goes on with segments it has read.                       *)
LEMMA SeenOn ==
  ASSUME ChainInv, NEW r \in Runs, doing[r].at \in {"links", "check", "mark"},
         NEW due \in Seq(Segment), due # <<>>,
         \A i \in DOMAIN due : \E j \in DOMAIN doing[r].seen : due[i] = doing[r].seen[j]
  PROVE  Known([doing[r] EXCEPT !.at = "check", !.seen = due])
<1> DEFINE on == [doing[r] EXCEPT !.at = "check", !.seen = due]
<1>1. Known(doing[r]) /\ doing[r] \in Doing
  BY Timely
<1>2. on.at = "check" /\ on.seen = due /\ on.started = doing[r].started
  BY <1>1 DEF Doing
<1> HIDE DEF on
<1>3. Started(on) /\ Sealing(on) /\ Purging(on)
  BY <1>1, <1>2 DEF Known, Started, Sealing, Purging
<1>4. Verifying(on)
  BY <1>1, <1>2 DEF Known, Verifying
<1> QED
  BY <1>3, <1>4 DEF Known, on

(* verify() reads the segments, their links and the first it is to check.  *)
LEMMA VerifyStep ==
  ASSUME ChainInv, NEW r \in Runs, Verify(r), ChainTypeOK'
  PROVE  ChainInv'
<1>0. ChainTypeOK /\ Chain /\ Known(doing[r]) /\ doing[r] \in Doing /\ doing[r].seen \in Seq(Segment)
  BY Timely, RunFields DEF ChainInv
<1>1. UNCHANGED <<now, recorded, open, log, segments, truncated>>
  BY DEF Verify, VerifySegments, VerifyLinks, VerifyCheck, VerifyMark
<1>2. Idle \in Doing /\ Known(Idle)
  BY <1>0, IdleIs, KnownBlank
<1>3. CASE VerifySegments(r)
  <2> DEFINE read == [doing[r] EXCEPT !.at = "links", !.seen = segments]
  <2>1. read \in Doing /\ read.at = "links" /\ read.seen = segments /\ read.started = doing[r].started
    BY <1>0 DEF Doing, At, ChainTypeOK
  <2>2. Go(r, read) /\ doing[r].at = "segments"
    BY <1>3 DEF VerifySegments
  <2> HIDE DEF read
  <2>3. Started(read) /\ Sealing(read) /\ Purging(read)
    BY <1>0, <2>1, <2>2 DEF Known, Started, Sealing, Purging
  <2>4. Linked(segments)
    BY <1>0 DEF Chain, Joined, Linked
  <2>5. Verifying(read)
    BY <2>1, <2>4 DEF Verifying, Table
  <2> QED
    BY <1>1, <2>1, <2>2, <2>3, <2>5, QuietStep DEF Known
<1>4. ASSUME doing[r].at \in {"links", "check", "mark"},
             NEW due \in Seq(Segment), due # <<>>,
             \A i \in DOMAIN due : \E j \in DOMAIN doing[r].seen : due[i] = doing[r].seen[j],
             Go(r, [doing[r] EXCEPT !.at = "check", !.seen = due])
      PROVE  ChainInv'
  <2>1. Known([doing[r] EXCEPT !.at = "check", !.seen = due])
    BY <1>4, SeenOn
  <2>2. [doing[r] EXCEPT !.at = "check", !.seen = due] \in Doing
    BY <1>0 DEF Doing, At
  <2> QED
    BY <1>1, <1>4, <2>1, <2>2, QuietStep
<1>5. CASE VerifyLinks(r)
  <2>1. CASE Go(r, Idle)
    BY <1>1, <1>2, <2>1, QuietStep
  <2>2. CASE \E due \in DueFrom(doing[r].seen) :
               Go(r, [doing[r] EXCEPT !.at = "check", !.seen = due])
    <3>1. PICK due \in DueFrom(doing[r].seen) :
            Go(r, [doing[r] EXCEPT !.at = "check", !.seen = due])
      BY <2>2
    <3>2. /\ due \in Seq(Segment) /\ due # <<>>
          /\ \A i \in DOMAIN due : \E j \in DOMAIN doing[r].seen : due[i] = doing[r].seen[j]
      BY <1>0, Stretch
    <3> QED
      BY <1>4, <1>5, <3>1, <3>2 DEF VerifyLinks
  <2> QED
    BY <1>0, <1>5, <2>1, <2>2, VerifyLinksGoes
<1>6. ASSUME doing[r].at \in {"check", "mark"}, NextCheck(r) PROVE ChainInv'
  <2>1. doing[r].seen # <<>>
    BY <1>0, <1>6 DEF Known, Verifying
  <2>2. CASE Go(r, Idle)
    BY <1>1, <1>2, <2>2, QuietStep
  <2>3. CASE \E due \in DueFrom(Tail(doing[r].seen)) :
               Go(r, [doing[r] EXCEPT !.at = "check", !.seen = due])
    <3>1. PICK due \in DueFrom(Tail(doing[r].seen)) :
            Go(r, [doing[r] EXCEPT !.at = "check", !.seen = due])
      BY <2>3
    <3>2. /\ due \in Seq(Segment) /\ due # <<>>
          /\ \A i \in DOMAIN due : \E j \in DOMAIN doing[r].seen : due[i] = doing[r].seen[j]
      BY <1>0, <2>1, Remainder
    <3> QED
      BY <1>4, <1>6, <3>1, <3>2
  <2> QED
    BY <1>0, <1>6, <2>1, <2>2, <2>3, NextCheckGoes
<1>7. CASE VerifyCheck(r)
  <2> DEFINE mark == [doing[r] EXCEPT !.at = "mark"]
  <2>1. CASE Go(r, mark)
    <3>1. mark \in Doing /\ mark.at = "mark" /\ mark.seen = doing[r].seen
          /\ mark.started = doing[r].started
      BY <1>0 DEF Doing, At
    <3>2. doing[r].at = "check"
      BY <1>7 DEF VerifyCheck
    <3> HIDE DEF mark
    <3>3. Known(mark)
      BY <1>0, <3>1, <3>2 DEF Known, Started, Sealing, Verifying, Purging
    <3> QED
      BY <1>1, <2>1, <3>1, <3>3, QuietStep
  <2>2. CASE NextCheck(r)
    BY <1>6, <1>7, <2>2 DEF VerifyCheck
  <2> QED
    BY <1>7, <2>1, <2>2 DEF VerifyCheck
<1>8. CASE VerifyMark(r)
  <2>1. CASE Stop(r)
    BY <1>1, <1>2, <2>1, QuietStep DEF Stop
  <2>2. CASE NextCheck(r)
    BY <1>6, <1>8, <2>2 DEF VerifyMark
  <2> QED
    BY <1>8, <2>1, <2>2 DEF VerifyMark
<1> QED
  BY <1>3, <1>5, <1>7, <1>8 DEF Verify

(* Of two segments the later one begins where the earlier has ended, and   *)
(* no two have the same seq.                                               *)
LEMMA InOrder ==
  ASSUME ChainTypeOK, Chain, NEW s \in Table, NEW t \in Table
  PROVE  /\ s.seq < t.seq => s.to <= t.from
         /\ s.seq = t.seq => s = t
         /\ s.from < s.to
         /\ s.seq \in Nat /\ s.from \in Int /\ s.to \in Int
         /\ t.seq \in Nat /\ t.from \in Int /\ t.to \in Int
<1>1. PICK i \in DOMAIN segments : s = segments[i]
  BY DEF Table
<1>2. PICK j \in DOMAIN segments : t = segments[j]
  BY DEF Table
<1>3. s \in Segment /\ t \in Segment
  BY Shapes
<1>4. /\ s.seq \in Nat /\ s.from \in Int /\ s.to \in Int
      /\ t.seq \in Nat /\ t.from \in Int /\ t.to \in Int
  BY <1>3, SegmentShape
<1>5. i \in Nat /\ j \in Nat
  BY Shapes
<1>6. i < j \/ i = j \/ j < i
  BY <1>5
<1>7. i < j => s.seq < t.seq /\ s.to <= t.from
  BY <1>1, <1>2 DEF Chain, Ordered
<1>8. j < i => t.seq < s.seq
  BY <1>1, <1>2 DEF Chain, Ordered
<1>9. s.from < s.to
  BY DEF Chain, WellSealed
<1> QED
  BY <1>1, <1>2, <1>4, <1>6, <1>7, <1>8, <1>9

(* The newest segment has the greatest seq, the first one begins first.    *)
LEMMA Ends ==
  ASSUME ChainTypeOK, Chain, NEW s \in Table
  PROVE  /\ segments # <<>> /\ Tip \in Table /\ segments[1] \in Table
         /\ s.seq <= Tip.seq /\ segments[1].from <= s.from
         /\ s.to <= Tip.to
<1>1. PICK i \in DOMAIN segments : s = segments[i]
  BY DEF Table
<1>2. DOMAIN segments = 1 .. Len(segments) /\ Len(segments) \in Nat
  BY Shapes
<1>3. /\ 1 \in DOMAIN segments /\ Len(segments) \in DOMAIN segments
      /\ i \in Nat /\ 1 <= i /\ i <= Len(segments)
  BY <1>1, <1>2
<1>4. segments # <<>>
  BY <1>3
<1>5. Tip \in Table /\ segments[1] \in Table
  BY <1>3 DEF Tip, Table
<1>6. /\ s.seq \in Nat /\ s.from \in Int /\ s.to \in Int
      /\ Tip.seq \in Nat /\ Tip.from \in Int /\ Tip.to \in Int
      /\ segments[1].from \in Int /\ segments[1].to \in Int
      /\ Tip.from < Tip.to /\ segments[1].from < segments[1].to
  BY <1>5, InOrder
<1>7. s = Tip \/ (s.seq < Tip.seq /\ s.to <= Tip.from)
  <2>1. i = Len(segments) \/ i < Len(segments)
    BY <1>2, <1>3
  <2> QED
    BY <1>1, <1>3, <2>1 DEF Chain, Ordered, Tip
<1>8. s = segments[1] \/ segments[1].to <= s.from
  <2>1. i = 1 \/ 1 < i
    BY <1>3
  <2> QED
    BY <1>1, <1>3, <2>1 DEF Chain, Ordered
<1> QED
  BY <1>4, <1>5, <1>6, <1>7, <1>8

(* purge() reads where to cut, and how far to delete.                      *)
LEMMA PurgeCutStep ==
  ASSUME ChainInv, NEW r \in Runs, PurgeCut(r), ChainTypeOK'
  PROVE  ChainInv'
<1> DEFINE boundary == Boundary(doing[r].started)
           past == {s \in Table : s.to <= boundary}
           plain == [doing[r] EXCEPT !.at = "entries", !.to = UnsealedBound(boundary)]
           till(cut) == [doing[r] EXCEPT !.at = "entries", !.seen = <<cut>>, !.to = cut.to]
<1>0. /\ ChainTypeOK /\ Chain /\ Known(doing[r]) /\ doing[r] \in Doing /\ doing[r].at = "cut"
      /\ boundary = doing[r].started - Retention /\ boundary \in Int
  <2>1. ChainTypeOK /\ Chain /\ Known(doing[r]) /\ doing[r] \in Doing /\ doing[r].at = "cut"
    BY Timely DEF ChainInv, PurgeCut
  <2>2. doing[r].started \in Int
    BY <2>1, RunFields, Bounds
  <2> QED
    BY <2>1, <2>2, Bounds DEF Boundary
<1>1. UNCHANGED <<now, recorded, open, log, segments, truncated>>
  BY DEF PurgeCut
<1> HIDE DEF boundary
<1>2. CASE past = {} /\ Go(r, plain) /\ plain \in Doing
  <2>1. plain.at = "entries" /\ plain.to = UnsealedBound(boundary)
        /\ plain.seen = <<>> /\ plain.started = doing[r].started
    BY <1>0 DEF Doing, Known, Purging
  <2>2. segments # <<>> => segments[1] \in Table /\ segments[1].from \in Int
    BY <1>0, Shapes, InOrder DEF Table
  <2>3. UnsealedBound(boundary) <= boundary /\ UnsealedBound(boundary) \in Int
    BY <1>0, <2>2 DEF UnsealedBound
  <2>4. ASSUME NEW s \in Table PROVE s.from >= UnsealedBound(boundary)
    <3>1. segments # <<>> /\ segments[1].from <= s.from /\ s.from \in Int
      BY <1>0, Ends, InOrder
    <3> QED
      BY <1>0, <2>2, <3>1 DEF UnsealedBound
  <2> HIDE DEF plain
  <2>5. Started(plain) /\ Sealing(plain) /\ Verifying(plain)
    BY <1>0, <2>1 DEF Known, Started, Sealing, Verifying
  <2>6. Purging(plain)
    BY <1>0, <2>1, <2>3, <2>4 DEF Purging
  <2> QED
    BY <1>1, <1>2, <2>5, <2>6, QuietStep DEF Known
<1>3. ASSUME NEW cut \in Newest(past), Go(r, till(cut)), till(cut) \in Doing PROVE ChainInv'
  <2>1. cut \in Table /\ cut.to <= boundary /\ \A other \in past : other.seq <= cut.seq
    BY <1>3 DEF Newest
  <2>2. /\ till(cut).at = "entries" /\ till(cut).to = cut.to
        /\ till(cut).seen = <<cut>> /\ till(cut).started = doing[r].started
        /\ till(cut).seen # <<>> /\ Head(till(cut).seen) = cut
    BY <1>0 DEF Doing
  <2>3. CutHolds(cut)
    BY <1>0, <2>1, Ends DEF CutHolds
  <2>4. ASSUME NEW s \in Table PROVE s.from >= cut.to \/ s.to <= cut.to
    <3>1. /\ s.seq \in Nat /\ cut.seq \in Nat /\ s.from \in Int /\ s.to \in Int /\ cut.to \in Int
          /\ cut.seq < s.seq => cut.to <= s.from
          /\ s.seq < cut.seq => s.to <= cut.from
          /\ s.seq = cut.seq => s = cut
          /\ cut.from < cut.to /\ cut.from \in Int
      BY <1>0, <2>1, InOrder
    <3> QED
      BY <3>1
  <2> HIDE DEF till
  <2>5. Started(till(cut)) /\ Sealing(till(cut)) /\ Verifying(till(cut))
    BY <1>0, <2>2 DEF Known, Started, Sealing, Verifying
  <2>6. Purging(till(cut))
    BY <1>0, <2>1, <2>2, <2>3, <2>4 DEF Purging
  <2> QED
    BY <1>1, <1>3, <2>5, <2>6, QuietStep DEF Known
<1> QED
  BY <1>0, <1>2, <1>3, PurgeCutGoes DEF boundary

(* What a purge that deletes knows of the sealed and of the unsealed rows. *)
LEMMA PurgeIsPast ==
  ASSUME ChainInv, NEW r \in Runs, doing[r].at \in {"entries", "truncate", "drop"}
  PROVE  /\ doing[r].to \in Int /\ doing[r].to <= now - Retention
         /\ \A s \in Table : s.from >= doing[r].to \/ s.to <= doing[r].to
<1>1. /\ ChainTypeOK /\ doing[r] \in Doing /\ Known(doing[r])
      /\ doing[r].started \in 0 .. MaxTime
      /\ doing[r].started <= now
  BY Timely DEF ChainInv
<1>2. doing[r].to \in Int /\ doing[r].started \in Int /\ now \in Int
  BY <1>1, RunFields, Shapes, Bounds
<1>3. /\ doing[r].to <= doing[r].started - Retention
      /\ \A s \in Table : s.from >= doing[r].to \/ s.to <= doing[r].to
  BY <1>1 DEF Known, Purging
<1> QED
  BY <1>1, <1>2, <1>3, Bounds

(* deleteEntries() deletes nothing the chain or a run still needs.         *)
LEMMA DeleteGoesOn ==
  ASSUME ChainInv, NEW r \in Runs, doing[r].at = "entries",
         NEW e \in Oldest(doing[r].to), log' = log \ {e},
         UNCHANGED <<now, recorded, segments, truncated>>
  PROVE  Ongoing
<1>0. ChainTypeOK /\ Clock /\ Chain
  BY DEF ChainInv
<1>1. /\ doing[r].to \in Int /\ doing[r].to <= now - Retention
      /\ \A s \in Table : s.from >= doing[r].to \/ s.to <= doing[r].to
  BY PurgeIsPast
<1>2. e \in log /\ 0 < recorded[e] /\ recorded[e] <= doing[r].to
  BY DEF Oldest, Expired, InRange
<1>3. now \in Nat /\ recorded[e] \in Nat
  BY <1>0, <1>2, Shapes
<1>4. now' \in Nat /\ now' >= now /\ segments' = segments /\ truncated \subseteq truncated'
  BY <1>3
<1>5. ASSUME NEW s \in Table, s.to > now - Retention
      PROVE  InRange(s.from, s.to)' = InRange(s.from, s.to)
  <2>1. s.from \in Int /\ s.to \in Int
    BY <1>0, InOrder
  <2>2. s.from >= doing[r].to
    BY <1>1, <1>3, <1>5, <2>1, Bounds
  <2>3. ~(s.from < recorded[e])
    BY <1>1, <1>2, <1>3, <2>1, <2>2
  <2> QED
    BY <2>3 DEF InRange
<1>6. ASSUME NEW from \in Int, NEW to \in Int, from >= now - Retention
      PROVE  InRange(from, to)' = InRange(from, to)
  <2>1. ~(from < recorded[e])
    BY <1>1, <1>2, <1>3, <1>6, Bounds
  <2> QED
    BY <2>1 DEF InRange
<1>7. ASSUME NEW to \in Int, InRange(0, to) = {} PROVE InRange(0, to)' = {}
  BY <1>7 DEF InRange
<1>8. segments # <<>>
  <2> SUFFICES ASSUME segments = <<>> PROVE FALSE
    OBVIOUS
  <2>1. Sealed = {}
    BY DEF Sealed, Table
  <2>2. recorded[e] > now - (Retention - RunTime)
    BY <1>0, <1>2, <2>1 DEF Clock, Fresh
  <2> QED
    BY <1>1, <1>2, <1>3, <2>2, Bounds
<1> QED
  BY <1>4, <1>5, <1>6, <1>7, <1>8 DEF Ongoing

(* A step that goes on and leaves every run as it was, or one run blank or *)
(* knowing more, keeps the invariant, if its time does.                    *)
LEMMA GoesOnStep ==
  ASSUME ChainInv, Ongoing, Clock', ChainTypeOK', ChainTypeOK,
         \A mine \in InFlight' : mine \in Doing /\ Known(mine) /\ Started(mine)'
  PROVE  ChainInv'
BY ChainGoesOn, KnownGoesOn DEF ChainInv

(* deleteEntries() deletes, or has come to the end.                        *)
LEMMA PurgeEntriesStep ==
  ASSUME ChainInv, NEW r \in Runs, PurgeEntries(r), ChainTypeOK'
  PROVE  ChainInv'
<1>0. ChainTypeOK /\ Clock /\ Chain /\ doing[r].at = "entries" /\ Known(doing[r])
      /\ doing[r] \in Doing
  BY Timely DEF ChainInv, PurgeEntries
<1>1. UNCHANGED <<now, recorded, open, segments, truncated>>
  BY DEF PurgeEntries
<1>2. ASSUME NEW e \in Oldest(doing[r].to), log' = log \ {e}, UNCHANGED doing PROVE ChainInv'
  <2>1. Ongoing
    BY <1>0, <1>1, <1>2, DeleteGoesOn
  <2>2. Clock'
    BY <1>0, <1>1, <1>2 DEF Clock, Sealed, Table, Fresh, Tip
  <2>3. ASSUME NEW mine, mine \in InFlight'
        PROVE  mine \in Doing /\ Known(mine) /\ Started(mine)'
    <3>1. mine \in InFlight
      BY <1>2, <2>3 DEF InFlight
    <3>2. mine \in Doing /\ Known(mine)
      BY <1>0, <3>1, RunFields DEF InFlight, ChainInv
    <3> QED
      BY <1>1, <3>2 DEF Known, Started
  <2> QED
    BY <1>0, <2>1, <2>2, <2>3, GoesOnStep
<1>3. CASE Expired(doing[r].to) = {} /\ UNCHANGED log
           /\ IF doing[r].seen = <<>> THEN Stop(r) ELSE Go(r, [doing[r] EXCEPT !.at = "truncate"])
  <2>1. CASE Stop(r)
    BY <1>0, <1>1, <1>3, <2>1, IdleIs, KnownBlank, QuietStep DEF Stop
  <2>2. CASE doing[r].seen # <<>> /\ Go(r, [doing[r] EXCEPT !.at = "truncate"])
    <3> DEFINE done == [doing[r] EXCEPT !.at = "truncate"]
    <3>1. /\ done \in Doing /\ done.at = "truncate" /\ done.seen = doing[r].seen
          /\ done.to = doing[r].to /\ done.started = doing[r].started
      BY <1>0 DEF Doing, At
    <3> HIDE DEF done
    <3>2. InRange(0, done.to) = {}
      BY <1>3, <3>1 DEF Expired
    <3>3. Started(done) /\ Sealing(done) /\ Verifying(done)
      BY <1>0, <3>1 DEF Known, Started, Sealing, Verifying
    <3>4. Purging(done)
      BY <1>0, <2>2, <3>1, <3>2 DEF Known, Purging
    <3> QED
      BY <1>1, <1>3, <2>2, <3>1, <3>3, <3>4, QuietStep DEF Known, done
  <2> QED
    BY <1>3, <2>1, <2>2
<1> QED
  BY <1>2, <1>3 DEF PurgeEntries

(* An entry is recorded.                                                   *)
LEMMA RecordStep ==
  ASSUME ChainInv, Record, ChainTypeOK'
  PROVE  ChainInv'
<1>0. ChainTypeOK /\ Clock /\ now \in Nat /\ now >= 1
  BY Shapes DEF ChainInv
<1>1. UNCHANGED <<now, log, segments, truncated, doing>>
  BY DEF Record
<1>2. /\ \A e \in DOMAIN recorded : e \in DOMAIN recorded' /\ recorded'[e] = recorded[e]
      /\ open' = open \cup {Len(recorded')}
      /\ \A e \in DOMAIN recorded' : e \in DOMAIN recorded \/ recorded'[e] = now
      /\ Len(recorded') \in DOMAIN recorded' /\ recorded'[Len(recorded')] = now
  <2>1. recorded \in Seq(1 .. MaxTime) /\ now \in 1 .. MaxTime
    BY <1>0 DEF ChainTypeOK
  <2>2. recorded' = Append(recorded, now) /\ open' = open \cup {Len(recorded')}
    BY DEF Record
  <2>3. /\ recorded' \in Seq(1 .. MaxTime) /\ Len(recorded') = Len(recorded) + 1
        /\ \A i \in 1 .. Len(recorded) : recorded'[i] = recorded[i]
        /\ recorded'[Len(recorded) + 1] = now
    BY <2>1, <2>2, AppendProperties
  <2>4. /\ DOMAIN recorded = 1 .. Len(recorded) /\ Len(recorded) \in Nat
        /\ DOMAIN recorded' = 1 .. Len(recorded')
    BY <2>1, <2>3, LenProperties
  <2> QED
    BY <2>2, <2>3, <2>4
<1>3. log \subseteq DOMAIN recorded /\ open \subseteq DOMAIN recorded
  BY <1>0 DEF ChainTypeOK
<1>4. InRange(0, 0)' = InRange(0, 0)
      /\ \A from, to : InRange(from, to)' = InRange(from, to)
  BY <1>1, <1>2, <1>3 DEF InRange
<1>5. Ongoing
  BY <1>0, <1>1, <1>2, <1>3, <1>4 DEF Ongoing, IsFirst
<1>6. Clock'
  <2>1. \A e \in DOMAIN recorded' : recorded'[e] <= now
    BY <1>0, <1>2 DEF Clock
  <2>2. now > now - Lag /\ Fresh(now)
    BY <1>0, Bounds DEF Fresh
  <2>3. \A e \in open' : recorded'[e] > now - Lag
    BY <1>0, <1>2, <1>3, <2>2 DEF Clock
  <2>4. \A e \in (log' \cup open') \ Sealed : Fresh(recorded'[e])
    BY <1>0, <1>1, <1>2, <1>3, <2>2 DEF Clock
  <2>5. Sealed' = Sealed /\ (\A time : Fresh(time)' = Fresh(time)) /\ Tip' = Tip
    BY <1>1 DEF Sealed, Table, Fresh, Tip
  <2> QED
    BY <1>0, <1>1, <2>1, <2>3, <2>4, <2>5 DEF Clock
<1>7. ASSUME NEW mine, mine \in InFlight'
      PROVE  mine \in Doing /\ Known(mine) /\ Started(mine)'
  <2>1. mine \in InFlight
    BY <1>1, <1>7 DEF InFlight
  <2>2. mine \in Doing /\ Known(mine)
    BY <1>0, <2>1, RunFields DEF InFlight, ChainInv
  <2> QED
    BY <1>1, <2>2 DEF Known, Started
<1> QED
  BY <1>0, <1>5, <1>6, <1>7, GoesOnStep

(* An entry is committed: no window that has been read reaches its time.   *)
LEMMA CommitStep ==
  ASSUME ChainInv, NEW e \in open, Commit(e), ChainTypeOK'
  PROVE  ChainInv'
<1>0. ChainTypeOK /\ Clock /\ Chain /\ now \in Nat /\ now >= 1
  BY Shapes DEF ChainInv
<1>1. UNCHANGED <<now, recorded, segments, truncated, doing>> /\ log' = log \cup {e}
      /\ open' = open \ {e}
  BY DEF Commit
<1>2. recorded[e] > now - Lag /\ recorded[e] \in Nat
  BY <1>0, Shapes DEF Clock
<1>3. ASSUME NEW from \in Int, NEW to \in Int, to <= now - Lag
      PROVE  InRange(from, to)' = InRange(from, to)
  <2>1. ~(recorded[e] <= to)
    BY <1>0, <1>2, <1>3, Bounds
  <2> QED
    BY <1>1, <2>1 DEF InRange
<1>4. ASSUME NEW s \in Table PROVE InRange(s.from, s.to)' = InRange(s.from, s.to)
  <2>1. s.from \in Int /\ s.to \in Int /\ s.to <= now - Lag
    BY <1>0, InOrder DEF Chain, WellSealed
  <2> QED
    BY <1>3, <2>1
<1>5. ASSUME NEW to \in Int, to <= now - Retention PROVE InRange(0, to)' = InRange(0, to)
  <2>1. to <= now - Lag
    BY <1>0, <1>5, Bounds
  <2> QED
    BY <1>3, <2>1
<1>6. ASSUME NEW from \in Int, from < now - Lag, IsFirst(from) PROVE IsFirst(from)'
  <2>1. recorded[e] > from
    BY <1>0, <1>2, <1>6, Bounds
  <2> QED
    BY <1>1, <1>6, <2>1 DEF IsFirst
<1>7. now' \in Nat /\ now' >= now
  BY <1>0, <1>1
<1>8. Ongoing
  BY <1>1, <1>3, <1>4, <1>5, <1>6, <1>7 DEF Ongoing
<1>9. Clock'
  BY <1>0, <1>1 DEF Clock, Sealed, Table, Fresh, Tip
<1>10. ASSUME NEW mine, mine \in InFlight'
       PROVE  mine \in Doing /\ Known(mine) /\ Started(mine)'
  <2>1. mine \in InFlight
    BY <1>1, <1>10 DEF InFlight
  <2>2. mine \in Doing /\ Known(mine)
    BY <1>0, <2>1, RunFields DEF InFlight, ChainInv
  <2> QED
    BY <1>1, <2>2 DEF Known, Started
<1> QED
  BY <1>0, <1>8, <1>9, <1>10, GoesOnStep

(* Time passes as far as the runs, the transactions and the trail let it.  *)
LEMMA TickStep ==
  ASSUME ChainInv, Tick, ChainTypeOK'
  PROVE  ChainInv'
<1>0. ChainTypeOK /\ Clock /\ now \in Nat /\ now >= 1
  BY Shapes DEF ChainInv
<1>1. UNCHANGED <<recorded, open, log, segments, truncated, doing>> /\ now' = now + 1
  BY DEF Tick
<1>2. now' \in Nat /\ now' >= now
  BY <1>0, <1>1
<1>3. Ongoing
  BY <1>1, <1>2 DEF Ongoing, InRange, IsFirst
<1>4. Clock'
  <2>1. \A e \in DOMAIN recorded : recorded[e] <= now'
    BY <1>0, <1>1, <1>2, Shapes DEF Clock
  <2>2. \A time \in Int : Fresh(time)' <=> Recent(time)
    <3>1. now' - (Retention - RunTime) = now + 1 - (Retention - RunTime)
      BY <1>0, <1>1, Bounds
    <3> QED
      BY <3>1 DEF Fresh, Recent
  <2>3. Sealed' = Sealed /\ Tip' = Tip /\ Tip = segments[Len(segments)]
    BY <1>1 DEF Sealed, Table, Tip
  <2>4. \A e \in open : recorded[e] > now' - Lag
    <3>1. now' - Lag = now + 1 - Lag
      BY <1>0, <1>1, Bounds
    <3>2. \A e \in open : recorded[e] > now + 1 - Lag
      BY DEF Tick
    <3> QED
      BY <3>1, <3>2
  <2>5. ASSUME NEW e \in (log \cup open) \ Sealed PROVE Fresh(recorded[e])'
    <3>1. recorded[e] \in Nat /\ recorded'[e] = recorded[e]
      BY <1>0, <1>1, Shapes
    <3> QED
      BY <2>2, <3>1 DEF Tick, Fresh
  <2>6. segments # <<>> => Fresh(Tip.to)'
    <3> SUFFICES ASSUME segments # <<>> PROVE Fresh(Tip.to)'
      OBVIOUS
    <3>1. Tip.to \in Int
      BY <1>0, Shapes, SegmentShape
    <3>2. Recent(Tip.to)
      BY <2>3 DEF Tick
    <3> QED
      BY <2>2, <2>3, <3>1, <3>2 DEF Fresh
  <2> QED
    BY <1>1, <2>1, <2>3, <2>4, <2>5, <2>6 DEF Clock
<1>5. ASSUME NEW mine, mine \in InFlight'
      PROVE  mine \in Doing /\ Known(mine) /\ Started(mine)'
  <2>1. PICK r \in Runs : mine = doing[r]
    BY <1>1, <1>5 DEF InFlight
  <2>2. mine \in Doing /\ Known(mine) /\ mine.started \in Int
    BY <1>0, <2>1, RunFields, Bounds DEF InFlight, ChainInv
  <2>3. mine.at # "idle" => r \in Busy
    BY <2>1 DEF Busy, Runs
  <2>4. mine.at # "idle" => mine.started > now + 1 - RunTime
    BY <2>1, <2>3 DEF Tick
  <2>5. mine.at # "idle" => now' - RunTime < mine.started /\ mine.started <= now'
    BY <1>0, <1>1, <2>2, <2>4, Bounds DEF Known, Started
  <2> QED
    BY <2>2, <2>5 DEF Started
<1> QED
  BY <1>0, <1>3, <1>4, <1>5, GoesOnStep

(* recordTruncation(): the hash the next segment points at is kept.        *)
LEMMA PurgeTruncateStep ==
  ASSUME ChainInv, NEW r \in Runs, PurgeTruncate(r), ChainTypeOK'
  PROVE  ChainInv'
<1>0. ChainTypeOK /\ Clock /\ doing[r].at = "truncate" /\ Known(doing[r])
      /\ doing[r] \in Doing
  BY Timely DEF ChainInv, PurgeTruncate
<1>1. PICK was : was = doing[r]
  OBVIOUS
<1>2. PICK done : done = [was EXCEPT !.at = "drop"]
  OBVIOUS
<1>3. /\ UNCHANGED <<now, recorded, open, log, segments>>
      /\ truncated' = truncated \cup {HashOf(Head(was.seen))}
      /\ Go(r, done)
  BY <1>1, <1>2 DEF PurgeTruncate, Explanation
<1>4. Ongoing
  BY <1>0, <1>3, Shapes DEF Ongoing, InRange, IsFirst
<1>5. Clock'
  BY <1>0, <1>3 DEF Clock, Sealed, Table, Fresh, Tip
<1>6. was \in Doing /\ Known(was) /\ was.at = "truncate"
  BY <1>0, <1>1
<1>7. Known(was)'
  <2>1. Started(was)'
    BY <1>3, <1>6 DEF Known, Started
  <2> QED
    BY <1>4, <1>6, <2>1, KnownGoesOn
<1>8. /\ done.at = "drop" /\ done.seen = was.seen
      /\ done.to = was.to /\ done.started = was.started
  BY <1>2, <1>6 DEF Doing
<1>9. Known(done)'
  <2>1. Started(done)' /\ Sealing(done)' /\ Verifying(done)'
    BY <1>6, <1>7, <1>8 DEF Known, Started, Sealing, Verifying
  <2>2. Purging(was)'
    BY <1>7 DEF Known
  <2>3. HashOf(Head(done.seen)) \in truncated'
    BY <1>3, <1>8
  <2>4. Purging(done)'
    BY <1>6, <1>8, <2>2, <2>3 DEF Purging, HashOf
  <2> QED
    BY <2>1, <2>4 DEF Known
<1>10. ASSUME NEW mine, mine \in InFlight' PROVE Known(mine)'
  <2>1. mine = done \/ mine \in InFlight
    BY <1>0, <1>3, <1>10, FlightAfter
  <2>2. CASE mine \in InFlight
    <3>1. mine \in Doing /\ Known(mine)
      BY <1>0, <2>2, RunFields DEF InFlight, ChainInv
    <3>2. Started(mine)'
      BY <1>3, <3>1 DEF Known, Started
    <3> QED
      BY <1>4, <3>1, <3>2, KnownGoesOn
  <2> QED
    BY <1>9, <2>1, <2>2
<1> QED
  BY <1>4, <1>5, <1>10, ChainGoesOn DEF ChainInv

-----------------------------------------------------------------------------
(* Sealing a segment.                                                      *)

(* The insert that wins: a segment that goes on from the end of the chain. *)
SealsOn(new) ==
  /\ UNCHANGED <<now, recorded, open, log, truncated>>
  /\ segments' = Append(segments, new)
  /\ new \in Segment /\ new.seq = NextSeq /\ Follows(new.from, new.prev)
  /\ WellSealed(new) /\ new.rows # {} /\ new.rows = InRange(new.from, new.to)
  /\ new.from > now - Retention

(* The new segment is the last one, after all the others.                  *)
LEMMA NewLast ==
  ASSUME ChainTypeOK, Chain, NEW new, SealsOn(new)
  PROVE  /\ DOMAIN segments' = 1 .. Len(segments) + 1
         /\ \A i \in DOMAIN segments : segments'[i] = segments[i]
         /\ segments'[Len(segments) + 1] = new
         /\ Table' = Table \cup {new} /\ segments' # <<>> /\ Tip' = new
         /\ \A s \in Table : s.seq < new.seq /\ s.to <= new.from
         /\ new.seq \in Nat /\ new.from \in Int /\ new.to \in Int
<1>0. segments \in Seq(Segment) /\ new \in Segment /\ segments' = Append(segments, new)
  BY DEF ChainTypeOK, SealsOn
<1>1. /\ segments' \in Seq(Segment) /\ Len(segments') = Len(segments) + 1
      /\ \A i \in 1 .. Len(segments) : segments'[i] = segments[i]
      /\ segments'[Len(segments) + 1] = new
  BY <1>0, AppendProperties
<1>2. /\ DOMAIN segments = 1 .. Len(segments) /\ Len(segments) \in Nat
      /\ DOMAIN segments' = 1 .. Len(segments')
  BY <1>0, <1>1, LenProperties
<1>3. Table' = Table \cup {new}
  BY <1>1, <1>2 DEF Table
<1>4. segments' # <<>> /\ Tip' = new
  BY <1>1, <1>2, EmptySeq DEF Tip
<1>5. ASSUME NEW s \in Table PROVE s.seq < new.seq /\ s.to <= new.from
  <2>1. segments # <<>> /\ s.seq <= Tip.seq /\ s.to <= Tip.to
    BY Ends
  <2>2. Tip \in Table /\ s.seq \in Nat /\ Tip.seq \in Nat
    BY Ends, InOrder
  <2>3. new.from = Tip.to /\ new.seq = Tip.seq + 1
    BY <2>1 DEF SealsOn, Follows, NextSeq, Tip
  <2> QED
    BY <2>1, <2>2, <2>3
<1> QED
  BY <1>0, <1>1, <1>2, <1>3, <1>4, <1>5, SegmentShape

(* The chain stays whole.                                                  *)
LEMMA ChainSeals ==
  ASSUME ChainTypeOK, Chain, NEW new, SealsOn(new)
  PROVE  Chain'
<1>0. /\ DOMAIN segments' = 1 .. Len(segments) + 1
      /\ \A i \in DOMAIN segments : segments'[i] = segments[i]
      /\ segments'[Len(segments) + 1] = new
      /\ Table' = Table \cup {new} /\ segments' # <<>> /\ Tip' = new
      /\ \A s \in Table : s.seq < new.seq /\ s.to <= new.from
  BY NewLast
<1>1. DOMAIN segments = 1 .. Len(segments) /\ Len(segments) \in Nat
  BY Shapes
<1>2. UNCHANGED <<now, recorded, log, truncated>> /\ Follows(new.from, new.prev)
  BY DEF SealsOn
<1>3. segments = <<>> => Len(segments) = 0
  BY EmptySeq
<1>4. segments # <<>> => Len(segments) >= 1
  BY Shapes
<1>5. Joined'
  <2>1. ASSUME NEW i \in DOMAIN segments', i > 1
        PROVE  segments'[i].from = segments'[i - 1].to /\ segments'[i].prev = HashOf(segments'[i - 1])
    <3>1. CASE i \in DOMAIN segments
      <4>1. i - 1 \in DOMAIN segments
        BY <1>1, <2>1, <3>1
      <4> QED
        BY <1>0, <2>1, <3>1, <4>1 DEF Chain, Joined
    <3>2. CASE i = Len(segments) + 1
      <4>1. segments # <<>> /\ i - 1 = Len(segments) /\ i - 1 \in DOMAIN segments
        BY <1>1, <1>3, <2>1, <3>2
      <4>2. new.from = Tip.to /\ new.prev = HashOf(Tip)
        BY <1>2, <4>1 DEF Follows
      <4>3. segments'[i] = new /\ segments'[i - 1] = Tip
        BY <1>0, <3>2, <4>1 DEF Tip
      <4> QED
        BY <4>2, <4>3
    <3> QED
      BY <1>0, <1>1, <2>1, <3>1, <3>2
  <2> QED
    BY <2>1 DEF Joined, HashOf
<1>6. Ordered'
  <2>1. ASSUME NEW i \in DOMAIN segments', NEW j \in DOMAIN segments', i < j
        PROVE  segments'[i].seq < segments'[j].seq /\ segments'[i].to <= segments'[j].from
    <3>1. i \in DOMAIN segments /\ segments'[i] = segments[i]
      BY <1>0, <1>1, <2>1
    <3>2. CASE j \in DOMAIN segments
      BY <1>0, <2>1, <3>1, <3>2 DEF Chain, Ordered
    <3>3. CASE j = Len(segments) + 1
      BY <1>0, <3>1, <3>3 DEF Table
    <3> QED
      BY <1>0, <1>1, <3>2, <3>3
  <2> QED
    BY <2>1 DEF Ordered
<1>7. ASSUME NEW s \in Table', s.to > now - Retention PROVE InRange(s.from, s.to)' = s.rows
  <2>1. InRange(s.from, s.to)' = InRange(s.from, s.to)
    BY <1>2 DEF InRange
  <2> QED
    BY <1>0, <1>7, <2>1 DEF Chain, SealedForGood, SealsOn
<1>8. SealedForGood'
  BY <1>2, <1>7 DEF SealedForGood
<1>9. ASSUME NEW s \in Table' PROVE WellSealed(s)'
  <2>1. WellSealed(s)
    BY <1>0, <1>9 DEF Chain, SealsOn
  <2> QED
    BY <1>2, <2>1 DEF WellSealed, Snug
<1>10. FirstLinked(segments[1])'
  <2>1. CASE segments = <<>>
    <3>1. segments'[1] = new
      BY <1>0, <1>3, <2>1
    <3> QED
      BY <1>2, <2>1, <3>1 DEF Follows, FirstLinked
  <2>2. CASE segments # <<>>
    <3>1. segments'[1] = segments[1]
      BY <1>0, <1>1, <1>4, <2>2
    <3> QED
      BY <1>2, <2>2, <3>1 DEF Chain, FirstLinked
  <2> QED
    BY <2>1, <2>2
<1> QED
  BY <1>5, <1>6, <1>8, <1>9, <1>10 DEF Chain

(* The trail is sealed up to a recent moment.                              *)
LEMMA ClockSeals ==
  ASSUME ChainTypeOK, Clock, Chain, NEW new, SealsOn(new)
  PROVE  Clock'
<1>1. /\ Table' = Table \cup {new} /\ segments' # <<>> /\ Tip' = new
      /\ \A s \in Table : s.seq < new.seq /\ s.to <= new.from
      /\ new.from \in Int /\ new.to \in Int
  BY NewLast
<1>2. UNCHANGED <<now, recorded, open, log>>
  BY DEF SealsOn
<1>3. Sealed \subseteq Sealed'
  BY <1>1 DEF Sealed
<1>4. PICK e \in log : e \in new.rows /\ new.from < recorded[e] /\ recorded[e] <= new.to
  BY DEF SealsOn, InRange
<1>5. recorded[e] \in Nat /\ now \in Nat
  BY <1>4, Shapes
<1>6. e \notin Sealed
  <2> SUFFICES ASSUME NEW s \in Table, e \in s.rows PROVE FALSE
    BY DEF Sealed
  <2>1. recorded[e] <= s.to /\ s.to <= new.from /\ s.to \in Int
    BY <1>1, InOrder DEF Chain, WellSealed
  <2> QED
    BY <1>1, <1>4, <1>5, <2>1
<1>7. Fresh(new.to)
  <2>1. Fresh(recorded[e])
    BY <1>4, <1>6 DEF Clock
  <2> QED
    BY <1>1, <1>4, <1>5, <2>1, Bounds DEF Fresh
<1> QED
  BY <1>1, <1>2, <1>3, <1>7 DEF Clock, Fresh

(* Two runs that hold the end of the chain hold the same end.              *)
LEMMA SameEnd ==
  ASSUME ChainTypeOK, NEW from \in Int, NEW prev, NEW other \in Int, NEW last,
         Follows(from, prev), Follows(other, last)
  PROVE  from = other
<1>1. CASE segments # <<>>
  BY <1>1 DEF Follows
<1>2. CASE segments = <<>>
  <2>1. IsFirst(from) /\ IsFirst(other)
    BY <1>2 DEF Follows
  <2>2. PICK e \in log : recorded[e] = from + 1
    BY <2>1 DEF IsFirst
  <2>3. PICK f \in log : recorded[f] = other + 1
    BY <2>1 DEF IsFirst
  <2>4. recorded[e] > other /\ recorded[f] > from
    BY <2>1 DEF IsFirst
  <2> QED
    BY <2>2, <2>3, <2>4
<1> QED
  BY <1>1, <1>2

(* The other runs that seal have lost the race; what verifications and     *)
(* purges know of the chain stays true of the longer one.                  *)
LEMMA KnownSeals ==
  ASSUME ChainInv, NEW new, SealsOn(new), NEW mine \in Doing, Known(mine)
  PROVE  Known(mine)'
<1>0. ChainTypeOK /\ Clock /\ Chain
  BY DEF ChainInv
<1>1. /\ Table' = Table \cup {new} /\ segments' # <<>> /\ Tip' = new
      /\ \A s \in Table : s.seq < new.seq /\ s.to <= new.from
      /\ new.seq \in Nat /\ new.from \in Int /\ new.to \in Int
  BY <1>0, NewLast
<1>2. /\ UNCHANGED <<now, recorded, open, log, truncated>>
      /\ new.from > now - Retention /\ Follows(new.from, new.prev)
  BY DEF SealsOn
<1>3. mine.from \in Int /\ mine.to \in Int /\ mine.started \in Int /\ mine.seen \in Seq(Segment)
  BY Bounds DEF Doing
<1>4. Started(mine) /\ Sealing(mine) /\ Verifying(mine) /\ Purging(mine)
  BY DEF Known
<1>5. Started(mine)'
  BY <1>2, <1>4 DEF Started
<1>6. Sealing(mine)'
  <2>1. Follows(mine.from, mine.prev) \/ Taken(mine.from) => Taken(mine.from)'
    BY <1>0, <1>1, <1>2, <1>3, SameEnd DEF Taken
  <2>2. /\ InRange(mine.from, mine.to)' = InRange(mine.from, mine.to)
        /\ Snug(mine.rows)' <=> Snug(mine.rows)
    BY <1>2 DEF InRange, Snug
  <2> QED
    BY <1>2, <1>4, <2>1, <2>2 DEF Sealing
<1>7. Verifying(mine)'
  <2>1. Linked(mine.seen)' <=> Linked(mine.seen)
    BY <1>2 DEF Linked, FirstLinked, HashOf
  <2> QED
    BY <1>1, <1>2, <1>4, <2>1 DEF Verifying
<1>8. Purging(mine)'
  <2> SUFFICES ASSUME mine.at \in {"entries", "truncate", "drop"}
               PROVE  /\ mine.to <= mine.started - Retention
                      /\ \A s \in Table' : s.from >= mine.to \/ s.to <= mine.to
                      /\ mine.seen # <<>> =>
                           Head(mine.seen).to = mine.to /\ CutHolds(Head(mine.seen))'
                      /\ mine.at # "entries" => mine.seen # <<>> /\ InRange(0, mine.to)' = {}
                      /\ mine.at = "drop" => HashOf(Head(mine.seen)) \in truncated'
    BY <1>4 DEF Purging, HashOf
  <2>1. mine.to <= mine.started - Retention
    BY <1>4 DEF Purging
  <2>2. mine.started <= now
    BY <1>4 DEF Started
  <2>3. new.from >= mine.to
    BY <1>0, <1>1, <1>2, <1>3, <2>1, <2>2, Shapes, Bounds
  <2>4. \A s \in Table' : s.from >= mine.to \/ s.to <= mine.to
    BY <1>1, <1>4, <2>3 DEF Purging
  <2>5. ASSUME mine.seen # <<>>
        PROVE  Head(mine.seen).to = mine.to /\ CutHolds(Head(mine.seen))'
    <3> DEFINE cut == Head(mine.seen)
    <3>1. cut.to = mine.to /\ CutHolds(cut) /\ cut \in Segment
      BY <1>3, <1>4, <2>5, HeadTailProperties DEF Purging
    <3>2. segments # <<>> /\ cut.seq <= Tip.seq /\ cut.seq \in Nat
      BY <3>1, SegmentShape DEF CutHolds
    <3>3. Tip \in Table /\ Tip.seq \in Nat
      BY <1>0, <3>2, Shapes, SegmentShape
    <3>4. cut.seq < new.seq
      BY <1>1, <3>2, <3>3
    <3> HIDE DEF cut
    <3>5. segments' # <<>> /\ cut.seq <= Tip'.seq
      BY <1>1, <3>2, <3>4
    <3>6. cut \in Table' \/ \A s \in Table' : s.seq > cut.seq
      BY <1>1, <3>1, <3>4, <3>2 DEF CutHolds
    <3> QED
      BY <3>1, <3>5, <3>6 DEF CutHolds, cut
  <2>6. mine.at # "entries" => mine.seen # <<>> /\ InRange(0, mine.to)' = {}
    BY <1>2, <1>4 DEF Purging, InRange
  <2>7. mine.at = "drop" => HashOf(Head(mine.seen)) \in truncated'
    BY <1>2, <1>4 DEF Purging
  <2> QED
    BY <2>1, <2>4, <2>5, <2>6, <2>7
<1> QED
  BY <1>5, <1>6, <1>7, <1>8 DEF Known

(* seal() inserts the segment, or has lost the race.                       *)
LEMMA SealInsertStep ==
  ASSUME ChainInv, NEW r \in Runs, SealInsert(r), ChainTypeOK'
  PROVE  ChainInv'
<1>0. /\ ChainTypeOK /\ Clock /\ Chain /\ doing[r].at = "insert" /\ doing[r] \in Doing
      /\ doing[r].started \in 0 .. MaxTime
      /\ now - RunTime < doing[r].started /\ doing[r].started <= now
      /\ doing[r].from \in Int /\ doing[r].to \in Int /\ doing[r].prev \in Hash
      /\ doing[r].rows \in SUBSET Entry
      /\ Started(doing[r]) /\ Sealing(doing[r])
  BY Timely, RunFields DEF ChainInv, SealInsert, Known
<1>1. UNCHANGED <<now, recorded, open, log, truncated>>
  BY DEF SealInsert
<1>2. CASE ~Unique(doing[r].from, doing[r].prev)
  BY <1>0, <1>1, <1>2, IdleIs, KnownBlank, QuietStep DEF SealInsert, Stop
<1>3. CASE Unique(doing[r].from, doing[r].prev)
  <2>1. PICK new : new = [seq |-> NextSeq, from |-> doing[r].from, to |-> doing[r].to,
                          rows |-> doing[r].rows, prev |-> doing[r].prev]
    OBVIOUS
  <2>2. NextSeq \in Nat
    <3>1. segments # <<>> => segments[Len(segments)] \in Segment
      BY <1>0, Shapes
    <3> QED
      BY <3>1, SegmentShape DEF NextSeq
  <2>3. new \in Segment
    BY <1>0, <2>1, <2>2 DEF Segment
  <2>4. Follows(doing[r].from, doing[r].prev)
    BY <1>0, <1>3 DEF Sealing, Unique, Taken
  <2>5. /\ doing[r].rows # {} /\ doing[r].rows = InRange(doing[r].from, doing[r].to)
        /\ doing[r].from < doing[r].to /\ Snug(doing[r].rows)
    BY <1>0 DEF Sealing
  <2>6. doing[r].from > now - Retention /\ doing[r].to <= now - Lag
    BY <1>0, WindowIsRecent
  <2>7. WellSealed(new)
    <3>1. new.from = doing[r].from /\ new.to = doing[r].to /\ new.rows = doing[r].rows
      BY <2>1
    <3>2. \A e \in doing[r].rows :
            /\ e \in DOMAIN recorded
            /\ doing[r].from < recorded[e] /\ recorded[e] <= doing[r].to
      BY <1>0, <2>5, Shapes DEF InRange
    <3> QED
      BY <2>5, <2>6, <3>1, <3>2 DEF WellSealed
  <2>8. segments' = Append(segments, new)
    BY <1>3, <2>1 DEF SealInsert
  <2>9. SealsOn(new)
    BY <1>1, <2>1, <2>3, <2>4, <2>5, <2>6, <2>7, <2>8 DEF SealsOn
  <2>10. PICK next \in Doing : Go(r, next) /\ Known(next) /\ next.at \in {"last", "segments"}
    <3> DEFINE blank(at) == [Idle EXCEPT !.at = at, !.started = doing[r].started]
    <3>1. ASSUME NEW at \in {"last", "segments"}
          PROVE  blank(at) \in Doing /\ Known(blank(at)) /\ blank(at).at = at
      <4>1. blank(at).at = at
        BY DEF Idle
      <4> QED
        BY <1>0, <4>1, KnownBlank
    <3>2. Go(r, blank("segments")) \/ Go(r, blank("last"))
      BY <1>3 DEF SealInsert
    <3> HIDE DEF blank
    <3> QED
      BY <3>1, <3>2
  <2>11. ASSUME NEW mine, mine \in InFlight' PROVE Known(mine)'
    <3>1. mine = next \/ mine \in InFlight
      BY <1>0, <2>10, <2>11, FlightAfter
    <3>2. mine \in Doing /\ Known(mine)
      BY <1>0, <2>10, <3>1, RunFields DEF InFlight, ChainInv
    <3> QED
      BY <2>9, <3>2, KnownSeals
  <2> QED
    BY <1>0, <2>9, <2>11, ChainSeals, ClockSeals DEF ChainInv
<1> QED
  BY <1>2, <1>3

-----------------------------------------------------------------------------
(* Dropping segments.                                                      *)

(* The delete that ends a purge: segments whose rows are gone, up to one a *)
(* truncation accounts for, and never the last.                            *)
Drops(k) ==
  /\ UNCHANGED <<now, recorded, open, log, truncated>>
  /\ k \in Nat /\ k < Len(segments)
  /\ segments' = SubSeq(segments, k + 1, Len(segments))
  /\ \A i \in 1 .. k : segments[i].to <= now - Retention /\ segments[i].rows \cap log = {}
  /\ FirstLinked(segments[k + 1])

(* What is left is the end of what there was.                              *)
LEMMA Left ==
  ASSUME ChainTypeOK, Chain, NEW k, Drops(k)
  PROVE  /\ DOMAIN segments' = 1 .. Len(segments) - k
         /\ \A i \in DOMAIN segments' : i + k \in DOMAIN segments /\ segments'[i] = segments[i + k]
         /\ segments # <<>> /\ segments' # <<>> /\ Tip' = Tip
         /\ Table' \subseteq Table
         /\ \A s \in Table : s \in Table' \/ (s.to <= now - Retention /\ s.rows \cap log = {})
<1>1. /\ DOMAIN segments = 1 .. Len(segments) /\ Len(segments) \in Nat
      /\ \A i \in DOMAIN segments : segments[i] \in Segment
  BY Shapes
<1>2. k \in Nat /\ k < Len(segments) /\ segments' = SubSeq(segments, k + 1, Len(segments))
  BY DEF Drops
<1>3. /\ segments' \in Seq(Segment) /\ Len(segments') = Len(segments) - k
      /\ \A i \in 1 .. Len(segments) - k : segments'[i] = segments[i + k]
  <2>1. \A i \in k + 1 .. Len(segments) : segments[i] \in Segment
    BY <1>1, <1>2
  <2>2. /\ segments' \in Seq(Segment) /\ Len(segments') = Len(segments) - (k + 1) + 1
        /\ \A i \in 1 .. Len(segments) - (k + 1) + 1 : segments'[i] = segments[(k + 1) + i - 1]
    <3>1. k + 1 \in Int /\ Len(segments) \in Int /\ k + 1 <= Len(segments)
      BY <1>1, <1>2
    <3>2. LET sub == SubSeq(segments, k + 1, Len(segments)) IN
            /\ sub \in Seq(Segment) /\ Len(sub) = Len(segments) - (k + 1) + 1
            /\ \A i \in 1 .. Len(segments) - (k + 1) + 1 : sub[i] = segments[(k + 1) + i - 1]
      BY <2>1, <3>1, SubSeqProperties
    <3> QED
      BY <1>2, <3>2
  <2>3. Len(segments) - (k + 1) + 1 = Len(segments) - k
    BY <1>1, <1>2
  <2>4. \A i \in 1 .. Len(segments) - k : (k + 1) + i - 1 = i + k
    BY <1>1, <1>2
  <2> QED
    BY <2>2, <2>3, <2>4
<1>4. DOMAIN segments' = 1 .. Len(segments) - k
  BY <1>3, LenProperties
<1>5. ASSUME NEW i \in DOMAIN segments'
      PROVE  i + k \in DOMAIN segments /\ segments'[i] = segments[i + k]
  <2>1. i \in 1 .. Len(segments) - k /\ k \in Nat /\ Len(segments) \in Nat
    BY <1>1, <1>2, <1>4
  <2>2. i + k \in 1 .. Len(segments)
    BY <2>1
  <2> QED
    BY <1>1, <1>3, <2>1, <2>2
<1>6. segments # <<>> /\ segments' # <<>>
  <2>1. Len(segments) # 0 /\ Len(segments') # 0
    <3>1. Len(segments) \in Nat /\ k \in Nat /\ k < Len(segments)
      BY <1>1, <1>2
    <3>2. Len(segments') = Len(segments) - k
      BY <1>3
    <3> QED
      BY <3>1, <3>2
  <2>2. Len(<<>>) = 0
    BY EmptySeq
  <2> QED
    BY <2>1, <2>2
<1>7. Tip' = Tip
  <2>1. Len(segments') \in DOMAIN segments' /\ Len(segments') + k = Len(segments)
    <3>1. Len(segments) - k \in 1 .. Len(segments) - k /\ (Len(segments) - k) + k = Len(segments)
      BY <1>1, <1>2
    <3> QED
      BY <1>3, <1>4, <3>1
  <2> QED
    BY <1>5, <2>1 DEF Tip
<1>8. Table' \subseteq Table
  BY <1>5 DEF Table
<1>9. ASSUME NEW s \in Table
      PROVE  s \in Table' \/ (s.to <= now - Retention /\ s.rows \cap log = {})
  <2>1. PICK i \in DOMAIN segments : s = segments[i]
    BY DEF Table
  <2>2. CASE i <= k
    BY <1>1, <1>2, <2>1, <2>2 DEF Drops
  <2>3. CASE i > k
    <3>1. i - k \in DOMAIN segments' /\ i - k + k = i
      BY <1>1, <1>2, <1>4, <2>1, <2>3
    <3> QED
      BY <1>5, <2>1, <3>1 DEF Table
  <2> QED
    BY <1>1, <1>2, <2>1, <2>2, <2>3
<1> QED
  BY <1>4, <1>5, <1>6, <1>7, <1>8, <1>9

(* The chain stays whole.                                                  *)
LEMMA ChainDrops ==
  ASSUME ChainTypeOK, Chain, NEW k, Drops(k)
  PROVE  Chain'
<1>0. /\ DOMAIN segments' = 1 .. Len(segments) - k
      /\ \A i \in DOMAIN segments' : i + k \in DOMAIN segments /\ segments'[i] = segments[i + k]
      /\ segments # <<>> /\ segments' # <<>> /\ Tip' = Tip
      /\ Table' \subseteq Table
  BY Left
<1>1. /\ UNCHANGED <<now, recorded, log, truncated>> /\ k \in Nat /\ k < Len(segments)
      /\ FirstLinked(segments[k + 1])
      /\ DOMAIN segments = 1 .. Len(segments) /\ Len(segments) \in Nat
  BY Shapes DEF Drops
<1>2. Joined'
  <2>1. ASSUME NEW i \in DOMAIN segments', i > 1
        PROVE  segments'[i].from = segments'[i - 1].to /\ segments'[i].prev = HashOf(segments'[i - 1])
    <3>1. i - 1 \in DOMAIN segments' /\ i + k > 1 /\ (i - 1) + k = (i + k) - 1
      BY <1>0, <1>1, <2>1
    <3>2. /\ segments'[i] = segments[i + k] /\ i + k \in DOMAIN segments
          /\ segments'[i - 1] = segments[(i + k) - 1]
      BY <1>0, <2>1, <3>1
    <3> QED
      BY <3>1, <3>2 DEF Chain, Joined
  <2> QED
    BY <2>1 DEF Joined, HashOf
<1>3. Ordered'
  <2>1. ASSUME NEW i \in DOMAIN segments', NEW j \in DOMAIN segments', i < j
        PROVE  segments'[i].seq < segments'[j].seq /\ segments'[i].to <= segments'[j].from
    <3>1. i + k < j + k /\ i + k \in DOMAIN segments /\ j + k \in DOMAIN segments
      BY <1>0, <1>1, <2>1
    <3> QED
      BY <1>0, <3>1 DEF Chain, Ordered
  <2> QED
    BY <2>1 DEF Ordered
<1>4. SealedForGood'
  BY <1>0, <1>1 DEF Chain, SealedForGood, InRange
<1>5. (\A s \in Table : WellSealed(s))'
  <2>1. ASSUME NEW s \in Table' PROVE WellSealed(s)'
    BY <1>0, <1>1, <2>1 DEF Chain, WellSealed, Snug
  <2> QED
    BY <2>1
<1>6. FirstLinked(segments[1])'
  <2>1. 1 \in DOMAIN segments' /\ 1 + k = k + 1
    BY <1>0, <1>1
  <2>2. segments'[1] = segments[k + 1]
    BY <1>0, <2>1
  <2> QED
    BY <1>1, <2>2 DEF FirstLinked
<1> QED
  BY <1>2, <1>3, <1>4, <1>5, <1>6 DEF Chain

(* No entry that is left has lost its segment.                             *)
LEMMA ClockDrops ==
  ASSUME ChainTypeOK, Clock, Chain, NEW k, Drops(k)
  PROVE  Clock'
<1>0. /\ segments # <<>> /\ Tip' = Tip
      /\ \A s \in Table : s \in Table' \/ (s.to <= now - Retention /\ s.rows \cap log = {})
  BY Left
<1>1. UNCHANGED <<now, recorded, open, log>>
  BY DEF Drops
<1>2. ASSUME NEW e \in log \cup open, e \in Sealed PROVE e \in Sealed'
  <2>1. PICK s \in Table : e \in s.rows
    BY <1>2 DEF Sealed
  <2>2. CASE e \in log
    BY <1>0, <2>1, <2>2 DEF Sealed
  <2>3. CASE e \in open
    <3>1. recorded[e] > now - Lag /\ recorded[e] <= s.to /\ s.to <= now - Lag
      BY <2>1, <2>3 DEF Clock, Chain, WellSealed
    <3>2. recorded[e] \in Nat /\ now \in Nat /\ s.to \in Int
      BY <2>3, Shapes, InOrder
    <3> QED
      BY <3>1, <3>2, Bounds
  <2> QED
    BY <2>2, <2>3
<1> QED
  BY <1>0, <1>1, <1>2 DEF Clock, Fresh

(* What the runs know stays true of the shorter chain.                     *)
LEMMA KnownDrops ==
  ASSUME ChainInv, NEW k, Drops(k), NEW mine \in Doing, Known(mine)
  PROVE  Known(mine)'
<1>0. ChainTypeOK /\ Chain
  BY DEF ChainInv
<1>1. /\ segments # <<>> /\ segments' # <<>> /\ Tip' = Tip
      /\ Table' \subseteq Table
      /\ \A s \in Table : s \in Table' \/ s.to <= now - Retention
  BY <1>0, Left
<1>2. UNCHANGED <<now, recorded, open, log, truncated>>
  BY DEF Drops
<1>3. Started(mine) /\ Sealing(mine) /\ Verifying(mine) /\ Purging(mine)
  BY DEF Known
<1>4. Started(mine)'
  BY <1>2, <1>3 DEF Started
<1>5. Sealing(mine)'
  <2> SUFFICES ASSUME mine.at \in {"window", "insert"}
               PROVE  Sealing(mine)'
    BY DEF Sealing
  <2>1. mine.from \in Int /\ mine.from > now - Retention
    BY <1>0, <1>3, WindowIsRecent
  <2>2. Taken(mine.from) => Taken(mine.from)'
    <3> SUFFICES ASSUME NEW s \in Table, s.from = mine.from PROVE s \in Table'
      BY DEF Taken
    <3>1. s.from < s.to /\ s.from \in Int /\ s.to \in Int
      BY <1>0, InOrder
    <3> QED
      BY <1>0, <1>1, <2>1, <3>1, Shapes, Bounds
  <2>3. Follows(mine.from, mine.prev) => Follows(mine.from, mine.prev)'
    BY <1>1 DEF Follows, HashOf
  <2>4. /\ InRange(mine.from, mine.to)' = InRange(mine.from, mine.to)
        /\ Snug(mine.rows)' <=> Snug(mine.rows)
    BY <1>2 DEF InRange, Snug
  <2> QED
    BY <1>2, <1>3, <2>2, <2>3, <2>4 DEF Sealing
<1>6. Verifying(mine)'
  <2>1. Linked(mine.seen)' <=> Linked(mine.seen)
    BY <1>2 DEF Linked, FirstLinked, HashOf
  <2> QED
    BY <1>1, <1>2, <1>3, <2>1 DEF Verifying
<1>7. Purging(mine)'
  <2> SUFFICES ASSUME mine.at \in {"entries", "truncate", "drop"} PROVE Purging(mine)'
    BY <1>3 DEF Purging
  <2>1. ASSUME NEW cut, CutHolds(cut), cut.to <= now - Retention
        PROVE  CutHolds(cut)'
    <3>1. CASE cut \in Table'
      BY <1>1, <2>1, <3>1 DEF CutHolds
    <3>2. CASE cut \in Table /\ cut \notin Table'
      <4>1. PICK c \in DOMAIN segments : cut = segments[c]
        BY <3>2 DEF Table
      <4>2. /\ DOMAIN segments' = 1 .. Len(segments) - k
            /\ \A i \in DOMAIN segments' : i + k \in DOMAIN segments /\ segments'[i] = segments[i + k]
            /\ DOMAIN segments = 1 .. Len(segments) /\ Len(segments) \in Nat /\ k \in Nat
        BY <1>0, Left, Shapes DEF Drops
      <4>3. c <= k
        <5> SUFFICES ASSUME c > k PROVE FALSE
          BY <4>1, <4>2
        <5>1. c - k \in DOMAIN segments' /\ (c - k) + k = c
          BY <4>1, <4>2
        <5>2. segments'[c - k] = cut
          BY <4>1, <4>2, <5>1
        <5> QED
          BY <3>2, <5>1, <5>2 DEF Table
      <4>4. ASSUME NEW s \in Table' PROVE s.seq > cut.seq
        <5>1. PICK i \in DOMAIN segments' : s = segments'[i]
          BY <4>4 DEF Table
        <5>2. i + k \in DOMAIN segments /\ s = segments[i + k] /\ c < i + k
          BY <4>1, <4>2, <4>3, <5>1
        <5>3. cut.seq < s.seq
          BY <1>0, <4>1, <5>2 DEF Chain, Ordered
        <5>4. cut.seq \in Nat /\ s.seq \in Nat
          BY <1>0, <1>1, <3>2, <4>4, InOrder
        <5> QED
          BY <5>3, <5>4
      <4> QED
        BY <1>1, <2>1, <4>4 DEF CutHolds
    <3>3. CASE cut \notin Table
      BY <1>1, <2>1, <3>3 DEF CutHolds
    <3> QED
      BY <3>1, <3>2, <3>3
  <2>2. mine.seen # <<>> => CutHolds(Head(mine.seen))'
    <3> SUFFICES ASSUME mine.seen # <<>> PROVE CutHolds(Head(mine.seen))'
      OBVIOUS
    <3>1. CutHolds(Head(mine.seen)) /\ Head(mine.seen).to = mine.to
      BY <1>3 DEF Purging
    <3>2. mine.to <= mine.started - Retention /\ mine.started <= now
      BY <1>3 DEF Purging, Started
    <3>3. mine.to \in Int /\ mine.started \in Int /\ now \in Int
      BY <1>0, Shapes, Bounds DEF Doing
    <3>4. mine.to <= now - Retention
      BY <3>2, <3>3, Bounds
    <3> QED
      BY <2>1, <3>1, <3>4
  <2>3. InRange(0, mine.to)' = InRange(0, mine.to)
    BY <1>2 DEF InRange
  <2> QED
    BY <1>1, <1>2, <1>3, <2>2, <2>3 DEF Purging, HashOf
<1> QED
  BY <1>4, <1>5, <1>6, <1>7 DEF Known

(* The segments up to the cut: none is within the retention, none still    *)
(* has a row, and the next is the one the truncation accounts for.         *)
LEMMA DropsUpTo ==
  ASSUME ChainInv, NEW r \in Runs, PurgeDrop(r)
  PROVE  \E k : Drops(k)
<1> DEFINE was == doing[r]
           cut == Head(was.seen)
<1>0. /\ ChainTypeOK /\ Clock /\ Chain /\ was.at = "drop" /\ Known(was)
      /\ was.seen \in Seq(Segment) /\ was.to \in Int /\ was.to <= now - Retention
  BY Timely, RunFields, PurgeIsPast DEF ChainInv, PurgeDrop
<1>1. /\ was.seen # <<>> /\ cut.to = was.to /\ CutHolds(cut)
      /\ InRange(0, was.to) = {} /\ HashOf(cut) \in truncated
  BY <1>0 DEF Known, Purging
<1>2. cut \in Segment
  BY <1>0, <1>1, HeadTailProperties
<1>3. cut.seq \in Nat /\ cut.to \in Int
  BY <1>2, SegmentShape
<1>4. PICK k \in 0 .. Len(segments) :
        /\ \A i \in DOMAIN segments : segments[i].seq <= cut.seq <=> i <= k
        /\ segments' = SubSeq(segments, k + 1, Len(segments))
  BY DEF PurgeDrop, UpToSeq
<1>5. UNCHANGED <<now, recorded, open, log, truncated>>
  BY DEF PurgeDrop
<1> HIDE DEF cut
<1>6. /\ DOMAIN segments = 1 .. Len(segments) /\ Len(segments) \in Nat
      /\ k \in Nat /\ k <= Len(segments)
      /\ \A i \in DOMAIN segments : segments[i] \in Table /\ segments[i] \in Segment
      /\ \A i \in DOMAIN segments : segments[i].seq \in Nat /\ segments[i].to \in Int
  BY <1>0, <1>4, Shapes, SegmentShape DEF Table
<1>7. segments # <<>> /\ cut.seq <= Tip.seq /\ (cut \in Table \/ \A s \in Table : s.seq > cut.seq)
  BY <1>1 DEF CutHolds
<1>8. /\ Len(segments) \in DOMAIN segments /\ Tip = segments[Len(segments)]
      /\ Tip \in Table /\ Len(segments) >= 1
  BY <1>0, <1>7, Shapes
<1>9. k >= 1 => cut \in Table
  <2> SUFFICES ASSUME k >= 1, \A s \in Table : s.seq > cut.seq PROVE FALSE
    BY <1>7
  <2>1. 1 \in DOMAIN segments
    BY <1>6
  <2> QED
    BY <1>3, <1>4, <1>6, <2>1
<1>10. k >= 1 => cut = segments[k]
  <2> SUFFICES ASSUME k >= 1 PROVE cut = segments[k]
    OBVIOUS
  <2>1. PICK c \in DOMAIN segments : cut = segments[c]
    BY <1>9 DEF Table
  <2>2. c <= k /\ k \in DOMAIN segments
    BY <1>3, <1>4, <1>6, <2>1
  <2>3. segments[k].seq <= cut.seq
    BY <1>4, <1>6, <2>2
  <2>4. ~(c < k)
    <3>1. c < k => segments[c].seq < segments[k].seq
      BY <1>0, <2>2 DEF Chain, Ordered
    <3> QED
      BY <1>3, <1>6, <2>1, <2>2, <2>3, <3>1
  <2> QED
    BY <1>6, <2>1, <2>2, <2>4
<1>11. k < Len(segments)
  <2>0. k \in Nat /\ Len(segments) \in Nat /\ k <= Len(segments)
    BY <1>6
  <2> SUFFICES ASSUME k = Len(segments) PROVE FALSE
    BY <2>0
  <2>1. cut = Tip
    BY <1>8, <1>10
  <2>2. Fresh(cut.to)
    BY <1>0, <1>7, <2>1 DEF Clock
  <2> QED
    BY <1>0, <1>1, <1>3, <2>2, Shapes, Bounds DEF Fresh
<1>12. ASSUME NEW i \in 1 .. k
       PROVE  segments[i].to <= now - Retention /\ segments[i].rows \cap log = {}
  <2>1. i \in DOMAIN segments /\ k \in DOMAIN segments /\ k >= 1
    BY <1>6
  <2>2. segments[i].to <= cut.to
    <3>1. i < k => segments[i].to <= segments[k].from
      BY <1>0, <2>1 DEF Chain, Ordered
    <3>2. segments[k].from < segments[k].to /\ segments[k].from \in Int /\ segments[k].to \in Int
          /\ segments[i].to \in Int
      BY <1>0, <1>6, <2>1, InOrder
    <3>3. i < k \/ i = k
      BY <1>6
    <3>4. cut.to = segments[k].to
      BY <1>10, <2>1
    <3>5. CASE i = k
      BY <3>2, <3>4, <3>5
    <3>6. CASE i < k
      BY <3>1, <3>2, <3>4, <3>6
    <3> QED
      BY <3>3, <3>5, <3>6
  <2>3. segments[i].to <= now - Retention
    <3>1. now \in Int /\ Retention \in Int /\ segments[i].to \in Int
      BY <1>0, <1>6, <2>1, Shapes, Bounds
    <3>2. cut.to <= now - Retention
      BY <1>0, <1>1
    <3> QED
      BY <1>3, <2>2, <3>1, <3>2
  <2>4. segments[i].rows \cap log = {}
    <3> SUFFICES ASSUME NEW e \in log, e \in segments[i].rows PROVE FALSE
      OBVIOUS
    <3>1. recorded[e] <= segments[i].to
      BY <1>0, <1>6, <2>1 DEF Chain, WellSealed
    <3>2. recorded[e] \in Nat /\ recorded[e] >= 1
      BY <1>0, Shapes
    <3>3. recorded[e] <= was.to
      BY <1>0, <1>1, <1>6, <2>1, <2>2, <3>1, <3>2
    <3> QED
      BY <1>1, <3>2, <3>3 DEF InRange
  <2> QED
    BY <2>3, <2>4
<1>13. FirstLinked(segments[k + 1])
  <2>1. CASE k = 0
    BY <1>0, <1>7, <2>1 DEF Chain
  <2>2. CASE k >= 1
    <3>1. k + 1 \in DOMAIN segments /\ k + 1 > 1 /\ (k + 1) - 1 = k
      BY <1>6, <1>11, <2>2
    <3>2. segments[k + 1].prev = HashOf(segments[k])
      BY <1>0, <3>1 DEF Chain, Joined
    <3> QED
      BY <1>1, <1>10, <2>2, <3>2 DEF FirstLinked
  <2> QED
    BY <1>6, <2>1, <2>2
<1>14. Drops(k)
  BY <1>4, <1>5, <1>6, <1>11, <1>12, <1>13 DEF Drops
<1> QED
  BY <1>14

(* dropSegments() leaves one chain behind.                                 *)
LEMMA PurgeDropStep ==
  ASSUME ChainInv, NEW r \in Runs, PurgeDrop(r), ChainTypeOK'
  PROVE  ChainInv'
<1>1. PICK k : Drops(k)
  BY DropsUpTo
<1>2. ChainTypeOK /\ Clock /\ Chain /\ Go(r, Idle)
  BY DEF ChainInv, PurgeDrop, Stop
<1>3. ASSUME NEW mine, mine \in InFlight' PROVE Known(mine)'
  <2>1. mine = Idle \/ mine \in InFlight
    BY <1>2, <1>3, FlightAfter
  <2>2. mine \in Doing /\ Known(mine)
    BY <1>2, <2>1, IdleIs, KnownBlank, RunFields DEF InFlight, ChainInv
  <2> QED
    BY <1>1, <2>2, KnownDrops
<1> QED
  BY <1>1, <1>2, <1>3, ChainDrops, ClockDrops DEF ChainInv

-----------------------------------------------------------------------------
(* The theorems.                                                           *)

(* At the start there is no entry, no segment and no run.                  *)
LEMMA InvInit ==
  ASSUME ChainInit
  PROVE  ChainInv
<1>1. ChainTypeOK
  <2>1. <<>> \in Seq(1 .. MaxTime) /\ <<>> \in Seq(Segment) /\ Len(<<>>) = 0
    BY EmptySeq
  <2>2. MaxEntries \in Nat /\ MaxDeaths \in Nat /\ MaxTime \in Nat /\ MaxTime >= 1
    BY ChainAssumption, Bounds
  <2>3. doing \in [Runs -> Doing]
    BY IdleIs DEF ChainInit, Runs
  <2> QED
    BY <2>1, <2>2, <2>3 DEF ChainInit, ChainTypeOK, Runs, Doing
<1>2. DOMAIN segments = {} /\ Table = {} /\ DOMAIN recorded = {}
  BY DEF ChainInit, Table
<1>3. Clock
  BY <1>2 DEF ChainInit, Clock
<1>4. Chain
  BY <1>2 DEF ChainInit, Chain, Joined, Ordered, SealedForGood
<1>5. \A mine \in InFlight : Known(mine)
  BY <1>1, KnownBlank DEF ChainInit, InFlight, Runs
<1> QED
  BY <1>1, <1>3, <1>4, <1>5 DEF ChainInv

(* Every step keeps the invariant.                                         *)
LEMMA InvStep ==
  ASSUME ChainInv, [ChainNext]_chainVars
  PROVE  ChainInv'
<1>1. ChainTypeOK'
  BY ChainTypeStep
<1>2. ASSUME NEW r \in Runs, StartChain(r) \/ StartPurge(r) \/ Killed(r) PROVE ChainInv'
  BY <1>1, <1>2, BeginStep
<1>3. ASSUME NEW r \in Runs, Seal(r) PROVE ChainInv'
  BY <1>1, <1>3, SealLastStep, SealWindowStep, SealInsertStep DEF Seal
<1>4. ASSUME NEW r \in Runs, Verify(r) PROVE ChainInv'
  BY <1>1, <1>4, VerifyStep
<1>5. ASSUME NEW r \in Runs, Purge(r) PROVE ChainInv'
  BY <1>1, <1>5, PurgeCutStep, PurgeEntriesStep, PurgeTruncateStep, PurgeDropStep DEF Purge
<1>6. CASE UNCHANGED chainVars
  <2>1. UNCHANGED <<now, recorded, open, log, segments, truncated, doing>>
    BY <1>6 DEF chainVars
  <2>2. ChainTypeOK /\ Clock /\ now \in Nat
    BY Shapes DEF ChainInv
  <2>3. Ongoing
    BY <2>1, <2>2 DEF Ongoing, InRange, IsFirst
  <2>4. Clock'
    BY <2>1, <2>2 DEF Clock, Sealed, Table, Fresh, Tip
  <2>5. ASSUME NEW mine, mine \in InFlight'
        PROVE  mine \in Doing /\ Known(mine) /\ Started(mine)'
    <3>1. mine \in InFlight
      BY <2>1, <2>5 DEF InFlight
    <3>2. mine \in Doing /\ Known(mine)
      BY <2>2, <3>1, RunFields DEF InFlight, ChainInv
    <3> QED
      BY <2>1, <3>2 DEF Known, Started
  <2> QED
    BY <1>1, <2>2, <2>3, <2>4, <2>5, GoesOnStep
<1> QED
  BY <1>1, <1>2, <1>3, <1>4, <1>5, <1>6, RecordStep, CommitStep, TickStep DEF ChainNext, Runs

(* The invariant says of a verification that it raises no false alarm.     *)
LEMMA NoFalseAlarm ==
  ASSUME ChainInv
  PROVE  NoBrokenLink /\ AlarmsPastRetention
<1>0. ChainTypeOK /\ Chain
  BY DEF ChainInv
<1>1. ASSUME NEW r \in ChainRuns, doing[r].at = "links" PROVE Linked(doing[r].seen)
  BY <1>1, Timely DEF Runs, Known, Verifying
<1>2. ASSUME NEW r \in ChainRuns, doing[r].at = "check"
      PROVE  Intact(Head(doing[r].seen)) \/ Head(doing[r].seen).to <= now - Retention
  <2> DEFINE s == Head(doing[r].seen)
  <2>1. doing[r].seen \in Seq(Segment) /\ Verifying(doing[r])
    BY <1>0, Timely, RunFields DEF Runs, Known
  <2>2. doing[r].seen # <<>> /\ 1 \in DOMAIN doing[r].seen /\ s = doing[r].seen[1]
    <3>1. doing[r].seen # <<>>
      BY <1>2, <2>1 DEF Verifying
    <3>2. Len(doing[r].seen) \in Nat \ {0} /\ DOMAIN doing[r].seen = 1 .. Len(doing[r].seen)
      BY <2>1, <3>1, EmptySeq, LenProperties
    <3> QED
      BY <3>1, <3>2
  <2>3. s \in Table \/ s.to <= now - Retention
    BY <1>2, <2>1, <2>2 DEF Verifying
  <2> HIDE DEF s
  <2>4. ASSUME s \in Table PROVE Intact(s) \/ s.to <= now - Retention
    <3>1. s.from \in Int /\ s.to \in Int /\ now \in Int /\ Snug(s.rows)
      BY <1>0, <2>4, InOrder, Shapes DEF Chain, WellSealed
    <3>2. s.to > now - Retention => InRange(s.from, s.to) = s.rows
      BY <1>0, <2>4 DEF Chain, SealedForGood
    <3>3. s.to > now - Retention => RowsIn(s.from, s.to).rows = s.rows
      BY <1>0, <3>1, <3>2, ReadAgain
    <3> QED
      BY <3>1, <3>3, Bounds DEF Intact
  <2> QED
    BY <2>3, <2>4 DEF s
<1> QED
  BY <1>1, <1>2 DEF NoBrokenLink, AlarmsPastRetention

(* The invariant holds of every behaviour.                                 *)
THEOREM ChainInvariant == ChainSpec => []ChainInv
BY InvInit, InvStep, PTL DEF ChainSpec

(* Types.                                                                  *)
THEOREM ChainTypeCorrect == ChainSpec => []ChainTypeOK
<1>1. ChainInv => ChainTypeOK
  BY DEF ChainInv
<1> QED
  BY <1>1, ChainInvariant, PTL

(* Whatever runs overlap or die, the segments are one chain.               *)
THEOREM AlwaysOneChain == ChainSpec => []OneChain
<1>1. ChainInv => OneChain
  BY DEF ChainInv, Chain, Joined, OneChain
<1> QED
  BY <1>1, ChainInvariant, PTL

(* No verification is about to report a link as broken.                    *)
THEOREM NeverABrokenLink == ChainSpec => []NoBrokenLink
<1>1. ChainInv => NoBrokenLink
  BY NoFalseAlarm
<1> QED
  BY <1>1, ChainInvariant, PTL

(* A stretch within the retention holds the rows it was sealed over.       *)
THEOREM AlwaysSealedForGood == ChainSpec => []SealedForGood
<1>1. ChainInv => SealedForGood
  BY DEF ChainInv, Chain
<1> QED
  BY <1>1, ChainInvariant, PTL

(* A verification finds a difference only where a purge may be at work.    *)
THEOREM AlarmsOnlyPastRetention == ChainSpec => []AlarmsPastRetention
<1>1. ChainInv => AlarmsPastRetention
  BY NoFalseAlarm
<1> QED
  BY <1>1, ChainInvariant, PTL
=============================================================================
