---------------------------- MODULE Announcements ----------------------------
(***************************************************************************)
(* One announcement from Circl to many members: the staff handlers that    *)
(* send, schedule, edit and cancel it, the BullMQ job behind it, and the   *)
(* fan-out that mails a batch of members at a time.                        *)
(*                                                                         *)
(*   admin/comms/admin-announcement.service.ts, announcement.queue.ts,     *)
(*   announcement.processor.ts, announcement-fanout.service.ts             *)
(*                                                                         *)
(* A staff handler reads the row, writes it, and then turns to the queue;  *)
(* the fan-out re-reads only the state, between batches.  Members are      *)
(* numbered in the order of their ids.  One channel, e-mail: a channel's   *)
(* delivery rows do not meet another's.                                    *)
(***************************************************************************)
EXTENDS Naturals, FiniteSets

CONSTANTS
  Members,       \* ids, a set of positive numbers
  Audiences,     \* what a filter may resolve to
  OptedOut,      \* members who turned announcements off
  AUDIENCE_FLOOR,
  BATCH,
  ATTEMPTS,
  Calls,         \* requests by staff; each is handled once
  Workers,       \* worker processes of the queue
  MaxFaults      \* bound: deaths, lost locks and failures nobody writes down

ASSUME ConstantsAssumption ==
  /\ Members \subseteq Nat \ {0} /\ IsFiniteSet(Members)
  /\ Audiences \subseteq SUBSET Members /\ Members \in Audiences
  /\ OptedOut \subseteq Members
  /\ AUDIENCE_FLOOR \in Nat /\ BATCH \in Nat \ {0} /\ ATTEMPTS \in Nat \ {0}
  /\ MaxFaults \in Nat

VARIABLES
  state,         \* the announcement's state
  audience,      \* whom its stored filter addresses
  delivery,      \* the status of each member's delivery row
  job,           \* the job whose id is the announcement's
  call,          \* what each staff handler is doing
  run,           \* what each worker is doing
  got,           \* history: mails each member had (two stands for more)
  late,          \* history: batches each worker began since the last cancellation
  faults         \* faults so far

vars == <<state, audience, delivery, job, call, run, got, late, faults>>
row == <<state, audience>>
history == <<got, late>>

States == {"DRAFT", "SCHEDULED", "SENDING", "SENT", "FAILED", "CANCELLED"}
Statuses == {"none", "PENDING", "SENT", "FAILED", "SKIPPED_PREFERENCE"}
EDITABLE == {"DRAFT", "SCHEDULED"}
RESUMABLE == {"SENDING", "SCHEDULED", "FAILED"}

Ops == {"send", "schedule", "update", "cancel"}
CallSteps == {"idle", "write", "unqueue", "enqueue", "done"}
RunSteps == {"idle", "read", "begin", "check", "create", "mail", "mark", "finish", "return", "throw"}
JobStates == {"none", "delayed", "waiting", "active", "failed"}

NoJob == [at |-> "none", made |-> 0, stalls |-> 0, lock |-> {}]
Resting == [at |-> "idle", to |-> {}, cursor |-> 0, batch |-> {}, last |-> FALSE]
Unasked == [at |-> "idle", op |-> "send", audience |-> Members]

Init ==
  /\ state = "DRAFT"
  /\ audience = Members
  /\ delivery = [m \in Members |-> "none"]
  /\ job = NoJob
  /\ call = [c \in Calls |-> Unasked]
  /\ run = [w \in Workers |-> Resting]
  /\ got = [m \in Members |-> 0]
  /\ late = [w \in Workers |-> 0]
  /\ faults = 0

Crowd(members) == Cardinality(members) >= AUDIENCE_FLOOR

-----------------------------------------------------------------------------
(* BullMQ, as the services rely on it.  A job id that is already there, in *)
(* any state, drops the addition; an active job is locked and cannot be    *)
(* removed; a job that completes goes, one that has used up its attempts   *)
(* stays.                                                                  *)
AddBeside(at) == job' = [NoJob EXCEPT !.at = at]                  \* a mutant
Add(at) == job' = IF job.at = "none" THEN [NoJob EXCEPT !.at = at] ELSE job

Remove == job' = IF job.at = "active" THEN job ELSE NoJob

Mine(w) == job.at = "active" /\ job.lock = {w}

Complete(w) == job' = IF Mine(w) THEN NoJob ELSE job

AttemptsLeft(made) == made < ATTEMPTS

Reject(w) ==
  job' = IF ~Mine(w) THEN job
         ELSE [job EXCEPT !.made = @ + 1,
                          !.lock = {},
                          !.at = IF AttemptsLeft(job.made + 1) THEN "delayed" ELSE "failed"]

(* Its lock expired: back to the queue once, failed the second time.       *)
Stalled ==
  [job EXCEPT !.stalls = @ + 1, !.lock = {},
              !.at = IF job.stalls = 0 THEN "waiting" ELSE "failed"]

Due ==
  /\ job.at = "delayed"
  /\ job' = [job EXCEPT !.at = "waiting"]
  /\ UNCHANGED <<row, delivery, call, run, history, faults>>

-----------------------------------------------------------------------------
(* The staff handlers.  Each begins by reading the row.                    *)
May(op) ==
  CASE op = "send" -> state \in EDITABLE \cup {"FAILED"}
    [] op = "schedule" -> state \in EDITABLE
    [] op = "update" -> state \in EDITABLE
    [] op = "cancel" -> state \in {"SCHEDULED", "SENDING"}

(* assertCrowd: the stored audience, or on an edit of a schedule the new   *)
(* one.                                                                    *)
CrowdFor(op, new) ==
  CASE op = "update" -> state = "SCHEDULED" => Crowd(new)
    [] op = "cancel" -> TRUE
    [] OTHER -> Crowd(audience)

Ask(c, op, new) ==
  /\ call[c].at = "idle"
  /\ op = "update" \/ new = audience
  /\ May(op) /\ CrowdFor(op, new)
  /\ call' = [call EXCEPT ![c] = [at |-> "write", op |-> op, audience |-> new]]
  /\ UNCHANGED <<row, delivery, job, run, history, faults>>

CallGoTo(c, step) ==
  call' = [call EXCEPT ![c] = IF step = "done" THEN [Unasked EXCEPT !.at = "done"]
                              ELSE [@ EXCEPT !.at = step]]

(* The update is by id: what was checked may have changed.                 *)
Written(op) ==
  CASE op = "send" -> "SENDING"
    [] op = "schedule" -> "SCHEDULED"
    [] op = "update" -> state
    [] op = "cancel" -> "CANCELLED"

Write(c) ==
  /\ call[c].at = "write"
  /\ state' = Written(call[c].op)
  /\ audience' = IF call[c].op = "update" THEN call[c].audience ELSE audience
  /\ late' = IF call[c].op = "cancel" THEN [w \in Workers |-> 0] ELSE late
  /\ CallGoTo(c, IF call[c].op = "update" THEN "done" ELSE "unqueue")
  /\ UNCHANGED <<delivery, job, run, got, faults>>

Unqueue(c) ==
  /\ call[c].at = "unqueue"
  /\ Remove
  /\ CallGoTo(c, IF call[c].op = "cancel" THEN "done" ELSE "enqueue")
  /\ UNCHANGED <<row, delivery, run, history, faults>>

Enqueue(c) ==
  /\ call[c].at = "enqueue"
  /\ Add(IF call[c].op = "schedule" THEN "delayed" ELSE "waiting")
  /\ CallGoTo(c, "done")
  /\ UNCHANGED <<row, delivery, run, history, faults>>

(* Refused, or failed at any step, with what it had done by then.          *)
Abandon(c) ==
  /\ call[c].at # "done"
  /\ CallGoTo(c, "done")
  /\ UNCHANGED <<row, delivery, job, run, history, faults>>

-----------------------------------------------------------------------------
(* The processor takes the job and knows which attempt it is on.           *)
LastTooLate == job.made >= ATTEMPTS                               \* a mutant
Last == job.made + 1 >= ATTEMPTS

Take(w) ==
  /\ job.at = "waiting"
  /\ run[w].at = "idle"
  /\ job' = [job EXCEPT !.at = "active", !.lock = {w}]
  /\ run' = [run EXCEPT ![w] = [Resting EXCEPT !.at = "read", !.last = Last]]
  /\ UNCHANGED <<row, delivery, call, history, faults>>

RunGoTo(w, step) == run' = [run EXCEPT ![w].at = step]
Leave(w, step) == run' = [run EXCEPT ![w] = [Resting EXCEPT !.at = step]]

Read(w) ==
  /\ run[w].at = "read"
  /\ IF state \in RESUMABLE
       THEN run' = [run EXCEPT ![w].at = "begin", ![w].to = audience]
       ELSE Leave(w, "return")
  /\ UNCHANGED <<row, delivery, job, call, history, faults>>

(* The floor again, and the state, by id.                                  *)
Begin(w) ==
  /\ run[w].at = "begin"
  /\ IF Crowd(run[w].to)
       THEN state' = "SENDING" /\ RunGoTo(w, "check")
       ELSE state' = "FAILED" /\ Leave(w, "return")
  /\ UNCHANGED <<audience, delivery, job, call, history, faults>>

(* The next batch: the first BATCH members past the cursor.                *)
Ahead(w) == {m \in run[w].to : m > run[w].cursor}
Batch(w) == {m \in Ahead(w) : Cardinality({n \in Ahead(w) : n < m}) < BATCH}
Furthest(members) == CHOOSE m \in members : \A n \in members : n <= m

SkipOne(w) == Furthest(Batch(w)) + 1                              \* a mutant
Cursor(w) == Furthest(Batch(w))

GoesOnAnyway == state \in States                                  \* a mutant
GoesOn == state = "SENDING"

Check(w) ==
  /\ run[w].at = "check"
  /\ IF ~GoesOn THEN Leave(w, "return")
     ELSE IF Ahead(w) = {} THEN RunGoTo(w, "finish")
     ELSE run' = [run EXCEPT ![w].at = "create", ![w].batch = Batch(w), ![w].cursor = Cursor(w)]
  /\ UNCHANGED <<row, delivery, job, call, history, faults>>

(* deliver(): a row for everybody in the batch who has none.               *)
Create(w) ==
  /\ run[w].at = "create"
  /\ delivery' = [m \in Members |->
                    IF m \in run[w].batch /\ delivery[m] = "none" THEN "PENDING" ELSE delivery[m]]
  /\ late' = IF state = "CANCELLED" /\ late[w] < 2 THEN [late EXCEPT ![w] = @ + 1] ELSE late
  /\ RunGoTo(w, "mail")
  /\ UNCHANGED <<row, job, call, got, faults>>

NextUp(w) == CHOOSE m \in run[w].batch : \A n \in run[w].batch : m <= n
AfterMember(w) ==
  LET rest == run[w].batch \ {NextUp(w)}
  IN  run' = [run EXCEPT ![w].batch = rest, ![w].at = IF rest = {} THEN "check" ELSE "mail"]

(* The mail goes out whatever the row says; marking it is another step.    *)
Mail(w) ==
  /\ run[w].at = "mail" /\ NextUp(w) \notin OptedOut
  /\ got' = [got EXCEPT ![NextUp(w)] = IF @ < 2 THEN @ + 1 ELSE @]
  /\ RunGoTo(w, "mark")
  /\ UNCHANGED <<row, delivery, job, call, late, faults>>

(* Or it does not: not allowed; no address, or refused by the provider.    *)
MailNot(w) ==
  /\ run[w].at = "mail"
  /\ delivery' = [delivery EXCEPT ![NextUp(w)] =
                    IF NextUp(w) \in OptedOut THEN "SKIPPED_PREFERENCE" ELSE "FAILED"]
  /\ AfterMember(w)
  /\ UNCHANGED <<row, job, call, history, faults>>

(* SENT; FAILED, when writing that threw; or neither could be written.     *)
Mark(w) ==
  /\ run[w].at = "mark"
  /\ \E status \in {"SENT", "FAILED", delivery[NextUp(w)]} :
       delivery' = [delivery EXCEPT ![NextUp(w)] = status]
  /\ AfterMember(w)
  /\ UNCHANGED <<row, job, call, history, faults>>

Finish(w) ==
  /\ run[w].at = "finish"
  /\ state' = "SENT"
  /\ Leave(w, "return")
  /\ UNCHANGED <<audience, delivery, job, call, history, faults>>

(* An exception inside the loop: said in the row, and FAILED on the last   *)
(* attempt.                                                                *)
Break(w) ==
  /\ run[w].at \in {"check", "create", "finish"}
  /\ state' = IF run[w].last THEN "FAILED" ELSE state
  /\ Leave(w, "throw")
  /\ UNCHANGED <<audience, delivery, job, call, history, faults>>

Return(w) ==
  /\ run[w].at = "return"
  /\ Complete(w)
  /\ run' = [run EXCEPT ![w] = Resting]
  /\ UNCHANGED <<row, delivery, call, history, faults>>

Throw(w) ==
  /\ run[w].at = "throw"
  /\ Reject(w)
  /\ run' = [run EXCEPT ![w] = Resting]
  /\ UNCHANGED <<row, delivery, call, history, faults>>

-----------------------------------------------------------------------------
(* Faults: the process dies, the lock of a run that goes on expires, or an *)
(* exception is thrown where nothing is written about it (before the try,  *)
(* or by the update in the catch).                                         *)
Die(w) ==
  /\ run[w].at # "idle" /\ faults < MaxFaults
  /\ run' = [run EXCEPT ![w] = Resting]
  /\ faults' = faults + 1
  /\ UNCHANGED <<row, delivery, job, call, history>>

LoseLock(w) ==
  /\ Mine(w) /\ run[w].at # "idle" /\ faults < MaxFaults
  /\ job' = Stalled
  /\ faults' = faults + 1
  /\ UNCHANGED <<row, delivery, call, run, history>>

BreakUnsaid(w) ==
  /\ run[w].at \in {"read", "begin", "check", "create", "finish"} /\ faults < MaxFaults
  /\ Leave(w, "throw")
  /\ faults' = faults + 1
  /\ UNCHANGED <<row, delivery, job, call, history>>

(* The queue's check for jobs whose worker is gone.                        *)
Stall ==
  /\ \E w \in Workers : Mine(w) /\ run[w].at = "idle"
  /\ job' = Stalled
  /\ UNCHANGED <<row, delivery, call, run, history, faults>>

-----------------------------------------------------------------------------
Handle(c) == Write(c) \/ Unqueue(c) \/ Enqueue(c)
Step(w) == \/ Read(w) \/ Begin(w) \/ Check(w) \/ Create(w) \/ Mail(w) \/ MailNot(w)
           \/ Mark(w) \/ Finish(w) \/ Return(w) \/ Throw(w)
Serve == \E w \in Workers : Take(w)

Next ==
  \/ \E c \in Calls :
       \/ \E op \in Ops, new \in Audiences : Ask(c, op, new)
       \/ Handle(c) \/ Abandon(c)
  \/ \E w \in Workers : Step(w) \/ Break(w) \/ Die(w) \/ LoseLock(w) \/ BreakUnsaid(w)
  \/ Serve \/ Due \/ Stall

Spec == Init /\ [][Next]_vars

(* A worker that lives goes on, a waiting job is taken, a delay passes and *)
(* stalled jobs are looked for.  Staff handlers and faults are not owed.   *)
FairSpec ==
  /\ Spec
  /\ \A w \in Workers : WF_vars(Step(w))
  /\ WF_vars(Serve) /\ WF_vars(Due) /\ WF_vars(Stall)

-----------------------------------------------------------------------------
Running == {w \in Workers : run[w].at # "idle"}

(* Types.                                                                  *)
TypeOK ==
  /\ state \in States /\ audience \in SUBSET Members
  /\ delivery \in [Members -> Statuses]
  /\ job \in [at : JobStates, made : 0..ATTEMPTS, stalls : 0..2, lock : SUBSET Workers]
  /\ call \in [Calls -> [at : CallSteps, op : Ops, audience : SUBSET Members]]
  /\ run \in [Workers -> [at : RunSteps, to : SUBSET Members, cursor : Nat,
                          batch : SUBSET Members, last : BOOLEAN]]
  /\ got \in [Members -> 0..2] /\ late \in [Workers -> 0..2] /\ faults \in 0..MaxFaults

(* "A double-pressed send cannot start two fan-outs" (enqueue): however    *)
(* the handlers overlap, there are two at once only after a lock was lost. *)
OneFanoutAtATime == Cardinality(Running) <= 1 + faults

(* "Cancelling a send in progress stops the rest of it within one batch":  *)
(* while an announcement stays cancelled, no run begins more than the      *)
(* batch it had decided on.                                                *)
CancelStopsTheRest == state = "CANCELLED" => \A w \in Workers : late[w] <= 1

(* SENT is written only when everybody the run was for was mailed or has a *)
(* row that says why not, whatever was interrupted on the way.             *)
Answered(m) == got[m] > 0 \/ delivery[m] \in {"FAILED", "SKIPPED_PREFERENCE"}
SentMeansEveryone ==
  [][state # "SENT" /\ state' = "SENT" =>
       \E w \in Workers : run[w].at = "finish" /\ \A m \in run[w].to : Answered(m)]_vars

(* A send whose job is in the queue, with no other handler under way, does *)
(* not stay "going out now" for ever: the row says how it ended, or, after *)
(* a failure nobody could write down, the queue keeps a failed job.        *)
Quiescent == \A c \in Calls : call[c].at \in {"idle", "done"}
QueuedSendEnds ==
  state = "SENDING" /\ job.at = "waiting" /\ Quiescent
    ~> state # "SENDING" \/ (job.at = "failed" /\ faults > 0)
=============================================================================
