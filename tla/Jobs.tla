---------------------------------- MODULE Jobs ----------------------------------
(***************************************************************************)
(* Work between two members: a professional's bookings and a shop's orders *)
(* ("enquiries"), which share their states and the disputes about them.    *)
(*                                                                         *)
(*   platform/professionals/services/booking.service.ts                    *)
(*   platform/commerce/services/enquiry.service.ts                         *)
(*   platform/professionals/services/dispute.service.ts                    *)
(*   admin/services/admin-dispute.service.ts                               *)
(*   platform/account/services/account-deletion.service.ts, closeOpenWork  *)
(*                                                                         *)
(* The jobs are all of one provider.   A handler reads, checks, and then   *)
(* writes by id in a transaction that repeats no check: two steps, with    *)
(* what the first decided kept in the handler.  So is creating a job: the  *)
(* listing or the shop is read before, and may be gone by the write.  Only *)
(* the orders' expiry is one guarded statement.                            *)
(***************************************************************************)
EXTENDS Integers, Sequences, FiniteSets

CONSTANTS
  Procs,        \* handlers and sweeps that may be under way at once
  Bookings, Orders,
  MaxAsked,     \* bound: requests of members and staff
  MaxDisputes   \* bound: disputes about one job

JobIds == Bookings \cup Orders

ASSUME ConstantsAssumption ==
  /\ IsFiniteSet(JobIds) /\ Bookings \cap Orders = {}
  /\ MaxAsked \in Nat /\ MaxDisputes \in Nat

VARIABLES
  state,        \* the JobState of each, ABSENT before it is created
  deadline,     \* autoCompleteAt or expiresAt: none, ahead or passed
  stages,       \* its events; one of a stage at most (the unique index)
  jobsCompleted,\* the counter on the provider's listing
  dispute,      \* the states of the disputes about it, oldest first
  gone,         \* the provider has closed his account
  h,            \* what each handler is doing
  asked,
  waited,       \* history: bookings whose seven days have passed since delivery
  crossed       \* history: jobs two handlers have been about at once

vars == <<state, deadline, stages, jobsCompleted, dispute, gone, h, asked, waited, crossed>>
job == <<state, deadline, stages, jobsCompleted>>
history == <<waited, crossed>>

JobState == {"PENDING_ACCEPTANCE", "ACCEPTED", "IN_PROGRESS", "DELIVERED", "CHANGES_REQUESTED",
             "COMPLETED", "CANCELLED", "DISPUTED", "EXPIRED"}
Live == {"OPEN", "IN_REVIEW"}
OpenOrder == {"ACCEPTED", "IN_PROGRESS", "DELIVERED"}
OpenBooking == OpenOrder \cup {"PENDING_ACCEPTANCE", "CHANGES_REQUESTED"}

(* What accept, decline, start, deliver, requestChanges, complete and      *)
(* cancel ask of transition(); decline is the provider's cancellation.     *)
Move(by, from, to, stage) == [by |-> by, from |-> from, to |-> to, stage |-> stage]
Either == {"CLIENT", "PROVIDER"}
BookingMoves == {
  Move({"PROVIDER"}, {"PENDING_ACCEPTANCE"}, "ACCEPTED", "ACCEPTED"),
  Move({"PROVIDER"}, {"ACCEPTED"}, "IN_PROGRESS", "IN_PROGRESS"),
  Move({"PROVIDER"}, {"IN_PROGRESS", "CHANGES_REQUESTED"}, "DELIVERED", "DELIVERED"),
  Move({"CLIENT"}, {"DELIVERED"}, "CHANGES_REQUESTED", "CHANGES_REQUESTED"),
  Move({"CLIENT"}, {"DELIVERED"}, "COMPLETED", "DONE"),
  Move(Either, {"PENDING_ACCEPTANCE", "ACCEPTED"}, "CANCELLED", "CANCELLED")}
OrderMoves == {
  Move({"PROVIDER"}, {"ACCEPTED"}, "IN_PROGRESS", "ACCEPTED"),
  Move({"PROVIDER"}, {"IN_PROGRESS"}, "DELIVERED", "DELIVERED"),
  Move({"CLIENT"}, {"DELIVERED"}, "COMPLETED", "DONE"),
  Move(Either, {"ACCEPTED", "IN_PROGRESS"}, "CANCELLED", "CANCELLED")}
Moves(j) == IF j \in Bookings THEN BookingMoves ELSE OrderMoves

Idle == [at |-> "idle", about |-> {}, move |-> Move({}, {}, "ABSENT", "REQUESTED"), nth |-> 0, to |-> "OPEN"]

Init ==
  /\ state = [j \in JobIds |-> "ABSENT"]
  /\ deadline = [j \in JobIds |-> "none"]
  /\ stages = [j \in JobIds |-> {}] /\ jobsCompleted = 0
  /\ dispute = [j \in JobIds |-> <<>>] /\ gone = FALSE
  /\ h = [p \in Procs |-> Idle]
  /\ asked = 0 /\ waited = {} /\ crossed = {}

-----------------------------------------------------------------------------
(* The first half of a handler: it has read and checked, and goes on.      *)
Begin(p, doing) ==
  /\ h[p] = Idle
  /\ h' = [h EXCEPT ![p] = doing]
  /\ crossed' = crossed \cup (doing.about \cap UNION {h[q].about : q \in Procs \ {p}})
  /\ UNCHANGED <<job, dispute, gone, waited>>

Ask(p, doing) == asked < MaxAsked /\ asked' = asked + 1 /\ Begin(p, doing)
Rest(p) == h' = [h EXCEPT ![p] = Idle]

(* A booking keeps its deadline through a request for changes; an order's  *)
(* is pushed out by every transition.                                      *)
DeadlineKept(j, to) ==                                             \* a mutant
  IF to \in {"COMPLETED", "CANCELLED"} THEN "none"
  ELSE IF j \in Orders \/ (to = "DELIVERED" /\ deadline[j] = "none") THEN "ahead"
  ELSE deadline[j]
DeadlineOnceAccepted(j, to) ==                                     \* a mutant
  IF to \in {"COMPLETED", "CANCELLED"} \/ j \in Orders THEN "none"
  ELSE IF to = "DELIVERED" THEN "ahead" ELSE deadline[j]
Deadline(j, to) ==
  IF to \in {"COMPLETED", "CANCELLED"} THEN "none"
  ELSE IF to = "DELIVERED" \/ j \in Orders THEN "ahead" ELSE deadline[j]

(* One job moved: its state, its deadline, its event, and the counter.     *)
Moved(j, to, stage) ==
  /\ state' = [state EXCEPT ![j] = to]
  /\ deadline' = [deadline EXCEPT ![j] = Deadline(j, to)]
  /\ stages' = [stages EXCEPT ![j] = @ \cup {stage}]
  /\ jobsCompleted' = jobsCompleted + (IF j \in Bookings /\ to = "COMPLETED" THEN 1 ELSE 0)

-----------------------------------------------------------------------------
(* The two members.  A job is new, and no other handler knows of it.       *)
Create(p, j) ==
  /\ state[j] = "ABSENT" /\ ~gone
  /\ \A q \in Procs : j \notin h[q].about
  /\ Ask(p, [Idle EXCEPT !.at = "create", !.about = {j}])

CreateBooking(p, j) == j \in Bookings /\ Create(p, j)
CreateOrder(p, j) == j \in Orders /\ Create(p, j)

Created(j, first, due) ==
  /\ state[j] = "ABSENT"
  /\ state' = [state EXCEPT ![j] = first]
  /\ deadline' = [deadline EXCEPT ![j] = due]
  /\ stages' = [stages EXCEPT ![j] = {"REQUESTED"}]

CreateBookingWrite(p) ==
  /\ h[p].at = "create"
  /\ \E j \in h[p].about \cap Bookings : Created(j, "PENDING_ACCEPTANCE", "none")
  /\ Rest(p)
  /\ UNCHANGED <<jobsCompleted, dispute, gone, asked, history>>

CreateOrderWrite(p) ==
  /\ h[p].at = "create"
  /\ \E j \in h[p].about \cap Orders : Created(j, "ACCEPTED", "ahead")
  /\ Rest(p)
  /\ UNCHANGED <<jobsCompleted, dispute, gone, asked, history>>

MovesFromAny(j) == {move \in Moves(j) : state[j] # "ABSENT"}   \* a mutant
MovesFrom(j) == {move \in Moves(j) : state[j] \in move.from}

Transition(p, j) ==
  \E move \in MovesFrom(j) :
    /\ gone => "CLIENT" \in move.by
    /\ Ask(p, [Idle EXCEPT !.at = "transition", !.about = {j}, !.move = move])

TransitionWrite(p) ==
  /\ h[p].at = "transition"
  /\ \E j \in h[p].about :
       /\ Moved(j, h[p].move.to, h[p].move.stage)
       /\ waited' = IF h[p].move.to = "DELIVERED" THEN waited \ {j} ELSE waited
  /\ Rest(p)
  /\ UNCHANGED <<dispute, gone, asked, crossed>>

(* "Report a problem", about any job the member is a party to: whether a   *)
(* dispute is under way is checked, the state of the job is not.           *)
OpenDispute(p, j) ==
  /\ state[j] # "ABSENT" /\ Len(dispute[j]) < MaxDisputes
  /\ \A i \in DOMAIN dispute[j] : dispute[j][i] \notin Live
  /\ Ask(p, [Idle EXCEPT !.at = "dispute", !.about = {j}])

OpenDisputeWrite(p) ==
  /\ h[p].at = "dispute"
  /\ \E j \in h[p].about :
       /\ dispute' = [dispute EXCEPT ![j] = Append(@, "OPEN")]
       /\ state' = [state EXCEPT ![j] = "DISPUTED"]
       /\ stages' = [stages EXCEPT ![j] = @ \cup {"DISPUTED"}]
  /\ Rest(p)
  /\ UNCHANGED <<deadline, jobsCompleted, gone, asked, history>>

(* Closing the account cancels the open work, in a transaction that lists  *)
(* it first.                                                               *)
OpenWork == {j \in Bookings : state[j] \in OpenBooking} \cup {j \in Orders : state[j] \in OpenOrder}

CloseAccount(p) ==
  /\ ~gone
  /\ Ask(p, [Idle EXCEPT !.at = "close", !.about = OpenWork])

CloseOpenWork(p) ==
  LET closed == h[p].about
      noted == closed \cap Bookings
  IN  /\ h[p].at = "close"
      /\ gone' = TRUE
      /\ state' = [j \in JobIds |-> IF j \in closed THEN "CANCELLED" ELSE state[j]]
      /\ deadline' = [j \in JobIds |-> IF j \in closed THEN "none" ELSE deadline[j]]
      /\ stages' = [j \in JobIds |-> IF j \in noted THEN stages[j] \cup {"CANCELLED"} ELSE stages[j]]
      /\ Rest(p)
      /\ UNCHANGED <<jobsCompleted, dispute, asked, history>>

-----------------------------------------------------------------------------
(* Staff: a dispute is taken on, and settled.  Nothing is done to the job. *)
Handle(p, j, nth, to) ==
  /\ dispute[j][nth] \in Live
  /\ Ask(p, [Idle EXCEPT !.at = "handle", !.about = {j}, !.nth = nth, !.to = to])

HandleWrite(p) ==
  /\ h[p].at = "handle"
  /\ \E j \in h[p].about : dispute' = [dispute EXCEPT ![j][h[p].nth] = h[p].to]
  /\ Rest(p)
  /\ UNCHANGED <<job, gone, asked, history>>

-----------------------------------------------------------------------------
(* Time, and the two hourly sweeps.                                        *)
Pass(j) ==
  /\ deadline[j] = "ahead"
  /\ deadline' = [deadline EXCEPT ![j] = "passed"]
  /\ waited' = IF j \in Bookings THEN waited \cup {j} ELSE waited
  /\ UNCHANGED <<state, stages, jobsCompleted, dispute, gone, h, asked, crossed>>

DueDisputed == {j \in Bookings : deadline[j] = "passed" /\ state[j] \in {"DELIVERED", "DISPUTED"}}  \* a mutant
Due == {j \in Bookings : deadline[j] = "passed" /\ state[j] = "DELIVERED"}

AutoComplete(p) ==
  /\ Due # {}
  /\ Begin(p, [Idle EXCEPT !.at = "sweep", !.about = Due])
  /\ UNCHANGED asked

(* One booking of the list at a time, each in a transaction of its own.    *)
AutoCompleteOne(p) ==
  /\ h[p].at = "sweep"
  /\ \E j \in h[p].about :
       /\ Moved(j, "COMPLETED", "DONE")
       /\ IF h[p].about = {j} THEN Rest(p) ELSE h' = [h EXCEPT ![p].about = @ \ {j}]
  /\ UNCHANGED <<dispute, gone, asked, history>>

Expire ==
  LET due == {j \in Orders : deadline[j] = "passed" /\ state[j] \in OpenOrder}
  IN  /\ due # {}
      /\ state' = [j \in JobIds |-> IF j \in due THEN "EXPIRED" ELSE state[j]]
      /\ deadline' = [j \in JobIds |-> IF j \in due THEN "none" ELSE deadline[j]]
      /\ UNCHANGED <<stages, jobsCompleted, dispute, gone, h, asked, history>>

(* A handler fails, or its process dies, before it has written (the rest). *)
Fail(p) ==
  /\ h[p] # Idle
  /\ Rest(p)
  /\ UNCHANGED <<job, dispute, gone, asked, history>>

-----------------------------------------------------------------------------
Request(p) ==
  \/ CloseAccount(p)
  \/ \E j \in JobIds : \/ CreateBooking(p, j) \/ CreateOrder(p, j)
                       \/ Transition(p, j) \/ OpenDispute(p, j)
                       \/ \E nth \in DOMAIN dispute[j], to \in {"IN_REVIEW", "RESOLVED", "WITHDRAWN"} :
                            Handle(p, j, nth, to)
Commit(p) ==
  \/ CreateBookingWrite(p) \/ CreateOrderWrite(p) \/ TransitionWrite(p) \/ OpenDisputeWrite(p)
  \/ CloseOpenWork(p) \/ HandleWrite(p) \/ AutoCompleteOne(p)

Next ==
  \/ Expire
  \/ \E j \in JobIds : Pass(j)
  \/ \E p \in Procs : Request(p) \/ Commit(p) \/ AutoComplete(p) \/ Fail(p)

Spec == Init /\ [][Next]_vars

(* Time passes; the sweeps run every hour, and what has begun ends.  That  *)
(* a sweep fails every time it is run is excluded.                         *)
Fairness ==
  /\ \A j \in JobIds : WF_vars(Pass(j))
  /\ WF_vars(Expire)
  /\ \A p \in Procs : WF_vars(AutoComplete(p)) /\ WF_vars(Commit(p)) /\ SF_vars(AutoCompleteOne(p))

FairSpec == Spec /\ Fairness

-----------------------------------------------------------------------------
(* Types of the tables, the counter and the handlers.                      *)
TypeOK ==
  /\ state \in [JobIds -> JobState \cup {"ABSENT"}]
  /\ deadline \in [JobIds -> {"none", "ahead", "passed"}]
  /\ DOMAIN stages = JobIds
  /\ \A j \in JobIds : stages[j] \subseteq {"REQUESTED", "DISPUTED"} \cup
                         {move.stage : move \in Moves(j)}
  /\ jobsCompleted \in Nat /\ gone \in BOOLEAN /\ asked \in 0..MaxAsked
  /\ dispute \in [JobIds -> Seq(Live \cup {"RESOLVED", "WITHDRAWN"})]
  /\ waited \subseteq JobIds /\ crossed \subseteq JobIds

(* "This job is paused while Circl reviews it" (DisputeService.open): from *)
(* any state it was raised in, through the sweeps and the closing of an    *)
(* account, unless two handlers about the job overlap.                     *)
PausedUnderReview ==
  \A j \in JobIds \ crossed :
    (\E i \in DOMAIN dispute[j] : dispute[j][i] \in Live) => state[j] = "DISPUTED"

(* The provider's profile counts the bookings that reached DONE, whatever  *)
(* became of them after: none is missed, however handlers overlap, and     *)
(* none is counted twice unless two handlers have been about one booking   *)
(* at once.  Of those that have, a client's completion beside the sweep's  *)
(* counts the booking twice.                                               *)
DoneBookings == {j \in Bookings : "DONE" \in stages[j]}
JobsCountedOnce ==
  /\ jobsCompleted >= Cardinality(DoneBookings)
  /\ crossed \cap Bookings = {} => jobsCompleted = Cardinality(DoneBookings)

(* A client has seven days from the latest delivery before the booking     *)
(* closes itself, also after changes were asked for late in the seven days *)
(* of the delivery before (requestChanges leaves autoCompleteAt alone).    *)
(* What is due has waited that long, however handlers overlap; what the    *)
(* sweep completes has, unless another handler was about the booking at    *)
(* the same time: the sweep writes by id what it has listed.               *)
SevenDaysToAnswer ==
  [][/\ Due \subseteq waited
     /\ \A p \in Procs, j \in JobIds \ crossed :
          h[p].at = "sweep" /\ j \in h[p].about /\ state'[j] = "COMPLETED" /\ state[j] # "COMPLETED"
            => j \in waited]_vars

(* "A booking auto-completes 7 days after delivery", "thirty days without  *)
(* a transition" expire an order: neither waits for ever, whatever         *)
(* overlaps.                                                               *)
Waiting(j) ==
  IF j \in Bookings THEN state[j] = "DELIVERED" ELSE state[j] \in OpenOrder
SilenceCloses == \A j \in JobIds : Waiting(j) ~> ~Waiting(j)
=============================================================================
