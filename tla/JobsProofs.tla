------------------------------ MODULE JobsProofs ------------------------------
(***************************************************************************)
(* What holds of the bookings and orders of one provider for every set of  *)
(* handlers, bookings and orders: types, that a job stays paused while its *)
(* dispute is under review, that a booking closes itself only after the    *)
(* seven days, and that the provider's profile counts each completed       *)
(* booking.  That a job stays paused, that the sweep's write comes after   *)
(* the seven days, and that a booking is counted no more than once are of  *)
(* the jobs no two handlers have been about at once; that what is due has  *)
(* waited and that no booking goes uncounted hold whatever overlaps.       *)
(*                                                                         *)
(* None is inductive alone: a handler writes on what it read.  The         *)
(* invariant adds that, of such a job, one handler is about it (Alone), so *)
(* that what this one read still holds when it writes (Fresh, StillAsRead),*)
(* that a deadline that is over was waited for (Waited), and that a        *)
(* booking that is done never leaves COMPLETED but for a dispute           *)
(* (DoneIsOver).                                                           *)
(***************************************************************************)
EXTENDS Jobs, SequenceTheorems, FiniteSetTheorems, TLAPS

DisputeState == Live \cup {"RESOLVED", "WITHDRAWN"}
JobStage == {"REQUESTED", "ACCEPTED", "IN_PROGRESS", "DELIVERED", "CHANGES_REQUESTED", "DONE",
             "CANCELLED"}
AnyMove == [by : SUBSET Either, from : SUBSET JobState, to : JobState \cup {"ABSENT"}, stage : JobStage]
Handler == [at : {"idle", "create", "transition", "dispute", "close", "handle", "sweep"}, about : SUBSET JobIds,
            move : AnyMove, nth : Nat, to : DisputeState]

Fits(doing) ==
  /\ doing \in Handler
  /\ doing.at = "transition" => \A j \in doing.about : doing.move \in Moves(j)

Handlers == h \in [Procs -> Handler] /\ \A p \in Procs : Fits(h[p])

UnderReview(j) == \E i \in DOMAIN dispute[j] : dispute[j][i] \in Live

Alone == \A j \in JobIds \ crossed : \A p, q \in Procs :
           j \in h[p].about /\ j \in h[q].about => p = q

FreshOf(p, j) ==
  /\ h[p].at \in {"transition", "close", "sweep"} => state[j] # "DISPUTED"
  /\ h[p].at = "sweep" => j \in waited
  /\ h[p].at = "handle" => h[p].nth \in DOMAIN dispute[j] /\ dispute[j][h[p].nth] \in Live

Fresh == \A p \in Procs : \A j \in h[p].about \ crossed : FreshOf(p, j)

Waited == \A j \in Bookings : deadline[j] = "passed" => j \in waited

IInv == TypeOK /\ Handlers /\ Alone /\ Fresh /\ Waited /\ PausedUnderReview

-----------------------------------------------------------------------------
(* The moves are of their type, and none leaves or enters DISPUTED.        *)
LEMMA MoveTypes ==
  ASSUME NEW j, NEW move \in Moves(j)
  PROVE  /\ move \in AnyMove
         /\ move.to \in JobState \ {"DISPUTED"} /\ "DISPUTED" \notin move.from
<1>1. \A by \in SUBSET Either, from \in SUBSET JobState, to \in JobState, stage \in JobStage :
        Move(by, from, to, stage) \in AnyMove
  BY DEF Move, AnyMove
<1>2. \A m \in BookingMoves : m \in AnyMove
  BY <1>1 DEF BookingMoves, Either, JobState, JobStage
<1>3. \A m \in OrderMoves : m \in AnyMove
  BY <1>1 DEF OrderMoves, Either, JobState, JobStage
<1>4. \A m \in BookingMoves : m.to \in JobState \ {"DISPUTED"} /\ "DISPUTED" \notin m.from
  BY DEF BookingMoves, Move, JobState
<1>5. \A m \in OrderMoves : m.to \in JobState \ {"DISPUTED"} /\ "DISPUTED" \notin m.from
  BY DEF OrderMoves, Move, JobState
<1> QED
  BY <1>2, <1>3, <1>4, <1>5 DEF Moves

(* A handler at rest fits and is about no job.                             *)
LEMMA IdleFits == Fits(Idle) /\ Idle.about = {}
BY DEF Fits, Idle, Handler, AnyMove, JobStage, Move, DisputeState, Live

(* One handler is replaced by what it does next.                           *)
LEMMA HandlersStep ==
  ASSUME Handlers, NEW p \in Procs, NEW now, Fits(now), h' = [h EXCEPT ![p] = now]
  PROVE  Handlers' /\ \A q \in Procs : h'[q] = IF q = p THEN now ELSE h[q]
<1>1. now \in Handler
  BY DEF Fits
<1>2. \A q \in Procs : h'[q] = IF q = p THEN now ELSE h[q]
  BY DEF Handlers
<1>3. h' \in [Procs -> Handler] /\ \A q \in Procs : Fits(h'[q])
  BY <1>1, <1>2 DEF Handlers
<1> QED
  BY <1>2, <1>3 DEF Handlers, Fits

(* The invariant holds at first.                                           *)
LEMMA Init_IInv == Init => IInv
<1> SUFFICES ASSUME Init PROVE IInv
  OBVIOUS
<1>1. Handlers /\ \A p \in Procs : h[p].about = {}
  BY IdleFits DEF Init, Handlers, Fits
<1>2. TypeOK
  <2>1. <<>> \in Seq(Live \cup {"RESOLVED", "WITHDRAWN"})
    OBVIOUS
  <2>2. dispute \in [JobIds -> Seq(Live \cup {"RESOLVED", "WITHDRAWN"})]
    BY <2>1 DEF Init
  <2>3. DOMAIN stages = JobIds /\ \A j \in JobIds : stages[j] = {}
    BY DEF Init
  <2>4. state \in [JobIds -> JobState \cup {"ABSENT"}] /\ deadline \in [JobIds -> {"none", "ahead", "passed"}]
    BY DEF Init
  <2>5. \A j \in JobIds : stages[j] \subseteq {"REQUESTED", "DISPUTED"} \cup {move.stage : move \in Moves(j)}
    BY <2>3
  <2>6. jobsCompleted \in Nat /\ asked \in 0..MaxAsked
    BY ConstantsAssumption DEF Init
  <2>7. gone \in BOOLEAN
    BY Zenon DEF Init
  <2>8. waited \subseteq JobIds /\ crossed \subseteq JobIds
    BY DEF Init
  <2> QED
    BY <2>2, <2>3, <2>4, <2>5, <2>6, <2>7, <2>8 DEF TypeOK
<1>3. PausedUnderReview
  BY DEF Init, PausedUnderReview
<1> QED
  BY <1>1, <1>2, <1>3 DEF Init, IInv, Alone, Fresh, Waited, JobIds

-----------------------------------------------------------------------------
(* A handler begins: what it is about and another is about is crossed.     *)
LEMMA BeginStep ==
  ASSUME IInv, NEW p \in Procs, NEW doing, Fits(doing), Begin(p, doing), asked' \in 0..MaxAsked,
         \A j \in doing.about :
           /\ doing.at \in {"transition", "close", "sweep"} => state[j] # "DISPUTED"
           /\ doing.at = "sweep" => j \in waited
           /\ doing.at = "handle" => doing.nth \in DOMAIN dispute[j] /\ dispute[j][doing.nth] \in Live
  PROVE  IInv'
<1> USE DEF IInv
<1>1. Handlers' /\ \A q \in Procs : h'[q] = IF q = p THEN doing ELSE h[q]
  BY HandlersStep DEF Begin
<1>2. doing.about \subseteq JobIds
  BY DEF Fits, Handler
<1>3. /\ crossed \subseteq crossed' /\ crossed' \subseteq JobIds
      /\ \A q \in Procs \ {p} : doing.about \cap h[q].about \subseteq crossed'
  BY <1>2 DEF Begin, TypeOK
<1>4. TypeOK'
  BY <1>3 DEF TypeOK, Begin, job
<1>5. Alone'
  BY <1>1, <1>3 DEF Alone
<1>6. Fresh'
  BY <1>1, <1>3 DEF Fresh, FreshOf, Begin, job
<1>7. Waited' /\ PausedUnderReview'
  BY <1>3 DEF Waited, PausedUnderReview, Begin, job
<1> QED
  BY <1>1, <1>4, <1>5, <1>6, <1>7

(* A handler writes: the jobs it is about and no other.  Those it is not   *)
(* finished with it leaves as it read them.                                *)
Same(j) == state'[j] = state[j] /\ dispute'[j] = dispute[j] /\ (j \in waited => j \in waited')

(* What such a write must show for the invariant to stand.                 *)
LEMMA WriteStep ==
  ASSUME IInv, NEW p \in Procs, NEW now, Fits(now), h' = [h EXCEPT ![p] = now],
         crossed' = crossed, TypeOK', Waited',
         now.about \subseteq h[p].about, now.about # {} => now.at = h[p].at /\ now.nth = h[p].nth,
         \A j \in (JobIds \ h[p].about) \cup now.about : Same(j),
         \A j \in (h[p].about \ now.about) \ crossed : UnderReview(j)' => state'[j] = "DISPUTED"
  PROVE  IInv'
<1> USE DEF IInv
<1>1. Handlers' /\ \A q \in Procs : h'[q] = IF q = p THEN now ELSE h[q]
  BY HandlersStep
<1>2. \A q \in Procs : h[q].about \subseteq JobIds
  BY DEF Handlers, Handler
<1>3. Alone'
  BY <1>1, <1>2 DEF Alone
<1>4. Fresh'
  <2> SUFFICES ASSUME NEW q \in Procs, NEW j \in h'[q].about \ crossed
               PROVE  FreshOf(q, j)'
    BY DEF Fresh
  <2>1. j \in h[q].about \ crossed /\ FreshOf(q, j)
    BY <1>1 DEF Fresh
  <2>2. Same(j)
    BY <1>1, <1>2, <2>1 DEF Alone
  <2>3. h'[q].at = h[q].at /\ h'[q].nth = h[q].nth
    BY <1>1
  <2> QED
    BY <2>1, <2>2, <2>3 DEF FreshOf, Same
<1>5. PausedUnderReview'
  BY DEF PausedUnderReview, Same, UnderReview
<1> QED
  BY <1>1, <1>3, <1>4, <1>5

-----------------------------------------------------------------------------
(* Requests and the sweep's list: what a handler read holds as it begins.  *)
LEMMA RequestBegins ==
  ASSUME IInv, NEW p \in Procs, Request(p)
  PROVE  IInv'
<1> USE DEF IInv
<1>0. asked' = asked + 1 /\ asked < MaxAsked => asked' \in 0..MaxAsked
  BY ConstantsAssumption DEF TypeOK
<1>1. ASSUME NEW j \in JobIds, Transition(p, j) PROVE IInv'
  <2>1. PICK move \in MovesFrom(j) : Ask(p, [Idle EXCEPT !.at = "transition", !.about = {j}, !.move = move])
    BY <1>1 DEF Transition
  <2> DEFINE doing == [Idle EXCEPT !.at = "transition", !.about = {j}, !.move = move]
  <2>2. move \in Moves(j) /\ move \in AnyMove /\ state[j] # "DISPUTED"
    BY MoveTypes DEF MovesFrom
  <2>3. Fits(doing) /\ doing.about = {j} /\ doing.at = "transition"
    BY <2>2, IdleFits DEF Idle, Fits, Handler
  <2>4. Begin(p, doing) /\ asked' \in 0..MaxAsked
    BY <2>1, <1>0 DEF Ask
  <2> HIDE DEF doing
  <2> QED
    BY <2>2, <2>3, <2>4, BeginStep
<1>2. ASSUME NEW j \in JobIds, OpenDispute(p, j) PROVE IInv'
  <2> DEFINE doing == [Idle EXCEPT !.at = "dispute", !.about = {j}]
  <2>1. Fits(doing) /\ doing.about = {j} /\ doing.at = "dispute"
    BY IdleFits DEF Idle, Fits, Handler
  <2>2. Begin(p, doing) /\ asked' \in 0..MaxAsked
    BY <1>0, <1>2 DEF Ask, OpenDispute
  <2> HIDE DEF doing
  <2> QED
    BY <2>1, <2>2, BeginStep
<1>3. ASSUME NEW j \in JobIds, NEW nth \in DOMAIN dispute[j], NEW to \in {"IN_REVIEW", "RESOLVED", "WITHDRAWN"},
             Handle(p, j, nth, to)
      PROVE  IInv'
  <2> DEFINE doing == [Idle EXCEPT !.at = "handle", !.about = {j}, !.nth = nth, !.to = to]
  <2>1. nth \in Nat
    BY LenProperties DEF TypeOK
  <2>2. Fits(doing) /\ doing.about = {j} /\ doing.at = "handle" /\ doing.nth = nth
    BY <2>1, IdleFits DEF Idle, Fits, Handler, DisputeState, Live
  <2>3. Begin(p, doing) /\ asked' \in 0..MaxAsked /\ dispute[j][nth] \in Live
    BY <1>0, <1>3 DEF Ask, Handle
  <2> HIDE DEF doing
  <2> QED
    BY <2>2, <2>3, BeginStep
<1>4. ASSUME CloseAccount(p) PROVE IInv'
  <2> DEFINE doing == [Idle EXCEPT !.at = "close", !.about = OpenWork]
  <2>1. OpenWork \subseteq JobIds /\ \A j \in OpenWork : state[j] # "DISPUTED"
    BY DEF OpenWork, OpenBooking, OpenOrder, JobIds
  <2>2. Fits(doing) /\ doing.about = OpenWork /\ doing.at = "close"
    BY <2>1, IdleFits DEF Idle, Fits, Handler
  <2>3. Begin(p, doing) /\ asked' \in 0..MaxAsked
    BY <1>0, <1>4 DEF Ask, CloseAccount
  <2> HIDE DEF doing
  <2> QED
    BY <2>1, <2>2, <2>3, BeginStep
<1>5. ASSUME NEW j \in JobIds, CreateBooking(p, j) \/ CreateOrder(p, j) PROVE IInv'
  <2> DEFINE doing == [Idle EXCEPT !.at = "create", !.about = {j}]
  <2>1. Fits(doing) /\ doing.about = {j} /\ doing.at = "create"
    BY IdleFits DEF Idle, Fits, Handler
  <2>2. Begin(p, doing) /\ asked' \in 0..MaxAsked
    BY <1>0, <1>5 DEF Ask, CreateBooking, CreateOrder, Create
  <2> HIDE DEF doing
  <2> QED
    BY <2>1, <2>2, BeginStep
<1> QED
  BY <1>1, <1>2, <1>3, <1>4, <1>5 DEF Request

(* The nightly job picks what is due.                                      *)
LEMMA SweepBegins ==
  ASSUME IInv, NEW p \in Procs, AutoComplete(p)
  PROVE  IInv'
<1> USE DEF IInv
<1> DEFINE doing == [Idle EXCEPT !.at = "sweep", !.about = Due]
<1>1. Due \subseteq JobIds /\ \A j \in Due : state[j] # "DISPUTED" /\ j \in waited
  BY DEF Due, JobIds, Waited
<1>2. Fits(doing) /\ doing.about = Due /\ doing.at = "sweep"
  BY <1>1, IdleFits DEF Idle, Fits, Handler
<1>3. Begin(p, doing) /\ asked' \in 0..MaxAsked
  BY DEF AutoComplete, TypeOK
<1> HIDE DEF doing
<1> QED
  BY <1>1, <1>2, <1>3, BeginStep

-----------------------------------------------------------------------------
(* Writes.                                                                 *)
LEMMA MovedTypes ==
  ASSUME TypeOK, Waited, NEW j \in JobIds, NEW to \in JobState,
         NEW stage \in {move.stage : move \in Moves(j)}, Moved(j, to, stage),
         UNCHANGED <<dispute, gone, asked, crossed>>,
         waited' = IF to = "DELIVERED" THEN waited \ {j} ELSE waited
  PROVE  /\ TypeOK' /\ Waited' /\ state'[j] = to
         /\ \A i \in JobIds \ {j} : Same(i)
<1>1. state' \in [JobIds -> JobState \cup {"ABSENT"}] /\ \A i \in JobIds : state'[i] = IF i = j THEN to ELSE state[i]
  BY DEF Moved, TypeOK
<1>2. Deadline(j, to) \in {"none", "ahead", "passed"}
  BY DEF TypeOK, Deadline
<1>3. /\ deadline' \in [JobIds -> {"none", "ahead", "passed"}]
      /\ \A i \in JobIds : deadline'[i] = IF i = j THEN Deadline(j, to) ELSE deadline[i]
  BY <1>2 DEF Moved, TypeOK
<1>4. \A i \in JobIds : stages'[i] \subseteq {"REQUESTED", "DISPUTED"} \cup {move.stage : move \in Moves(i)}
  <2> SUFFICES ASSUME NEW i \in JobIds, NEW s \in stages'[i]
               PROVE  s \in {"REQUESTED", "DISPUTED"} \cup {move.stage : move \in Moves(i)}
    OBVIOUS
  <2> QED
    BY DEF Moved, TypeOK
<1>5. jobsCompleted' \in Nat /\ DOMAIN stages' = JobIds
  BY DEF Moved, TypeOK
<1>6. TypeOK'
  BY <1>1, <1>3, <1>4, <1>5 DEF TypeOK
<1>7. Waited'
  BY <1>3 DEF Waited, Deadline, JobIds
<1> QED
  BY <1>1, <1>6, <1>7 DEF Same

(* A handler that has finished.                                            *)
LEMMA RestStep ==
  ASSUME IInv, NEW p \in Procs, Rest(p), crossed' = crossed, TypeOK', Waited',
         \A j \in JobIds \ h[p].about : Same(j),
         \A j \in h[p].about \ crossed : UnderReview(j)' => state'[j] = "DISPUTED"
  PROVE  IInv'
BY IdleFits, WriteStep DEF Rest

(* A job is created.                                                       *)
LEMMA CreatedStep ==
  ASSUME IInv, NEW p \in Procs, CreateBookingWrite(p) \/ CreateOrderWrite(p)
  PROVE  IInv'
<1> USE DEF IInv
<1>1. PICK j \in h[p].about, first \in {"PENDING_ACCEPTANCE", "ACCEPTED"}, due \in {"none", "ahead"} :
        Created(j, first, due)
  BY DEF CreateBookingWrite, CreateOrderWrite
<1>2. UNCHANGED <<jobsCompleted, dispute, gone, asked, waited, crossed>> /\ Rest(p)
  BY DEF CreateBookingWrite, CreateOrderWrite, history
<1>3. j \in JobIds /\ h[p].about \subseteq JobIds
  BY DEF Handlers, Handler
<1>4. /\ state' \in [JobIds -> JobState \cup {"ABSENT"}]
      /\ deadline' \in [JobIds -> {"none", "ahead", "passed"}]
      /\ DOMAIN stages' = JobIds
      /\ \A i \in JobIds \ {j} : state'[i] = state[i]
  BY <1>1 DEF Created, TypeOK, JobState
<1>5. \A i \in JobIds : stages'[i] \subseteq {"REQUESTED", "DISPUTED"} \cup {move.stage : move \in Moves(i)}
  <2> SUFFICES ASSUME NEW i \in JobIds, NEW s \in stages'[i]
               PROVE  s \in {"REQUESTED", "DISPUTED"} \cup {move.stage : move \in Moves(i)}
    OBVIOUS
  <2> QED
    BY <1>1 DEF Created, TypeOK
<1>6. TypeOK'
  BY <1>2, <1>4, <1>5 DEF TypeOK
<1>7. Waited'
  BY <1>1, <1>2 DEF Created, Waited, TypeOK, JobIds
<1>8. \A i \in h[p].about \ crossed : UnderReview(i)' => state'[i] = "DISPUTED"
  <2> SUFFICES ASSUME NEW i \in h[p].about \ crossed, UnderReview(i) PROVE state'[i] = "DISPUTED"
    BY <1>2 DEF UnderReview
  <2>1. state[i] = "DISPUTED"
    BY <1>3 DEF PausedUnderReview, UnderReview
  <2>2. i # j
    BY <1>1, <2>1 DEF Created
  <2> QED
    BY <1>3, <1>4, <2>1, <2>2
<1>9. \A i \in JobIds \ h[p].about : Same(i)
  BY <1>2, <1>4 DEF Same
<1> QED
  BY <1>2, <1>6, <1>7, <1>8, <1>9, RestStep

(* A move is written.                                                      *)
LEMMA TransitionWriteStep ==
  ASSUME IInv, NEW p \in Procs, TransitionWrite(p)
  PROVE  IInv'
<1> USE DEF IInv
<1>1. PICK j \in h[p].about : /\ Moved(j, h[p].move.to, h[p].move.stage)
                             /\ waited' = IF h[p].move.to = "DELIVERED" THEN waited \ {j} ELSE waited
  BY DEF TransitionWrite
<1>2. j \in JobIds /\ h[p].about \subseteq JobIds /\ h[p].move \in Moves(j)
  BY DEF Handlers, Fits, Handler, TransitionWrite
<1>3. h[p].move.to \in JobState /\ h[p].move.stage \in {move.stage : move \in Moves(j)}
  BY <1>2, MoveTypes
<1>4. TypeOK' /\ Waited' /\ \A i \in JobIds \ {j} : Same(i)
  BY <1>1, <1>2, <1>3, MovedTypes DEF TransitionWrite
<1>5. \A i \in h[p].about \ crossed : state[i] # "DISPUTED"
  BY DEF Fresh, FreshOf, TransitionWrite
<1>6. \A i \in h[p].about \ crossed : ~UnderReview(i)
  BY <1>2, <1>5 DEF PausedUnderReview, UnderReview
<1>7. \A i \in h[p].about \ crossed : ~UnderReview(i)'
  BY <1>6 DEF UnderReview, TransitionWrite
<1> QED
  BY <1>1, <1>2, <1>4, <1>7, RestStep DEF TransitionWrite

(* A dispute is opened, and the job with it.                               *)
LEMMA OpenDisputeWriteStep ==
  ASSUME IInv, NEW p \in Procs, OpenDisputeWrite(p)
  PROVE  IInv'
<1> USE DEF IInv
<1>1. PICK j \in h[p].about : /\ dispute' = [dispute EXCEPT ![j] = Append(@, "OPEN")]
                             /\ state' = [state EXCEPT ![j] = "DISPUTED"]
                             /\ stages' = [stages EXCEPT ![j] = @ \cup {"DISPUTED"}]
  BY DEF OpenDisputeWrite
<1>2. j \in JobIds /\ h[p].about \subseteq JobIds
  BY DEF Handlers, Handler
<1>3. UNCHANGED <<deadline, jobsCompleted, gone, asked, waited, crossed>> /\ Rest(p)
  BY DEF OpenDisputeWrite, history
<1>4. state'[j] = "DISPUTED" /\ \A i \in JobIds \ {j} : Same(i)
  BY <1>1, <1>2, <1>3 DEF TypeOK, Same
<1>5. TypeOK' /\ Waited'
  <2>1. "OPEN" \in Live \cup {"RESOLVED", "WITHDRAWN"}
    BY DEF Live
  <2>2. dispute[j] \in Seq(Live \cup {"RESOLVED", "WITHDRAWN"})
    BY <1>2 DEF TypeOK
  <2>3. Append(dispute[j], "OPEN") \in Seq(Live \cup {"RESOLVED", "WITHDRAWN"})
    BY <2>1, <2>2, AppendProperties
  <2>4. dispute' \in [JobIds -> Seq(Live \cup {"RESOLVED", "WITHDRAWN"})]
    BY <1>1, <1>2, <2>3 DEF TypeOK
  <2>5. state' \in [JobIds -> JobState \cup {"ABSENT"}] /\ DOMAIN stages' = JobIds
    BY <1>1 DEF TypeOK, JobState
  <2>6. \A i \in JobIds : stages'[i] \subseteq {"REQUESTED", "DISPUTED"} \cup {move.stage : move \in Moves(i)}
    <3> SUFFICES ASSUME NEW i \in JobIds, NEW s \in stages'[i]
                 PROVE  s \in {"REQUESTED", "DISPUTED"} \cup {move.stage : move \in Moves(i)}
      OBVIOUS
    <3> QED
      BY <1>1 DEF TypeOK
  <2> QED
    BY <1>3, <2>4, <2>5, <2>6 DEF TypeOK, Waited
<1>6. \A i \in h[p].about \ crossed : UnderReview(i)' => state'[i] = "DISPUTED"
  BY <1>2, <1>4 DEF Same, PausedUnderReview, UnderReview
<1> QED
  BY <1>2, <1>3, <1>4, <1>5, <1>6, RestStep

(* The open work of a closed account is closed.                            *)
LEMMA CloseOpenWorkStep ==
  ASSUME IInv, NEW p \in Procs, CloseOpenWork(p)
  PROVE  IInv'
<1> USE DEF IInv
<1>1. h[p].about \subseteq JobIds
  BY DEF Handlers, Handler
<1>2. UNCHANGED <<jobsCompleted, dispute, asked, waited, crossed>> /\ Rest(p) /\ gone' = TRUE
  BY DEF CloseOpenWork, history
<1>3. \A i \in JobIds \ h[p].about : Same(i)
  BY <1>2 DEF CloseOpenWork, Same
<1>4. TypeOK'
  <2>1. /\ state' \in [JobIds -> JobState \cup {"ABSENT"}]
        /\ deadline' \in [JobIds -> {"none", "ahead", "passed"}]
        /\ DOMAIN stages' = JobIds
    BY DEF CloseOpenWork, TypeOK, JobState
  <2>2. \A j \in Bookings : "CANCELLED" \in {move.stage : move \in Moves(j)}
    <3>1. Move(Either, {"PENDING_ACCEPTANCE", "ACCEPTED"}, "CANCELLED", "CANCELLED") \in BookingMoves
      BY DEF BookingMoves
    <3> QED
      BY <3>1 DEF Moves, Move
  <2>3. \A i \in JobIds : stages'[i] \subseteq {"REQUESTED", "DISPUTED"} \cup {move.stage : move \in Moves(i)}
    <3> SUFFICES ASSUME NEW i \in JobIds, NEW s \in stages'[i]
                 PROVE  s \in {"REQUESTED", "DISPUTED"} \cup {move.stage : move \in Moves(i)}
      OBVIOUS
    <3> QED
      BY <2>2 DEF CloseOpenWork, TypeOK
  <2> QED
    BY <1>2, <2>1, <2>3 DEF TypeOK
<1>5. Waited'
  BY <1>2 DEF Waited, CloseOpenWork, JobIds
<1>6. \A i \in h[p].about \ crossed : ~UnderReview(i)
  BY <1>1 DEF Fresh, FreshOf, CloseOpenWork, PausedUnderReview, UnderReview
<1>7. \A i \in h[p].about \ crossed : ~UnderReview(i)'
  BY <1>2, <1>6 DEF UnderReview
<1> QED
  BY <1>2, <1>3, <1>4, <1>5, <1>7, RestStep

(* Staff write a dispute.                                                  *)
LEMMA HandleWriteStep ==
  ASSUME IInv, NEW p \in Procs, HandleWrite(p)
  PROVE  IInv'
<1> USE DEF IInv
<1>1. PICK j \in h[p].about : dispute' = [dispute EXCEPT ![j][h[p].nth] = h[p].to]
  BY DEF HandleWrite
<1>2. j \in JobIds /\ h[p].about \subseteq JobIds /\ h[p].to \in DisputeState
  BY DEF Handlers, Handler
<1>3. UNCHANGED <<state, deadline, stages, jobsCompleted, gone, asked, waited, crossed>> /\ Rest(p)
  BY DEF HandleWrite, job, history
<1> DEFINE now == [dispute[j] EXCEPT ![h[p].nth] = h[p].to]
<1>4. dispute[j] \in Seq(DisputeState)
  BY <1>2 DEF TypeOK, DisputeState
<1>5. now \in Seq(DisputeState)
  <2>1. CASE h[p].nth \in 1..Len(dispute[j])
    BY <1>2, <1>4, <2>1, ExceptSeq
  <2>2. CASE h[p].nth \notin 1..Len(dispute[j])
    <3>1. now = dispute[j]
      BY <1>4, <2>2, LenProperties
    <3> QED
      BY <1>4, <3>1
  <2> QED
    BY <2>1, <2>2
<1>6. DOMAIN now = DOMAIN dispute[j]
  OBVIOUS
<1>7. dispute' = [dispute EXCEPT ![j] = now]
  BY <1>1
<1> HIDE DEF now
<1>8. TypeOK' /\ Waited'
  BY <1>2, <1>3, <1>5, <1>7 DEF TypeOK, Waited, DisputeState
<1>9. \A i \in JobIds \ {j} : Same(i)
  BY <1>3, <1>7 DEF Same, TypeOK
<1>10. \A i \in h[p].about \ crossed : state'[i] = "DISPUTED" \/ ~UnderReview(i)'
  <2> SUFFICES ASSUME NEW i \in h[p].about \ crossed PROVE state'[i] = "DISPUTED" \/ ~UnderReview(i)'
    OBVIOUS
  <2>1. h[p].nth \in DOMAIN dispute[i] /\ dispute[i][h[p].nth] \in Live
    BY DEF Fresh, FreshOf, HandleWrite
  <2> QED
    BY <1>2, <1>3, <2>1 DEF PausedUnderReview
<1> QED
  BY <1>2, <1>3, <1>8, <1>9, <1>10, RestStep

(* The nightly job completes one of those it picked.                       *)
LEMMA AutoCompleteOneStep ==
  ASSUME IInv, NEW p \in Procs, AutoCompleteOne(p)
  PROVE  IInv'
<1> USE DEF IInv
<1>1. PICK j \in h[p].about :
        /\ Moved(j, "COMPLETED", "DONE")
        /\ IF h[p].about = {j} THEN Rest(p) ELSE h' = [h EXCEPT ![p].about = @ \ {j}]
  BY DEF AutoCompleteOne
<1> DEFINE left == [h[p] EXCEPT !.about = @ \ {j}]
           now == IF h[p].about = {j} THEN Idle ELSE left
<1>2. /\ j \in JobIds /\ h[p].about \subseteq JobIds
      /\ h[p] \in Handler /\ h[p].at = "sweep"
  BY DEF Handlers, Handler, AutoCompleteOne
<1>3. UNCHANGED <<dispute, gone, asked, waited, crossed>>
  BY DEF AutoCompleteOne, history
<1>4. "DONE" \in {move.stage : move \in Moves(j)}
  <2>1. Move({"CLIENT"}, {"DELIVERED"}, "COMPLETED", "DONE") \in Moves(j)
    BY DEF Moves, BookingMoves, OrderMoves
  <2> QED
    BY <2>1 DEF Move
<1>5. TypeOK' /\ Waited' /\ \A i \in JobIds \ {j} : Same(i)
  BY <1>1, <1>2, <1>3, <1>4, MovedTypes DEF JobState
<1>6. left.about = h[p].about \ {j} /\ left.at = "sweep" /\ left.nth = h[p].nth /\ left \in Handler
  BY <1>2 DEF Handler
<1>7. /\ h' = [h EXCEPT ![p] = now] /\ Fits(now)
      /\ now.about \subseteq h[p].about \ {j}
      /\ now.about # {} => now.at = h[p].at /\ now.nth = h[p].nth
  BY <1>1, <1>2, <1>6, IdleFits DEF Fits, Rest
<1>8. \A i \in h[p].about \ crossed : ~UnderReview(i)
  BY <1>2 DEF Fresh, FreshOf, PausedUnderReview, UnderReview
<1>9. \A i \in h[p].about \ crossed : ~UnderReview(i)'
  BY <1>3, <1>8 DEF UnderReview
<1> HIDE DEF now
<1> QED
  BY <1>2, <1>3, <1>5, <1>7, <1>9, WriteStep

(* A handler fails.                                                        *)
LEMMA FailStep ==
  ASSUME IInv, NEW p \in Procs, Fail(p)
  PROVE  IInv'
<1> USE DEF IInv
<1>1. UNCHANGED <<state, deadline, stages, jobsCompleted, dispute, gone, asked, waited, crossed>> /\ Rest(p)
  BY DEF Fail, job, history
<1>2. TypeOK' /\ Waited' /\ \A j \in JobIds : Same(j)
  BY <1>1 DEF TypeOK, Waited, Same
<1>3. h[p].about \subseteq JobIds
  BY DEF Handlers, Handler
<1>4. \A j \in h[p].about \ crossed : UnderReview(j)' => state'[j] = "DISPUTED"
  BY <1>1, <1>3 DEF PausedUnderReview, UnderReview
<1> QED
  BY <1>1, <1>2, <1>4, RestStep

-----------------------------------------------------------------------------
(* Steps of no handler: time, and the orders' expiry.                       *)
LEMMA WorldStep ==
  ASSUME IInv, UNCHANGED <<dispute, h, asked, crossed>>, gone' = gone, TypeOK', Waited',
         \A j \in JobIds : (state'[j] = "DISPUTED") <=> (state[j] = "DISPUTED"),
         waited \subseteq waited'
  PROVE  IInv'
<1> USE DEF IInv
<1>1. \A p \in Procs : h[p].about \subseteq JobIds
  BY DEF Handlers, Handler
<1>2. Fresh'
  BY <1>1 DEF Fresh, FreshOf
<1>3. PausedUnderReview'
  BY DEF PausedUnderReview
<1>4. Handlers' /\ Alone'
  BY DEF Handlers, Fits, Alone
<1> QED
  BY <1>2, <1>3, <1>4

(* A deadline passes, an unanswered order expires.                         *)
LEMMA TimeStep ==
  ASSUME IInv, Expire \/ (\E j \in JobIds : Pass(j))
  PROVE  IInv'
<1> USE DEF IInv, history
<1>1. CASE Expire
  <2>1. TypeOK'
    BY <1>1 DEF Expire, TypeOK, JobState
  <2>2. Waited'
    BY <1>1 DEF Expire, Waited, JobIds
  <2>3. \A j \in JobIds : (state'[j] = "DISPUTED") <=> (state[j] = "DISPUTED")
    BY <1>1 DEF Expire, OpenOrder
  <2> QED
    BY <1>1, <2>1, <2>2, <2>3, WorldStep DEF Expire
<1>2. ASSUME NEW j \in JobIds, Pass(j) PROVE IInv'
  <2>1. TypeOK' /\ Waited'
    BY <1>2 DEF Pass, TypeOK, Waited, JobIds
  <2> QED
    BY <1>2, <2>1, WorldStep DEF Pass
<1> QED
  BY <1>1, <1>2

(* Every step keeps the invariant.                                         *)
LEMMA InvariantStep == IInv /\ [Next]_vars => IInv'
<1> SUFFICES ASSUME IInv, [Next]_vars PROVE IInv'
  OBVIOUS
<1>1. CASE UNCHANGED vars
  <2>1. TypeOK' /\ Waited'
    BY <1>1 DEF vars, IInv, TypeOK, Waited
  <2> QED
    BY <1>1, <2>1, WorldStep DEF vars
<1>2. ASSUME NEW p \in Procs, Commit(p) PROVE IInv'
  BY <1>2, CreatedStep, TransitionWriteStep, OpenDisputeWriteStep, CloseOpenWorkStep, HandleWriteStep,
     AutoCompleteOneStep DEF Commit
<1>3. CASE Next
  BY <1>2, <1>3, TimeStep, RequestBegins, SweepBegins, FailStep DEF Next
<1> QED
  BY <1>1, <1>3

(* The tables keep their types.                                            *)
THEOREM TypeCorrect == Spec => []TypeOK
<1>1. IInv => TypeOK
  BY DEF IInv
<1> QED
  BY <1>1, Init_IInv, InvariantStep, PTL DEF Spec

(* A job whose dispute is under review is paused, as long as no two        *)
(* handlers have been about it at once.                                    *)
THEOREM AlwaysPausedUnderReview == Spec => []PausedUnderReview
<1>1. IInv => PausedUnderReview
  BY DEF IInv
<1> QED
  BY <1>1, Init_IInv, InvariantStep, PTL DEF Spec

(* What is due has waited the seven days, and the sweep completes nothing  *)
(* else of the jobs that no other handler was about at the same time.      *)
THEOREM AlwaysSevenDays == Spec => SevenDaysToAnswer
<1>1. IInv => Due \subseteq waited
  BY DEF IInv, Waited, Due
<1>2. IInv /\ [Next]_vars =>
        [/\ Due \subseteq waited
         /\ \A p \in Procs, j \in JobIds \ crossed :
              h[p].at = "sweep" /\ j \in h[p].about /\ state'[j] = "COMPLETED" /\ state[j] # "COMPLETED"
                => j \in waited]_vars
  BY <1>1 DEF IInv, Fresh, FreshOf
<1> QED
  BY <1>2, Init_IInv, InvariantStep, PTL DEF Spec, SevenDaysToAnswer

-----------------------------------------------------------------------------
(* The provider's counter.  None is missed: whatever writes DONE counts.   *)
(* While no two handlers have been about one booking, what is done stays   *)
(* closed or disputed, so that it is not completed again, because a        *)
(* booking stands as its handler read it until it writes.                  *)
AsRead(p, j) ==
  /\ h[p].at = "transition" => state[j] \in h[p].move.from
  /\ h[p].at = "close" => state[j] \in OpenBooking
  /\ h[p].at = "sweep" => state[j] = "DELIVERED"

StillAsRead == \A p \in Procs : \A j \in h[p].about \cap Bookings : AsRead(p, j)
DoneIsOver == \A j \in DoneBookings : state[j] \in {"COMPLETED", "DISPUTED"}

NoneMissed == jobsCompleted >= Cardinality(DoneBookings)

Counted ==
  crossed \cap Bookings = {} =>
    jobsCompleted = Cardinality(DoneBookings) /\ DoneIsOver /\ StillAsRead

(* A booking's move completes it exactly when it writes DONE, and only     *)
(* from DELIVERED; no move leaves COMPLETED.                               *)
LEMMA MoveOfABooking ==
  ASSUME NEW move \in BookingMoves
  PROVE  /\ move.to = "COMPLETED" <=> move.stage = "DONE"
         /\ move.from \cap {"COMPLETED", "DISPUTED"} = {}
BY DEF BookingMoves, Move

(* A handler begins on what it has just read.                              *)
LEMMA CountedBegins ==
  ASSUME IInv, Counted, NEW p \in Procs, NEW doing, Fits(doing), Begin(p, doing),
         \A j \in doing.about \cap Bookings :
           /\ doing.at = "transition" => state[j] \in doing.move.from
           /\ doing.at = "close" => state[j] \in OpenBooking
           /\ doing.at = "sweep" => state[j] = "DELIVERED"
  PROVE  Counted'
<1> SUFFICES ASSUME crossed' \cap Bookings = {} PROVE (jobsCompleted = Cardinality(DoneBookings) /\ DoneIsOver /\ StillAsRead)'
  BY DEF Counted
<1>0. Handlers /\ h' = [h EXCEPT ![p] = doing]
  BY DEF IInv, Begin
<1>1. \A q \in Procs : h'[q] = IF q = p THEN doing ELSE h[q]
  BY <1>0 DEF Handlers
<1>2. /\ jobsCompleted = Cardinality(DoneBookings) /\ DoneIsOver /\ StillAsRead
      /\ UNCHANGED <<state, stages, jobsCompleted>>
  BY DEF Begin, Counted, job
<1>3. DoneBookings' = DoneBookings
  BY <1>2 DEF DoneBookings
<1>4. StillAsRead'
  BY <1>1, <1>2 DEF StillAsRead, AsRead
<1> QED
  BY <1>2, <1>3, <1>4 DEF DoneIsOver

(* A handler's write leaves the bookings of the others, and those it is    *)
(* not finished with, as they were read.                                   *)
LEMMA AsReadAfterWrite ==
  ASSUME IInv, StillAsRead, crossed \cap Bookings = {}, NEW p \in Procs, NEW now, Fits(now), h' = [h EXCEPT ![p] = now],
         now.about \subseteq h[p].about, now.about # {} => now.at = h[p].at /\ now.move = h[p].move,
         \A j \in (Bookings \ h[p].about) \cup now.about : state'[j] = state[j]
  PROVE  StillAsRead'
<1>0. Handlers /\ Alone
  BY DEF IInv
<1>1. \A q \in Procs : h'[q] = IF q = p THEN now ELSE h[q]
  BY <1>0 DEF Handlers
<1> SUFFICES ASSUME NEW q \in Procs, NEW j \in h'[q].about \cap Bookings
             PROVE  AsRead(q, j)'
  BY DEF StillAsRead
<1>2. j \in JobIds
  BY DEF JobIds
<1>3. j \in h[q].about /\ AsRead(q, j)
  BY <1>1 DEF StillAsRead
<1>4. state'[j] = state[j]
  BY <1>0, <1>1, <1>2, <1>3 DEF Alone
<1>5. h'[q].at = h[q].at /\ h'[q].move = h[q].move
  BY <1>1
<1> QED
  BY <1>3, <1>4, <1>5 DEF AsRead

(* One booking more is done, or none.                                      *)
LEMMA OneMoreDone ==
  ASSUME TypeOK, DoneIsOver, jobsCompleted = Cardinality(DoneBookings),
         NEW j \in JobIds, NEW to \in JobState, NEW stage, Moved(j, to, stage),
         j \in Bookings => /\ to = "COMPLETED" <=> stage = "DONE"
                           /\ state[j] \notin {"COMPLETED", "DISPUTED"}
  PROVE  (jobsCompleted = Cardinality(DoneBookings) /\ DoneIsOver)'
<1>1. \A i \in Bookings : /\ state'[i] = IF i = j THEN to ELSE state[i]
                          /\ i # j => stages'[i] = stages[i]
  <2>1. \A i \in JobIds : state'[i] = IF i = j THEN to ELSE state[i]
    BY DEF Moved, TypeOK
  <2>2. \A i \in JobIds : i # j => stages'[i] = stages[i]
    BY DEF Moved, TypeOK
  <2> QED
    BY <2>1, <2>2 DEF JobIds
<1>2. IsFiniteSet(DoneBookings)
  BY ConstantsAssumption, FS_Subset DEF DoneBookings, JobIds
<1>3. CASE j \notin Bookings
  <2>1. \A i \in Bookings : i # j
    BY <1>3
  <2>2. DoneBookings' = DoneBookings
    BY <1>1, <2>1 DEF DoneBookings
  <2>3. jobsCompleted' = jobsCompleted
    BY <1>3 DEF Moved, TypeOK
  <2> QED
    BY <1>1, <1>3, <2>2, <2>3 DEF DoneIsOver, DoneBookings
<1>4. CASE j \in Bookings /\ to # "COMPLETED"
  <2>1. stage # "DONE" /\ j \notin DoneBookings
    BY <1>4 DEF DoneIsOver
  <2>2. "DONE" \notin stages[j]
    BY <1>4, <2>1 DEF DoneBookings
  <2>3. "DONE" \notin stages'[j]
    <3>1. \A s \in stages'[j] : s \in stages[j] \/ s = stage
      BY DEF Moved
    <3> QED
      BY <2>1, <2>2, <3>1
  <2>4. DoneBookings' = DoneBookings
    BY <1>1, <2>2, <2>3 DEF DoneBookings
  <2>5. jobsCompleted' = jobsCompleted
    BY <1>4 DEF Moved, TypeOK
  <2> QED
    BY <1>1, <2>1, <2>4, <2>5 DEF DoneIsOver, DoneBookings
<1>5. CASE j \in Bookings /\ to = "COMPLETED"
  <2>1. stage = "DONE" /\ j \notin DoneBookings
    BY <1>5 DEF DoneIsOver
  <2>2. "DONE" \in stages'[j]
    BY <2>1 DEF Moved, TypeOK
  <2>3. DoneBookings' = DoneBookings \cup {j}
    BY <1>1, <1>5, <2>1, <2>2 DEF DoneBookings
  <2>4. Cardinality(DoneBookings') = Cardinality(DoneBookings) + 1
    BY <1>2, <2>1, <2>3, FS_AddElement
  <2>5. jobsCompleted' = jobsCompleted + 1
    BY <1>5 DEF Moved
  <2> QED
    BY <1>1, <1>5, <2>3, <2>4, <2>5 DEF DoneIsOver, DoneBookings
<1> QED
  BY <1>3, <1>4, <1>5

(* What every step makes of the count.                                     *)
LEMMA CountedRequest ==
  ASSUME IInv, Counted, NEW p \in Procs, Request(p) \/ AutoComplete(p)
  PROVE  Counted'
<1> USE DEF IInv
<1>1. ASSUME NEW j \in JobIds, Transition(p, j) PROVE Counted'
  <2>1. PICK move \in MovesFrom(j) : Ask(p, [Idle EXCEPT !.at = "transition", !.about = {j}, !.move = move])
    BY <1>1 DEF Transition
  <2> DEFINE doing == [Idle EXCEPT !.at = "transition", !.about = {j}, !.move = move]
  <2>2. move \in Moves(j) /\ move \in AnyMove /\ state[j] \in move.from
    BY MoveTypes DEF MovesFrom
  <2>3. Fits(doing) /\ doing.about = {j} /\ doing.at = "transition" /\ doing.move = move
    BY <2>2, IdleFits DEF Idle, Fits, Handler
  <2>4. Begin(p, doing)
    BY <2>1 DEF Ask
  <2> HIDE DEF doing
  <2> QED
    BY <2>2, <2>3, <2>4, CountedBegins
<1>2. ASSUME NEW j \in JobIds, OpenDispute(p, j) PROVE Counted'
  <2> DEFINE doing == [Idle EXCEPT !.at = "dispute", !.about = {j}]
  <2>1. Fits(doing) /\ doing.about = {j} /\ doing.at = "dispute"
    BY IdleFits DEF Idle, Fits, Handler
  <2>2. Begin(p, doing)
    BY <1>2 DEF Ask, OpenDispute
  <2> HIDE DEF doing
  <2> QED
    BY <2>1, <2>2, CountedBegins
<1>3. ASSUME NEW j \in JobIds, NEW nth \in DOMAIN dispute[j], NEW to \in {"IN_REVIEW", "RESOLVED", "WITHDRAWN"},
             Handle(p, j, nth, to)
      PROVE  Counted'
  <2> DEFINE doing == [Idle EXCEPT !.at = "handle", !.about = {j}, !.nth = nth, !.to = to]
  <2>1. nth \in Nat
    BY LenProperties DEF TypeOK
  <2>2. Fits(doing) /\ doing.about = {j} /\ doing.at = "handle"
    BY <2>1, IdleFits DEF Idle, Fits, Handler, DisputeState, Live
  <2>3. Begin(p, doing)
    BY <1>3 DEF Ask, Handle
  <2> HIDE DEF doing
  <2> QED
    BY <2>2, <2>3, CountedBegins
<1>4. ASSUME CloseAccount(p) PROVE Counted'
  <2> DEFINE doing == [Idle EXCEPT !.at = "close", !.about = OpenWork]
  <2>1. OpenWork \subseteq JobIds /\ \A j \in OpenWork \cap Bookings : state[j] \in OpenBooking
    BY ConstantsAssumption DEF OpenWork, JobIds
  <2>2. Fits(doing) /\ doing.about = OpenWork /\ doing.at = "close"
    BY <2>1, IdleFits DEF Idle, Fits, Handler
  <2>3. Begin(p, doing)
    BY <1>4 DEF Ask, CloseAccount
  <2> HIDE DEF doing
  <2> QED
    BY <2>1, <2>2, <2>3, CountedBegins
<1>5. ASSUME AutoComplete(p) PROVE Counted'
  <2> DEFINE doing == [Idle EXCEPT !.at = "sweep", !.about = Due]
  <2>1. Due \subseteq JobIds /\ \A j \in Due : state[j] = "DELIVERED"
    BY DEF Due, JobIds
  <2>2. Fits(doing) /\ doing.about = Due /\ doing.at = "sweep"
    BY <2>1, IdleFits DEF Idle, Fits, Handler
  <2>3. Begin(p, doing)
    BY <1>5 DEF AutoComplete
  <2> HIDE DEF doing
  <2> QED
    BY <2>1, <2>2, <2>3, CountedBegins
<1>6. ASSUME NEW j \in JobIds, CreateBooking(p, j) \/ CreateOrder(p, j) PROVE Counted'
  <2> DEFINE doing == [Idle EXCEPT !.at = "create", !.about = {j}]
  <2>1. Fits(doing) /\ doing.about = {j} /\ doing.at = "create"
    BY IdleFits DEF Idle, Fits, Handler
  <2>2. Begin(p, doing)
    BY <1>6 DEF Ask, CreateBooking, CreateOrder, Create
  <2> HIDE DEF doing
  <2> QED
    BY <2>1, <2>2, CountedBegins
<1> QED
  BY <1>1, <1>2, <1>3, <1>4, <1>5, <1>6 DEF Request

(* A member's move: a booking is counted as it is completed.               *)
LEMMA CountedTransition ==
  ASSUME IInv, Counted, NEW p \in Procs, TransitionWrite(p)
  PROVE  Counted'
<1> SUFFICES ASSUME crossed \cap Bookings = {} PROVE (jobsCompleted = Cardinality(DoneBookings) /\ DoneIsOver /\ StillAsRead)'
  BY DEF Counted, TransitionWrite
<1> USE DEF IInv
<1>1. PICK j \in h[p].about : Moved(j, h[p].move.to, h[p].move.stage)
  BY DEF TransitionWrite
<1>2. j \in JobIds /\ h[p].move \in Moves(j) /\ h[p].move.to \in JobState
  BY MoveTypes DEF Handlers, Fits, Handler, TransitionWrite
<1>3. jobsCompleted = Cardinality(DoneBookings) /\ DoneIsOver /\ StillAsRead
  BY DEF Counted
<1>4. j \in Bookings => /\ h[p].move.to = "COMPLETED" <=> h[p].move.stage = "DONE"
                        /\ state[j] \notin {"COMPLETED", "DISPUTED"}
  <2> SUFFICES ASSUME j \in Bookings
               PROVE  /\ h[p].move.to = "COMPLETED" <=> h[p].move.stage = "DONE"
                      /\ state[j] \notin {"COMPLETED", "DISPUTED"}
    OBVIOUS
  <2>1. h[p].move \in BookingMoves
    BY <1>2 DEF Moves
  <2>2. state[j] \in h[p].move.from
    BY <1>3 DEF StillAsRead, AsRead, TransitionWrite
  <2> QED
    BY <2>1, <2>2, MoveOfABooking
<1>5. (jobsCompleted = Cardinality(DoneBookings) /\ DoneIsOver)'
  BY <1>1, <1>2, <1>3, <1>4, OneMoreDone
<1>6. \A i \in Bookings \ h[p].about : state'[i] = state[i]
  BY <1>1 DEF Moved, TypeOK, JobIds
<1>7. StillAsRead'
  BY <1>3, <1>6, IdleFits, AsReadAfterWrite DEF TransitionWrite, Rest
<1> QED
  BY <1>5, <1>7

(* The sweep's: each of its list is still delivered, and not yet counted.  *)
LEMMA CountedSweep ==
  ASSUME IInv, Counted, NEW p \in Procs, AutoCompleteOne(p)
  PROVE  Counted'
<1> SUFFICES ASSUME crossed \cap Bookings = {} PROVE (jobsCompleted = Cardinality(DoneBookings) /\ DoneIsOver /\ StillAsRead)'
  BY DEF Counted, AutoCompleteOne, history
<1> USE DEF IInv
<1>1. PICK j \in h[p].about :
        /\ Moved(j, "COMPLETED", "DONE")
        /\ IF h[p].about = {j} THEN Rest(p) ELSE h' = [h EXCEPT ![p].about = @ \ {j}]
  BY DEF AutoCompleteOne
<1> DEFINE left == [h[p] EXCEPT !.about = @ \ {j}]
           now == IF h[p].about = {j} THEN Idle ELSE left
<1>2. j \in JobIds /\ h[p].about \subseteq JobIds /\ h[p] \in Handler /\ h[p].at = "sweep"
  BY DEF Handlers, Handler, AutoCompleteOne
<1>3. jobsCompleted = Cardinality(DoneBookings) /\ DoneIsOver /\ StillAsRead
  BY DEF Counted
<1>4. j \in Bookings => state[j] \notin {"COMPLETED", "DISPUTED"}
  BY <1>2, <1>3 DEF StillAsRead, AsRead
<1>5. (jobsCompleted = Cardinality(DoneBookings) /\ DoneIsOver)'
  BY <1>1, <1>2, <1>3, <1>4, OneMoreDone DEF JobState
<1>6. left.about = h[p].about \ {j} /\ left.at = "sweep" /\ left.move = h[p].move /\ left \in Handler
  BY <1>2 DEF Handler
<1>7. /\ h' = [h EXCEPT ![p] = now] /\ Fits(now)
      /\ now.about \subseteq h[p].about \ {j}
      /\ now.about # {} => now.at = h[p].at /\ now.move = h[p].move
  BY <1>1, <1>2, <1>6, IdleFits DEF Fits, Rest
<1>8. \A i \in Bookings \ {j} : state'[i] = state[i]
  BY <1>1 DEF Moved, TypeOK, JobIds
<1> HIDE DEF now
<1>9. \A i \in (Bookings \ h[p].about) \cup now.about : state'[i] = state[i]
  <2>1. \A i \in JobIds \ {j} : state'[i] = state[i]
    BY <1>1 DEF Moved, TypeOK
  <2> QED
    BY <1>2, <1>7, <2>1 DEF JobIds
<1>10. StillAsRead'
  BY <1>3, <1>7, <1>9, AsReadAfterWrite
<1> QED
  BY <1>5, <1>10

(* A new booking is not done.                                              *)
LEMMA CountedCreated ==
  ASSUME IInv, Counted, NEW p \in Procs, CreateBookingWrite(p) \/ CreateOrderWrite(p)
  PROVE  Counted'
<1> USE DEF IInv
<1>1. PICK j \in h[p].about, first \in {"PENDING_ACCEPTANCE", "ACCEPTED"}, due \in {"none", "ahead"} :
             Created(j, first, due)
  BY DEF CreateBookingWrite, CreateOrderWrite
<1>2. UNCHANGED <<jobsCompleted, crossed>> /\ Rest(p)
  BY DEF CreateBookingWrite, CreateOrderWrite, history
<1> SUFFICES ASSUME crossed \cap Bookings = {} PROVE (jobsCompleted = Cardinality(DoneBookings) /\ DoneIsOver /\ StillAsRead)'
  BY <1>2 DEF Counted
<1>3. jobsCompleted = Cardinality(DoneBookings) /\ DoneIsOver /\ StillAsRead
  BY DEF Counted
<1>4. \A i \in Bookings : /\ i # j => state'[i] = state[i] /\ stages'[i] = stages[i]
                          /\ i = j => "DONE" \notin stages'[i]
  BY <1>1 DEF Created, TypeOK, JobIds
<1>5. j \notin DoneBookings
  BY <1>1, <1>3 DEF Created, DoneIsOver
<1>6. DoneBookings' = DoneBookings
  BY <1>4, <1>5 DEF DoneBookings
<1>7. DoneIsOver'
  BY <1>3, <1>4, <1>5, <1>6 DEF DoneIsOver, DoneBookings
<1>8. StillAsRead'
  BY <1>2, <1>3, <1>4, IdleFits, AsReadAfterWrite DEF Rest
<1> QED
  BY <1>2, <1>3, <1>6, <1>7, <1>8

(* The other writes complete nothing, and undo nothing that is done.       *)
LEMMA CountedOtherWrites ==
  ASSUME IInv, Counted, NEW p \in Procs,
         OpenDisputeWrite(p) \/ CloseOpenWork(p) \/ HandleWrite(p) \/ Fail(p)
  PROVE  Counted'
<1> USE DEF IInv
<1>1. Rest(p) /\ UNCHANGED <<jobsCompleted, crossed>>
  BY DEF OpenDisputeWrite, CloseOpenWork, HandleWrite, Fail, job, history
<1> SUFFICES ASSUME crossed \cap Bookings = {} PROVE (jobsCompleted = Cardinality(DoneBookings) /\ DoneIsOver /\ StillAsRead)'
  BY <1>1 DEF Counted
<1>2. jobsCompleted = Cardinality(DoneBookings) /\ DoneIsOver /\ StillAsRead
  BY DEF Counted
<1>3. \A j \in JobIds : "DONE" \in stages'[j] <=> "DONE" \in stages[j]
  <2>1. CASE OpenDisputeWrite(p)
    BY <2>1 DEF OpenDisputeWrite, TypeOK
  <2>2. CASE CloseOpenWork(p)
    BY <2>2 DEF CloseOpenWork
  <2>3. CASE HandleWrite(p) \/ Fail(p)
    BY <2>3 DEF HandleWrite, Fail, job
  <2> QED
    BY <2>1, <2>2, <2>3
<1>4. DoneBookings' = DoneBookings
  BY <1>3 DEF DoneBookings, JobIds
<1>5. \A j \in Bookings \ h[p].about : state'[j] = state[j]
  BY DEF OpenDisputeWrite, CloseOpenWork, HandleWrite, Fail, job, TypeOK, JobIds
<1>6. StillAsRead'
  BY <1>1, <1>2, <1>5, IdleFits, AsReadAfterWrite DEF Rest
<1>7. \A j \in DoneBookings : state'[j] \in {"COMPLETED", "DISPUTED"}
  <2> SUFFICES ASSUME NEW j \in DoneBookings PROVE state'[j] \in {"COMPLETED", "DISPUTED"}
    OBVIOUS
  <2>1. j \in Bookings /\ j \in JobIds /\ state[j] \in {"COMPLETED", "DISPUTED"}
    BY <1>2 DEF DoneBookings, DoneIsOver, JobIds
  <2>2. CASE OpenDisputeWrite(p)
    BY <2>1, <2>2 DEF OpenDisputeWrite, TypeOK
  <2>3. CASE CloseOpenWork(p)
    <3>1. j \notin h[p].about
      BY <1>2, <2>1, <2>3 DEF CloseOpenWork, StillAsRead, AsRead, OpenBooking, OpenOrder
    <3> QED
      BY <2>1, <2>3, <3>1 DEF CloseOpenWork
  <2>4. CASE HandleWrite(p) \/ Fail(p)
    BY <2>1, <2>4 DEF HandleWrite, Fail, job
  <2> QED
    BY <2>2, <2>3, <2>4
<1> QED
  BY <1>1, <1>2, <1>4, <1>6, <1>7 DEF DoneIsOver

(* Time moves orders only.                                                 *)
LEMMA CountedWorld ==
  ASSUME IInv, Counted, Expire \/ (\E j \in JobIds : Pass(j)) \/ UNCHANGED vars
  PROVE  Counted'
<1> USE DEF IInv
<1>1. UNCHANGED <<jobsCompleted, h, crossed, stages>>
  BY DEF Expire, Pass, history, vars
<1>2. \A j \in Bookings : state'[j] = state[j]
  BY ConstantsAssumption DEF Expire, Pass, vars, TypeOK, JobIds
<1>3. DoneBookings' = DoneBookings
  BY <1>1 DEF DoneBookings
<1>4. DoneIsOver => DoneIsOver'
  BY <1>2, <1>3 DEF DoneIsOver, DoneBookings
<1>5. StillAsRead => StillAsRead'
  BY <1>1, <1>2 DEF StillAsRead, AsRead
<1> QED
  BY <1>1, <1>3, <1>4, <1>5 DEF Counted

(* A job moved: whatever writes DONE of a booking counts it.               *)
LEMMA MovedCounts ==
  ASSUME TypeOK, NoneMissed, NEW j \in JobIds, NEW to, NEW stage, Moved(j, to, stage),
         j \in Bookings /\ stage = "DONE" => to = "COMPLETED"
  PROVE  NoneMissed'
<1>1. \A i \in Bookings : "DONE" \in stages'[i] <=> "DONE" \in stages[i] \/ (i = j /\ stage = "DONE")
  <2>1. \A i \in JobIds : stages'[i] = IF i = j THEN stages[i] \cup {stage} ELSE stages[i]
    BY DEF Moved, TypeOK
  <2> QED
    BY <2>1 DEF JobIds
<1>2. IsFiniteSet(DoneBookings) /\ Cardinality(DoneBookings) \in Nat
  BY ConstantsAssumption, FS_Subset, FS_CardinalityType DEF DoneBookings, JobIds
<1>3. jobsCompleted \in Nat
  BY DEF TypeOK
<1>4. CASE j \in Bookings /\ stage = "DONE"
  <2>1. DoneBookings' = DoneBookings \cup {j}
    BY <1>1, <1>4 DEF DoneBookings
  <2>2. Cardinality(DoneBookings') <= Cardinality(DoneBookings) + 1
    BY <1>2, <2>1, FS_AddElement
  <2>3. jobsCompleted' = jobsCompleted + 1
    BY <1>4 DEF Moved
  <2>4. IsFiniteSet(DoneBookings') /\ Cardinality(DoneBookings') \in Nat
    BY <1>2, <2>1, FS_AddElement, FS_CardinalityType
  <2> QED
    BY <1>2, <1>3, <2>2, <2>3, <2>4 DEF NoneMissed
<1>5. CASE ~(j \in Bookings /\ stage = "DONE")
  <2>1. DoneBookings' = DoneBookings
    BY <1>1, <1>5 DEF DoneBookings
  <2>2. jobsCompleted' >= jobsCompleted
    BY <1>3 DEF Moved
  <2>3. jobsCompleted' \in Nat
    BY <1>3 DEF Moved
  <2> QED
    BY <1>2, <1>3, <2>1, <2>2, <2>3 DEF NoneMissed
<1> QED
  BY <1>4, <1>5

(* No step misses a booking that is done, however handlers overlap.        *)
LEMMA NoneMissedStep == IInv /\ NoneMissed /\ [Next]_vars => NoneMissed'
<1> SUFFICES ASSUME IInv, NoneMissed, [Next]_vars PROVE NoneMissed'
  OBVIOUS
<1> USE DEF IInv
<1>1. ASSUME jobsCompleted' = jobsCompleted, \A i \in Bookings : "DONE" \in stages'[i] => "DONE" \in stages[i]
      PROVE  NoneMissed'
  <2>1. DoneBookings' \subseteq DoneBookings
    BY <1>1 DEF DoneBookings
  <2>2. IsFiniteSet(DoneBookings)
    BY ConstantsAssumption, FS_Subset DEF DoneBookings, JobIds
  <2>3. /\ Cardinality(DoneBookings') <= Cardinality(DoneBookings) /\ Cardinality(DoneBookings') \in Nat
        /\ Cardinality(DoneBookings) \in Nat
    BY <2>1, <2>2, FS_Subset, FS_CardinalityType
  <2>4. jobsCompleted \in Nat
    BY DEF TypeOK
  <2> QED
    BY <1>1, <2>3, <2>4 DEF NoneMissed
<1>2. ASSUME NEW p \in Procs, TransitionWrite(p) PROVE NoneMissed'
  <2>1. PICK j \in h[p].about : Moved(j, h[p].move.to, h[p].move.stage)
    BY <1>2 DEF TransitionWrite
  <2>2. j \in JobIds /\ h[p].move \in Moves(j)
    BY <1>2 DEF Handlers, Fits, Handler, TransitionWrite
  <2>3. j \in Bookings /\ h[p].move.stage = "DONE" => h[p].move.to = "COMPLETED"
    BY <2>2, MoveOfABooking DEF Moves
  <2> QED
    BY <2>1, <2>2, <2>3, MovedCounts
<1>3. ASSUME NEW p \in Procs, AutoCompleteOne(p) PROVE NoneMissed'
  <2>1. PICK j \in h[p].about : Moved(j, "COMPLETED", "DONE")
    BY <1>3 DEF AutoCompleteOne
  <2>2. j \in JobIds
    BY DEF Handlers, Handler
  <2> QED
    BY <2>1, <2>2, MovedCounts
<1>4. ASSUME NEW p \in Procs,
             \/ CreateBookingWrite(p) \/ CreateOrderWrite(p) \/ OpenDisputeWrite(p)
             \/ CloseOpenWork(p) \/ HandleWrite(p) \/ Fail(p)
      PROVE  NoneMissed'
  <2>1. jobsCompleted' = jobsCompleted
    BY <1>4 DEF CreateBookingWrite, CreateOrderWrite, OpenDisputeWrite, CloseOpenWork, HandleWrite, Fail, job
  <2>2. \A i \in JobIds : "DONE" \in stages'[i] => "DONE" \in stages[i]
    <3>1. CASE CreateBookingWrite(p) \/ CreateOrderWrite(p)
      <4>1. PICK j, first, due : Created(j, first, due)
        BY <3>1 DEF CreateBookingWrite, CreateOrderWrite
      <4> QED
        BY <4>1 DEF Created, TypeOK
    <3>2. CASE OpenDisputeWrite(p)
      BY <3>2 DEF OpenDisputeWrite, TypeOK
    <3>3. CASE CloseOpenWork(p)
      BY <3>3 DEF CloseOpenWork
    <3>4. CASE HandleWrite(p) \/ Fail(p)
      BY <3>4 DEF HandleWrite, Fail, job
    <3> QED
      BY <1>4, <3>1, <3>2, <3>3, <3>4
  <2> QED
    BY <1>1, <2>1, <2>2 DEF JobIds
<1>5. CASE UNCHANGED <<jobsCompleted, stages>>
  BY <1>1, <1>5
<1>6. ASSUME NEW p \in Procs, Request(p) \/ AutoComplete(p) PROVE UNCHANGED <<jobsCompleted, stages>>
  BY <1>6 DEF Request, AutoComplete, CloseAccount, CreateBooking, CreateOrder, Create, Transition,
     OpenDispute, Handle, Ask, Begin, job
<1>7. CASE Expire \/ (\E j \in JobIds : Pass(j)) \/ UNCHANGED vars
  BY <1>5, <1>7 DEF Expire, Pass, vars
<1> QED
  BY <1>2, <1>3, <1>4, <1>5, <1>6, <1>7 DEF Next, Commit

(* The profile's count misses no booking that reached DONE, and counts     *)
(* each once as long as no two handlers have been about one booking.       *)
THEOREM AlwaysCountedOnce == Spec => []JobsCountedOnce
<1>1. Init => Counted
  <2> SUFFICES ASSUME Init PROVE Counted
    OBVIOUS
  <2>1. DoneBookings = {} /\ jobsCompleted = 0
    BY DEF Init, DoneBookings, JobIds
  <2>2. StillAsRead
    BY IdleFits DEF Init, StillAsRead
  <2> QED
    BY <2>1, <2>2, FS_EmptySet DEF Counted, DoneIsOver
<1>0. Init => NoneMissed
  <2> SUFFICES ASSUME Init PROVE NoneMissed
    OBVIOUS
  <2>1. DoneBookings = {} /\ jobsCompleted = 0
    BY DEF Init, DoneBookings, JobIds
  <2> QED
    BY <2>1, FS_EmptySet DEF NoneMissed
<1>2. IInv /\ Counted /\ [Next]_vars => Counted'
  BY CountedRequest, CountedTransition, CountedSweep, CountedCreated, CountedOtherWrites, CountedWorld
    DEF Next, Commit
<1>3. Counted /\ NoneMissed => JobsCountedOnce
  BY DEF Counted, NoneMissed, JobsCountedOnce
<1> QED
  BY <1>0, <1>1, <1>2, <1>3, Init_IInv, InvariantStep, NoneMissedStep, PTL DEF Spec
=============================================================================
