-------------------------- MODULE IdempotencyProofs --------------------------
(***************************************************************************)
(* What holds of a key whatever the number of senders, bodies and crashes. *)
(***************************************************************************)
EXTENDS Idempotency, TLAPS, FiniteSetTheorems

Answered == \E r \in row : Live(r) /\ r.answered
Recording == \E c \in Clients : client[c].at = "record"
One(condition) == IF condition THEN 1 ELSE 0
Gots == {receipt.got : receipt \in receipts}

(* The attempt that owns the key holds a young, unanswered reservation of  *)
(* its own.                                                                *)
HoldsTheRow ==
  \A c \in Owners : \E r \in row :
    /\ r.startedAt = client[c].stamp /\ r.age = "fresh"
    /\ ~r.answered /\ r.hash = body[c]

(* startedAt is never handed out twice.                                    *)
StampsPass ==
  /\ \A r \in row : r.startedAt < stamps
  /\ \A c \in Clients : client[c].at = "take" => client[c].seen < stamps

(* An attempt means to take over only what is abandoned for good.          *)
TakesTheAbandoned ==
  \A c \in Clients : client[c].at = "take" =>
    \A r \in row : r.startedAt = client[c].seen =>
      r.age # "fresh" /\ ~(Live(r) /\ r.answered)

(* Every application is recorded, about to be recorded, or lost.           *)
Accounted == effects = lost + One(Answered) + One(Recording)

(* A recorded answer was given out, and answers the body it was made for;  *)
(* any other answer given out was lost.                                    *)
AnswersKnown ==
  /\ \A receipt \in receipts : receipt.sent = receipt.got.body
  /\ \A r \in row : Live(r) /\ r.answered => r.response \in Gots /\ r.response.body = r.hash
  /\ IsFiniteSet(Gots) /\ Cardinality(Gots) <= lost + One(Answered)

IInv == /\ TypeOK /\ OneOwner /\ HoldsTheRow /\ StampsPass
        /\ TakesTheAbandoned /\ Accounted /\ AnswersKnown

-----------------------------------------------------------------------------
(* NoResult is a result: there is a body to choose.                        *)
LEMMA NoResultTyped == NoResult \in Result
BY ConstantsAssumption DEF NoResult, Result

(* An owner's row is the whole table.                                      *)
LEMMA OwnersRow ==
  ASSUME IInv, NEW c \in Clients, client[c].at \in Owning
  PROVE  /\ \A d \in Clients : client[d].at \in Owning => d = c
         /\ \E r \in Record : /\ row = {r} /\ r.startedAt = client[c].stamp
                              /\ r.age = "fresh" /\ ~r.answered /\ r.hash = body[c]
<1>1. c \in Owners
  BY DEF Owners
<1>2. PICK r \in row : /\ r.startedAt = client[c].stamp /\ r.age = "fresh"
                       /\ ~r.answered /\ r.hash = body[c]
  BY <1>1 DEF IInv, HoldsTheRow
<1>3. row = {r} /\ r \in Record
  BY <1>2 DEF IInv, TypeOK
<1>4. \A d \in Clients : client[d].at \in Owning => d = c
  BY <1>1 DEF IInv, OneOwner, Owners
<1> QED
  BY <1>2, <1>3, <1>4

(* A step that leaves the row and the history alone, and takes an attempt  *)
(* neither to a takeover nor into or out of recording.                     *)
Quiet(c) ==
  /\ UNCHANGED <<body, row, stamps, effects, lost, receipts>>
  /\ deaths' \in Nat
  /\ client' \in [Clients -> Attempt]
  /\ \A d \in Clients : d # c => client'[d] = client[d]
  /\ client[c].at # "record"
  /\ client'[c].at \notin {"record", "take"}
  /\ client'[c].at \in Owning =>
       client[c].at \in Owning /\ client'[c].stamp = client[c].stamp

(* A quiet step keeps the invariant.                                       *)
LEMMA QuietInv == ASSUME IInv, NEW c \in Clients, Quiet(c) PROVE IInv'
<1>1. TypeOK'
  BY DEF IInv, TypeOK, Quiet
<1>2. OneOwner'
  <2> SUFFICES ASSUME NEW d \in Clients, NEW e \in Clients,
                      client'[d].at \in Owning, client'[e].at \in Owning
               PROVE  d = e
    BY DEF OneOwner, Owners
  <2>1. client[d].at \in Owning /\ client[e].at \in Owning
    BY DEF Quiet
  <2> QED
    BY <2>1, OwnersRow
<1>3. HoldsTheRow'
  <2> SUFFICES ASSUME NEW d \in Clients, client'[d].at \in Owning
               PROVE  \E r \in row : /\ r.startedAt = client'[d].stamp /\ r.age = "fresh"
                                     /\ ~r.answered /\ r.hash = body[d]
    BY DEF HoldsTheRow, Owners, Quiet
  <2>1. client[d].at \in Owning /\ client'[d].stamp = client[d].stamp
    BY DEF Quiet
  <2> QED
    BY <2>1, OwnersRow
<1>4. StampsPass' /\ TakesTheAbandoned'
  <2>1. \A d \in Clients : client'[d].at = "take" => client'[d] = client[d]
    BY DEF Quiet
  <2> QED
    BY <2>1 DEF IInv, StampsPass, TakesTheAbandoned, Quiet, Live
<1>5. Accounted'
  <2>1. Recording' <=> Recording
    BY DEF Recording, Quiet
  <2>2. Answered' <=> Answered
    BY DEF Answered, Live, Quiet
  <2> QED
    BY <2>1, <2>2 DEF IInv, Accounted, One, Quiet
<1>6. AnswersKnown'
  BY DEF IInv, AnswersKnown, Quiet, Gots, Answered, Live, One
<1> QED
  BY <1>1, <1>2, <1>3, <1>4, <1>5, <1>6 DEF IInv

(* These steps are quiet.                                                  *)
LEMMA QuietSteps ==
  ASSUME IInv, NEW c \in Clients,
         Refuse(c) \/ FailToGiveBack(c) \/ (Die(c) /\ client[c].at # "record")
  PROVE  Quiet(c)
BY DEF IInv, TypeOK, Refuse, FailToGiveBack, Die, GoTo, Resend, Unsent, Quiet, Attempt, At, Owning

-----------------------------------------------------------------------------
(* The invariant holds at first.                                           *)
LEMMA InitInv == Init => IInv
<1> SUFFICES ASSUME Init PROVE IInv
  OBVIOUS
<1>1. TypeOK
  BY ConstantsAssumption DEF Init, TypeOK, Unsent, Attempt, At
<1>2. Owners = {} /\ \A c \in Clients : client[c].at = "read"
  BY DEF Init, Owners, Unsent, Owning
<1>3. OneOwner /\ HoldsTheRow /\ StampsPass /\ TakesTheAbandoned
  BY <1>2 DEF Init, OneOwner, HoldsTheRow, StampsPass, TakesTheAbandoned
<1>4. ~Answered /\ ~Recording /\ Gots = {}
  BY <1>2 DEF Init, Answered, Recording, Gots
<1>5. Accounted
  BY <1>4 DEF Init, Accounted, One
<1>6. AnswersKnown
  BY <1>4, FS_EmptySet DEF Init, AnswersKnown, One
<1> QED
  BY <1>1, <1>3, <1>5, <1>6 DEF IInv

(* The first query: a replay gives out what was given out before.          *)
LEMMA ReadInv == ASSUME IInv, NEW c \in Clients, Read(c) PROVE IInv'
<1>1. CASE UNCHANGED receipts /\ client'[c].at # "take"
  <2>1. Quiet(c)
    BY <1>1 DEF Read, IInv, TypeOK, GoTo, Resend, Unsent, Quiet, Attempt, At, Owning
  <2> QED
    BY <2>1, QuietInv
<1>2. CASE \E r \in row : Settled(r) /\ Replayable(r, body[c]) /\ Receive(c, r.response)
                          /\ GoTo(c, "answered")
  <2>1. PICK r \in row : Settled(r) /\ Replayable(r, body[c]) /\ Receive(c, r.response)
                         /\ GoTo(c, "answered")
    BY <1>2
  <2>2. r \in Record /\ r.response \in Gots /\ r.response.body = body[c]
    BY <2>1 DEF IInv, TypeOK, AnswersKnown, Settled, Replayable
  <2>3. UNCHANGED <<body, row, stamps, deaths, effects, lost>> /\ client[c].at = "read"
    BY DEF Read
  <2>4. TypeOK'
    BY <2>1, <2>2, <2>3 DEF IInv, TypeOK, Receive, GoTo, Attempt, At, Record
  <2>5. Gots' = Gots
    BY <2>1, <2>2 DEF Gots, Receive
  <2>6. \A d \in Clients : \/ d # c /\ client'[d] = client[d]
                           \/ d = c /\ client'[d].at = "answered"
    BY <2>1 DEF IInv, TypeOK, GoTo, Attempt
  <2>7. OneOwner' /\ HoldsTheRow'
    BY <2>3, <2>6 DEF IInv, OneOwner, HoldsTheRow, Owners, Owning
  <2>8. StampsPass' /\ TakesTheAbandoned'
    BY <2>3, <2>6 DEF IInv, StampsPass, TakesTheAbandoned, Live
  <2>9. (Recording' <=> Recording) /\ (Answered' <=> Answered)
    BY <2>3, <2>6 DEF Recording, Answered, Live
  <2>10. Accounted'
    BY <2>3, <2>9 DEF IInv, Accounted, One
  <2>11. AnswersKnown'
    <3>1. \A receipt \in receipts' : receipt.sent = receipt.got.body
      BY <2>1, <2>2 DEF IInv, AnswersKnown, Receive
    <3> QED
      BY <3>1, <2>3, <2>5, <2>9 DEF IInv, AnswersKnown, Live, One
  <2> QED
    BY <2>4, <2>7, <2>8, <2>10, <2>11 DEF IInv
<1>3. CASE \E r \in row : ~Settled(r) /\ ~InFlight(r) /\ UNCHANGED receipts
              /\ client' = [client EXCEPT ![c].at = "take", ![c].seen = r.startedAt]
  <2>1. PICK r \in row : ~Settled(r) /\ ~InFlight(r) /\ UNCHANGED receipts
              /\ client' = [client EXCEPT ![c].at = "take", ![c].seen = r.startedAt]
    BY <1>3
  <2>2. UNCHANGED <<body, row, stamps, deaths, effects, lost>> /\ client[c].at = "read"
    BY DEF Read
  <2>3. r \in Record /\ row = {r}
    BY DEF IInv, TypeOK
  <2>4. \A d \in Clients : \/ d # c /\ client'[d] = client[d]
                           \/ d = c /\ client'[d].at = "take" /\ client'[d].seen = r.startedAt
    BY <2>1 DEF IInv, TypeOK, Attempt
  <2>5. TypeOK'
    BY <2>1, <2>2, <2>3 DEF IInv, TypeOK, Attempt, At, Record
  <2>6. OneOwner' /\ HoldsTheRow'
    BY <2>2, <2>4 DEF IInv, OneOwner, HoldsTheRow, Owners, Owning
  <2>7. StampsPass'
    BY <2>2, <2>4 DEF IInv, StampsPass
  <2>8. r.age # "fresh" /\ ~(Live(r) /\ r.answered)
    BY <2>1, <2>3 DEF Settled, InFlight, Live, Record, Age
  <2>9. TakesTheAbandoned'
    BY <2>2, <2>3, <2>4, <2>8 DEF IInv, TakesTheAbandoned, Live
  <2>10. (Recording' <=> Recording) /\ (Answered' <=> Answered)
    BY <2>2, <2>4 DEF Recording, Answered, Live
  <2>11. Accounted' /\ AnswersKnown'
    BY <2>1, <2>2, <2>10 DEF IInv, Accounted, AnswersKnown, One, Gots, Live
  <2> QED
    BY <2>5, <2>6, <2>7, <2>9, <2>11 DEF IInv
<1>4. \/ UNCHANGED receipts /\ GoTo(c, "create")
      \/ UNCHANGED receipts /\ GoTo(c, "answered")
      \/ UNCHANGED receipts /\ Resend(c)
      \/ \E r \in row : Settled(r) /\ Replayable(r, body[c]) /\ Receive(c, r.response)
                        /\ GoTo(c, "answered")
      \/ \E r \in row : ~Settled(r) /\ ~InFlight(r) /\ UNCHANGED receipts
              /\ client' = [client EXCEPT ![c].at = "take", ![c].seen = r.startedAt]
  BY DEF Read
<1>5. GoTo(c, "create") \/ GoTo(c, "answered") \/ Resend(c) => client'[c].at # "take"
  BY DEF IInv, TypeOK, GoTo, Resend, Unsent, Attempt
<1> QED
  BY <1>1, <1>2, <1>3, <1>4, <1>5

(* A key is claimed where nothing answers it and nobody owns it.           *)
LEMMA ReserveInv ==
  ASSUME IInv, NEW c \in Clients, Reserve(c), ~Answered, Owners = {},
         UNCHANGED <<body, deaths, effects, lost, receipts>>
  PROVE  IInv'
<1> DEFINE r == Reservation(c)
<1>1. r \in Record /\ row' = {r} /\ stamps \in Nat /\ stamps' = stamps + 1
  BY NoResultTyped DEF IInv, TypeOK, Reserve, Reservation, Record, Age
<1>2. r.startedAt = stamps /\ r.age = "fresh" /\ r.answered = FALSE /\ r.hash = body[c]
  BY DEF Reservation
<1>3. \A d \in Clients :
        \/ d # c /\ client'[d] = client[d] /\ client'[d].at \notin Owning
        \/ d = c /\ client'[d].at = "run" /\ client'[d].stamp = stamps
  <2>1. \A d \in Clients : client[d].at \notin Owning
    BY DEF Owners
  <2>2. client \in [Clients -> Attempt]
        /\ client' = [client EXCEPT ![c].at = "run", ![c].stamp = stamps]
    BY DEF IInv, TypeOK, Reserve
  <2>3. client'[c].at = "run" /\ client'[c].stamp = stamps
        /\ \A d \in Clients : d # c => client'[d] = client[d]
    <3>1. client'[c] = [client[c] EXCEPT !.at = "run", !.stamp = stamps]
          /\ \A d \in Clients : d # c => client'[d] = client[d]
      BY <2>2
    <3>2. client[c] \in [at : At, seen : Nat, stamp : Nat]
      BY <2>2 DEF Attempt
    <3>3. client'[c].at = "run" /\ client'[c].stamp = stamps
      BY <3>1, <3>2
    <3> QED
      BY <3>1, <3>3
  <2> QED
    BY <2>1, <2>3
<1>4. TypeOK'
  <2>1. [client[c] EXCEPT !.at = "run", !.stamp = stamps] \in Attempt
    BY <1>1 DEF IInv, TypeOK, Attempt, At
  <2>2. client' \in [Clients -> Attempt]
    BY <2>1 DEF IInv, TypeOK, Reserve
  <2> HIDE DEF r
  <2> QED
    BY <1>1, <2>2 DEF IInv, TypeOK
<1>5. OneOwner'
  BY <1>3 DEF OneOwner, Owners
<1>6. HoldsTheRow'
  BY <1>1, <1>2, <1>3 DEF HoldsTheRow, Owners
<1>7. StampsPass'
  <2>1. \A d \in Clients : client'[d].at = "take" => client[d].at = "take" /\ client'[d] = client[d]
    BY <1>3
  <2>2. \A d \in Clients : client[d] \in Attempt
    BY DEF IInv, TypeOK
  <2> QED
    BY <1>1, <1>2, <2>1, <2>2 DEF IInv, StampsPass, Attempt
<1>8. TakesTheAbandoned'
  <2>1. \A d \in Clients : client'[d].at = "take" => client'[d].seen < stamps
    BY <1>3 DEF IInv, StampsPass
  <2> QED
    BY <1>1, <1>2, <2>1 DEF TakesTheAbandoned
<1>9. ~Answered' /\ ~Recording /\ ~Recording'
  BY <1>1, <1>2, <1>3 DEF Answered, Recording, Owners, Owning
<1>10. Accounted' /\ AnswersKnown'
  BY <1>1, <1>2, <1>9 DEF IInv, Accounted, AnswersKnown, One, Gots, Answered, Live
<1> QED
  BY <1>4, <1>5, <1>6, <1>7, <1>8, <1>10 DEF IInv

(* The insert keeps the invariant.                                         *)
LEMMA CreateInv == ASSUME IInv, NEW c \in Clients, Create(c) PROVE IInv'
<1>1. CASE row = {}
  <2>1. ~Answered /\ Owners = {}
    BY <1>1 DEF Answered, IInv, HoldsTheRow
  <2> QED
    BY <1>1, <2>1, ReserveInv DEF Create
<1>2. CASE row # {}
  <2>1. Quiet(c)
    BY <1>2 DEF Create, IInv, TypeOK, Resend, Unsent, Quiet, Attempt, At, Owning
  <2> QED
    BY <2>1, QuietInv
<1> QED
  BY <1>1, <1>2

(* The takeover keeps the invariant.                                       *)
LEMMA TakeInv == ASSUME IInv, NEW c \in Clients, Take(c) PROVE IInv'
<1>1. CASE \E r \in row : AsRead(r, client[c].seen)
  <2>1. PICK r \in row : r.startedAt = client[c].seen
    BY <1>1 DEF AsRead
  <2>2. r.age # "fresh" /\ ~(Live(r) /\ r.answered)
    BY <2>1 DEF Take, IInv, TakesTheAbandoned
  <2>3. row = {r}
    BY DEF IInv, TypeOK
  <2>4. ~Answered /\ Owners = {}
    BY <2>2, <2>3 DEF Answered, IInv, HoldsTheRow
  <2> QED
    BY <1>1, <2>4, ReserveInv DEF Take
<1>2. CASE ~\E r \in row : AsRead(r, client[c].seen)
  <2>1. Quiet(c)
    BY <1>2 DEF Take, IInv, TypeOK, Resend, Unsent, Quiet, Attempt, At, Owning
  <2> QED
    BY <2>1, QuietInv
<1> QED
  BY <1>1, <1>2

(* The owner moves on and leaves the row alone; effects and lost move by   *)
(* what it now owes.                                                       *)
OwnerMoves(c, step) ==
  /\ UNCHANGED <<body, row, stamps>>
  /\ client[c].at \in Owning
  /\ client' \in [Clients -> Attempt]
  /\ \A d \in Clients : d # c => client'[d] = client[d]
  /\ client'[c].at = step
  /\ step \in Owning => client'[c].stamp = client[c].stamp

(* A step of the owner that leaves the row alone keeps the invariant.      *)
LEMMA OwnerMovesInv ==
  ASSUME IInv, NEW c \in Clients, NEW step \in {"read", "record", "giveback", "answered"},
         OwnerMoves(c, step), deaths' \in Nat, effects' \in Nat, lost' \in Nat,
         receipts' \subseteq [sent : Bodies, got : Result]
  PROVE  /\ TypeOK' /\ OneOwner' /\ HoldsTheRow' /\ StampsPass' /\ TakesTheAbandoned'
         /\ ~Answered /\ ~Answered'
         /\ (Recording <=> client[c].at = "record")
         /\ (Recording' <=> step = "record")
<1>1. \A d \in Clients : \/ d # c /\ client'[d] = client[d] /\ client[d].at \notin Owning
                         \/ d = c /\ client'[d].at = step
                            /\ (step \in Owning => client'[d].stamp = client[d].stamp)
  BY OwnersRow DEF IInv, TypeOK, OwnerMoves, Attempt
<1>2. TypeOK'
  BY DEF IInv, TypeOK, OwnerMoves, Attempt, At
<1>3. OneOwner'
  BY <1>1 DEF OneOwner, Owners
<1>4. HoldsTheRow'
  BY <1>1 DEF OwnerMoves, IInv, HoldsTheRow, Owners
<1>5. StampsPass' /\ TakesTheAbandoned'
  <2>1. \A d \in Clients : client'[d].at = "take" => client'[d] = client[d]
    BY <1>1
  <2> QED
    BY <2>1 DEF IInv, StampsPass, TakesTheAbandoned, OwnerMoves, Live
<1>6. ~Answered /\ ~Answered'
  BY OwnersRow DEF Answered, OwnerMoves, Live
<1>7. Recording <=> client[c].at = "record"
  BY OwnersRow DEF Recording, OwnerMoves, Owning
<1>8. Recording' <=> step = "record"
  BY <1>1 DEF Recording, Owning
<1> QED
  BY <1>2, <1>3, <1>4, <1>5, <1>6, <1>7, <1>8

(* Applying the action keeps the invariant.                                *)
LEMMA ApplyInv == ASSUME IInv, NEW c \in Clients, Apply(c) PROVE IInv'
<1>1. OwnerMoves(c, "record")
  BY DEF Apply, GoTo, IInv, TypeOK, Attempt, At, OwnerMoves, Owning
<1>2. effects' \in Nat /\ lost' \in Nat /\ deaths' \in Nat
      /\ receipts' \subseteq [sent : Bodies, got : Result]
  BY DEF Apply, IInv, TypeOK
<1>3. /\ TypeOK' /\ OneOwner' /\ HoldsTheRow' /\ StampsPass' /\ TakesTheAbandoned'
      /\ ~Answered /\ ~Answered' /\ ~Recording /\ Recording'
  BY <1>1, <1>2, OwnerMovesInv DEF Apply
<1>4. Accounted'
  BY <1>3 DEF Apply, IInv, TypeOK, Accounted, One
<1>5. AnswersKnown'
  BY <1>3 DEF Apply, IInv, AnswersKnown, Gots, Answered, One
<1> QED
  BY <1>3, <1>4, <1>5 DEF IInv

(* An answer that is lost keeps the invariant.                             *)
LEMMA LostInv ==
  ASSUME IInv, NEW c \in Clients, client[c].at = "record", NEW step \in {"read", "giveback"},
         OwnerMoves(c, step), deaths' \in Nat, lost' = lost + 1, UNCHANGED <<effects, receipts>>
  PROVE  IInv'
<1>1. effects' \in Nat /\ lost' \in Nat /\ lost \in Nat
      /\ receipts' \subseteq [sent : Bodies, got : Result]
  BY DEF IInv, TypeOK
<1>2. /\ TypeOK' /\ OneOwner' /\ HoldsTheRow' /\ StampsPass' /\ TakesTheAbandoned'
      /\ ~Answered /\ ~Answered' /\ Recording /\ ~Recording'
  BY <1>1, OwnerMovesInv
<1>3. Accounted'
  BY <1>1, <1>2 DEF IInv, Accounted, One
<1>4. Gots' = Gots /\ (IsFiniteSet(Gots) => Cardinality(Gots) \in Nat)
  BY FS_CardinalityType DEF Gots
<1>5. AnswersKnown'
  BY <1>1, <1>2, <1>4 DEF IInv, AnswersKnown, Answered, One
<1> QED
  BY <1>2, <1>3, <1>5 DEF IInv

(* These steps lose an answer.                                             *)
LEMMA LostSteps ==
  ASSUME IInv, NEW c \in Clients, FailLate(c) \/ (Die(c) /\ client[c].at = "record")
  PROVE  IInv'
<1>1. CASE FailLate(c)
  <2>1. OwnerMoves(c, "giveback")
    BY <1>1 DEF FailLate, GoTo, IInv, TypeOK, Attempt, At, OwnerMoves, Owning
  <2> QED
    BY <1>1, <2>1, LostInv DEF FailLate, IInv, TypeOK
<1>2. CASE Die(c) /\ client[c].at = "record"
  <2>1. OwnerMoves(c, "read")
    BY <1>2 DEF Die, Resend, Unsent, IInv, TypeOK, Attempt, At, OwnerMoves, Owning
  <2> QED
    BY <1>2, <2>1, LostInv DEF Die, IInv, TypeOK
<1> QED
  BY <1>1, <1>2

(* What is given out beside a known set of answers.                        *)
LEMMA OneMoreAnswer ==
  ASSUME NEW c, Receive(c, Answer(c)), IsFiniteSet(Gots)
  PROVE  /\ Gots' = Gots \cup {Answer(c)} /\ IsFiniteSet(Gots')
         /\ Cardinality(Gots) \in Nat /\ Cardinality(Gots') \in Nat
         /\ Cardinality(Gots') <= Cardinality(Gots) + 1
<1>1. Gots' = Gots \cup {Answer(c)}
  <2> DEFINE new == [sent |-> body[c], got |-> Answer(c)]
  <2>1. receipts' = receipts \cup {new} /\ new.got = Answer(c)
    BY DEF Receive
  <2>2. \A x : (\E receipt \in receipts' : x = receipt.got)
               <=> (\E receipt \in receipts : x = receipt.got) \/ x = new.got
    <3> HIDE DEF new
    <3> QED
      BY <2>1
  <2> QED
    BY <2>1, <2>2, Zenon DEF Gots
<1>2. IsFiniteSet(Gots \cup {Answer(c)}) /\ Cardinality(Gots) \in Nat
      /\ Cardinality(Gots \cup {Answer(c)}) =
           IF Answer(c) \in Gots THEN Cardinality(Gots) ELSE Cardinality(Gots) + 1
  BY FS_AddElement, FS_CardinalityType
<1> QED
  BY <1>1, <1>2

(* An answer given and not recorded keeps the invariant.                   *)
LEMMA FailToRecordInv == ASSUME IInv, NEW c \in Clients, FailToRecord(c) PROVE IInv'
<1>1. OwnerMoves(c, "answered")
  BY DEF FailToRecord, GoTo, IInv, TypeOK, Attempt, At, OwnerMoves, Owning
<1>2. Answer(c) \in Result
  BY DEF IInv, TypeOK, Attempt, Answer, Result
<1>3. effects' \in Nat /\ lost' \in Nat /\ deaths' \in Nat /\ lost \in Nat /\ lost' = lost + 1
      /\ receipts' \subseteq [sent : Bodies, got : Result]
  BY <1>2 DEF FailToRecord, Receive, IInv, TypeOK
<1>4. /\ TypeOK' /\ OneOwner' /\ HoldsTheRow' /\ StampsPass' /\ TakesTheAbandoned'
      /\ ~Answered /\ ~Answered' /\ Recording /\ ~Recording'
  BY <1>1, <1>3, OwnerMovesInv DEF FailToRecord
<1>5. Accounted'
  BY <1>3, <1>4 DEF FailToRecord, IInv, Accounted, One
<1>6. /\ Gots' = Gots \cup {Answer(c)} /\ IsFiniteSet(Gots')
      /\ Cardinality(Gots) \in Nat /\ Cardinality(Gots') \in Nat
      /\ Cardinality(Gots') <= Cardinality(Gots) + 1
  BY OneMoreAnswer DEF FailToRecord, IInv, AnswersKnown
<1>7. \A receipt \in receipts' : receipt.sent = receipt.got.body
  BY DEF FailToRecord, Receive, Answer, IInv, AnswersKnown
<1>8. AnswersKnown'
  BY <1>3, <1>4, <1>6, <1>7 DEF IInv, AnswersKnown, Answered, One
<1> QED
  BY <1>4, <1>5, <1>8 DEF IInv

(* The owner lets go of the key with an answer recorded, or with no row.   *)
LEMMA RecordAnswerInv == ASSUME IInv, NEW c \in Clients, RecordAnswer(c) PROVE IInv'
<1>1. client[c].at = "record" /\ UNCHANGED <<body, stamps, deaths, effects, lost>>
  BY DEF RecordAnswer
<1>2. PICK r \in Record : /\ row = {r} /\ r.startedAt = client[c].stamp
                          /\ r.age = "fresh" /\ ~r.answered /\ r.hash = body[c]
  BY <1>1, OwnersRow DEF Owning
<1> DEFINE s == [r EXCEPT !.answered = TRUE, !.response = Answer(c)]
<1>3. Answer(c) \in Result /\ Answer(c).body = body[c]
  BY DEF IInv, TypeOK, Attempt, Answer, Result
<1>4. row' = {s}
  BY <1>2 DEF RecordAnswer, Recorded
<1>5. s \in Record /\ s.startedAt = r.startedAt /\ s.age = "fresh" /\ s.answered
      /\ s.response = Answer(c) /\ s.hash = r.hash
  BY <1>2, <1>3 DEF Record
<1> HIDE DEF s
<1>6. \A d \in Clients : \/ d # c /\ client'[d] = client[d] /\ client[d].at \notin Owning
                         \/ d = c /\ client'[d].at = "answered"
  <2>1. \A d \in Clients : d # c => client[d].at \notin Owning
    BY <1>1, OwnersRow DEF Owning
  <2> QED
    BY <2>1 DEF RecordAnswer, GoTo, IInv, TypeOK, Attempt
<1>7. TypeOK'
  <2>1. client' \in [Clients -> Attempt]
    BY DEF RecordAnswer, GoTo, IInv, TypeOK, Attempt, At
  <2>2. receipts' \subseteq [sent : Bodies, got : Result]
    BY <1>3 DEF RecordAnswer, Receive, IInv, TypeOK
  <2> QED
    BY <1>1, <1>4, <1>5, <2>1, <2>2 DEF IInv, TypeOK
<1>8. OneOwner' /\ HoldsTheRow'
  BY <1>6 DEF OneOwner, HoldsTheRow, Owners, Owning
<1>9. StampsPass'
  BY <1>1, <1>2, <1>4, <1>5, <1>6 DEF IInv, StampsPass
<1>10. TakesTheAbandoned'
  <2>1. \A d \in Clients : client'[d].at = "take" => client[d].at = "take"
                           /\ client'[d].seen # s.startedAt
    BY <1>2, <1>5, <1>6 DEF IInv, TakesTheAbandoned
  <2> QED
    BY <1>4, <2>1 DEF TakesTheAbandoned
<1>11. ~Answered /\ Answered' /\ Recording /\ ~Recording'
  BY <1>1, <1>2, <1>4, <1>5, <1>6 DEF Answered, Recording, Live, Owning
<1>12. Accounted'
  BY <1>1, <1>11 DEF IInv, TypeOK, Accounted, One
<1>13. AnswersKnown'
  <2>1. /\ Gots' = Gots \cup {Answer(c)} /\ IsFiniteSet(Gots')
        /\ Cardinality(Gots) \in Nat /\ Cardinality(Gots') \in Nat
        /\ Cardinality(Gots') <= Cardinality(Gots) + 1
    BY OneMoreAnswer DEF RecordAnswer, IInv, AnswersKnown
  <2>2. \A receipt \in receipts' : receipt.sent = receipt.got.body
    BY DEF RecordAnswer, Receive, Answer, IInv, AnswersKnown
  <2>3. \A t \in row' : t.response \in Gots' /\ t.response.body = t.hash
    BY <1>2, <1>3, <1>4, <1>5, <2>1
  <2>4. Cardinality(Gots') <= lost' + One(Answered')
    BY <1>1, <1>11, <2>1 DEF IInv, TypeOK, AnswersKnown, One
  <2> QED
    BY <2>1, <2>2, <2>3, <2>4 DEF AnswersKnown
<1> QED
  BY <1>7, <1>8, <1>9, <1>10, <1>12, <1>13 DEF IInv

(* The row goes, and whoever still owned it with it.                       *)
LEMMA RowGone ==
  ASSUME IInv, ~Answered, row' = {}, client' \in [Clients -> Attempt],
         \A d \in Clients : client'[d] = client[d] \/ client'[d].at = "answered",
         \A d \in Clients : client'[d].at \notin Owning, ~Recording,
         UNCHANGED <<body, stamps, deaths, effects, lost, receipts>>
  PROVE  IInv'
<1>1. TypeOK'
  BY DEF IInv, TypeOK
<1>2. OneOwner' /\ HoldsTheRow' /\ TakesTheAbandoned'
  BY DEF OneOwner, HoldsTheRow, TakesTheAbandoned, Owners
<1>3. StampsPass'
  BY DEF IInv, StampsPass
<1>4. ~Answered' /\ ~Recording'
  BY DEF Answered, Recording, Owning
<1>5. Accounted' /\ AnswersKnown'
  BY <1>4 DEF IInv, Accounted, AnswersKnown, One, Gots
<1> QED
  BY <1>1, <1>2, <1>3, <1>5 DEF IInv

(* Giving the key back keeps the invariant.                                *)
LEMMA GiveBackInv == ASSUME IInv, NEW c \in Clients, GiveBack(c) PROVE IInv'
<1>1. \A d \in Clients : client[d].at \in Owning => d = c
  BY OwnersRow DEF GiveBack, Owning
<1>2. ~Answered /\ ~Recording
  BY OwnersRow, <1>1 DEF GiveBack, Answered, Recording, Owning
<1>3. client' \in [Clients -> Attempt] /\ client'[c].at = "answered"
      /\ \A d \in Clients : d # c => client'[d] = client[d]
  BY DEF GiveBack, GoTo, IInv, TypeOK, Attempt, At
<1>4. \A d \in Clients : client'[d].at \notin Owning
  BY <1>1, <1>3 DEF Owning
<1> QED
  BY <1>2, <1>3, <1>4, RowGone DEF GiveBack

(* The sweep keeps the invariant.                                          *)
LEMMA SweepInv == ASSUME IInv, Sweep PROVE IInv'
<1>1. PICK r \in row : ~Live(r)
  BY DEF Sweep
<1>2. row = {r}
  BY DEF IInv, TypeOK
<1>3. Owners = {} /\ ~Answered
  BY <1>1, <1>2 DEF IInv, HoldsTheRow, Answered, Live
<1>4. ~Recording /\ \A d \in Clients : client[d].at \notin Owning
  BY <1>3 DEF Recording, Owners, Owning
<1> QED
  BY <1>3, <1>4, RowGone DEF Sweep, IInv, TypeOK

(* Nothing that is held ages.                                              *)
LEMMA GrowOldInv == ASSUME IInv, GrowOld PROVE IInv'
<1>1. PICK r \in row : r.age = "fresh" /\ ~Held(r) /\ row' = {[r EXCEPT !.age = "old"]}
  BY DEF GrowOld
<1> DEFINE s == [r EXCEPT !.age = "old"]
<1>2. row = {r} /\ r \in Record /\ row' = {s}
  BY <1>1 DEF IInv, TypeOK
<1>3. s \in Record /\ s.startedAt = r.startedAt /\ s.age = "old" /\ s.answered = r.answered
      /\ s.response = r.response /\ s.hash = r.hash
  BY <1>2 DEF Record, Age
<1> HIDE DEF s
<1>4. Owners = {} /\ UNCHANGED <<body, client, stamps, deaths, effects, lost, receipts>>
  BY <1>1, <1>2 DEF GrowOld, IInv, HoldsTheRow, Held
<1>5. TypeOK'
  BY <1>2, <1>3, <1>4 DEF IInv, TypeOK
<1>6. OneOwner' /\ HoldsTheRow'
  BY <1>4 DEF OneOwner, HoldsTheRow, Owners
<1>7. StampsPass'
  BY <1>2, <1>3, <1>4 DEF IInv, StampsPass
<1>8. TakesTheAbandoned'
  <2>1. \A d \in Clients : client[d].at = "take" => client[d].seen # r.startedAt
    BY <1>1 DEF IInv, TakesTheAbandoned
  <2> QED
    BY <1>2, <1>3, <1>4, <2>1 DEF TakesTheAbandoned
<1>9. (Answered' <=> Answered) /\ (Recording' <=> Recording) /\ Live(r) /\ Live(s)
  BY <1>1, <1>2, <1>3, <1>4 DEF Answered, Recording, Live
<1>10. Accounted' /\ AnswersKnown'
  BY <1>2, <1>3, <1>4, <1>9 DEF IInv, Accounted, AnswersKnown, One, Gots
<1> QED
  BY <1>5, <1>6, <1>7, <1>8, <1>10 DEF IInv

(* A row that expires keeps the invariant.                                 *)
LEMMA ExpireInv == ASSUME IInv, Expire PROVE IInv'
<1>1. PICK r \in row : r.age = "old" /\ row' = {[r EXCEPT !.age = "expired"]}
  BY DEF Expire
<1> DEFINE s == [r EXCEPT !.age = "expired"]
<1>2. row = {r} /\ r \in Record /\ row' = {s}
  BY <1>1 DEF IInv, TypeOK
<1>3. s \in Record /\ s.startedAt = r.startedAt /\ s.age = "expired" /\ ~Live(s)
  BY <1>2 DEF Record, Age, Live
<1> HIDE DEF s
<1>4. Owners = {} /\ UNCHANGED <<body, client, stamps, deaths>>
      /\ effects' = 0 /\ lost' = 0 /\ receipts' = {}
  BY <1>1, <1>2 DEF Expire, IInv, HoldsTheRow
<1>5. TypeOK'
  BY <1>2, <1>3, <1>4 DEF IInv, TypeOK
<1>6. OneOwner' /\ HoldsTheRow'
  BY <1>4 DEF OneOwner, HoldsTheRow, Owners
<1>7. StampsPass'
  BY <1>2, <1>3, <1>4 DEF IInv, StampsPass
<1>8. TakesTheAbandoned'
  BY <1>2, <1>3, <1>4 DEF TakesTheAbandoned
<1>9. ~Answered' /\ ~Recording'
  BY <1>2, <1>3, <1>4 DEF Answered, Recording, Owners, Owning
<1>10. Accounted'
  BY <1>4, <1>9 DEF Accounted, One
<1>11. Gots' = {}
  BY <1>4 DEF Gots
<1>12. AnswersKnown'
  BY <1>2, <1>3, <1>4, <1>9, <1>11, FS_EmptySet DEF AnswersKnown, One
<1> QED
  BY <1>5, <1>6, <1>7, <1>8, <1>10, <1>12 DEF IInv

-----------------------------------------------------------------------------
(* Every step keeps the invariant.                                         *)
LEMMA NextInv == ASSUME IInv, [Next]_vars PROVE IInv'
<1>1. ASSUME NEW c \in Clients, Proceed(c) PROVE IInv'
  BY <1>1, ReadInv, CreateInv, TakeInv, ApplyInv, RecordAnswerInv, GiveBackInv,
     QuietSteps, QuietInv DEF Proceed
<1>2. ASSUME NEW c \in Clients, Die(c) \/ FailLate(c) \/ FailToRecord(c) \/ FailToGiveBack(c)
      PROVE IInv'
  BY <1>2, LostSteps, FailToRecordInv, QuietSteps, QuietInv
<1>3. CASE UNCHANGED vars
  <2>1. TypeOK' /\ OneOwner' /\ HoldsTheRow' /\ StampsPass' /\ TakesTheAbandoned'
    BY <1>3 DEF vars, IInv, TypeOK, OneOwner, HoldsTheRow, StampsPass, TakesTheAbandoned,
                Owners, Live
  <2>2. Accounted' /\ AnswersKnown'
    BY <1>3 DEF vars, IInv, Accounted, AnswersKnown, Gots, Answered, Recording, Live, One
  <2> QED
    BY <2>1, <2>2 DEF IInv
<1> QED
  BY <1>1, <1>2, <1>3, GrowOldInv, ExpireInv, SweepInv DEF Next

(* The inductive invariant holds in every reachable state.                 *)
THEOREM Invariance == Spec => []IInv
BY InitInv, NextInv, PTL DEF Spec

(* Every reachable state is well-typed, and a key has one row at most.     *)
THEOREM TypeCorrect == Spec => []TypeOK
<1>1. IInv => TypeOK
  BY DEF IInv
<1> QED
  BY <1>1, Invariance, PTL

(* "Two attempts cannot both believe they took it" (reserve), for any      *)
(* number of attempts under a key.                                         *)
THEOREM AlwaysOneOwner == Spec => []OneOwner
<1>1. IInv => OneOwner
  BY DEF IInv
<1> QED
  BY <1>1, Invariance, PTL

(* However often and by however many senders a request is repeated, the    *)
(* interceptor lets the action be applied once, and once more only for     *)
(* every application whose answer was not recorded.                        *)
THEOREM AlwaysAppliedOnce == Spec => []AppliedOnce
<1>1. ASSUME IInv PROVE AppliedOnce
  <2>1. ~(Answered /\ Recording)
    BY <1>1, OwnersRow DEF Answered, Recording, Live, Owning
  <2> QED
    BY <1>1, <2>1 DEF IInv, TypeOK, Accounted, One, AppliedOnce
<1> QED
  BY <1>1, Invariance, PTL

(* "The same response, rather than a second of whatever it made", to the   *)
(* senders of the body it was made for.                                    *)
THEOREM AlwaysOneAnswer == Spec => []OneAnswer
<1>1. ASSUME IInv PROVE OneAnswer
  <2>1. Cardinality(Gots) \in Nat /\ lost \in Nat /\ Cardinality(Gots) <= lost + One(Answered)
    BY <1>1, FS_CardinalityType DEF IInv, TypeOK, AnswersKnown
  <2>2. Cardinality(Gots) <= 1 + lost
    BY <2>1 DEF One
  <2> QED
    BY <1>1, <2>2 DEF IInv, AnswersKnown, OneAnswer, Gots
<1> QED
  BY <1>1, Invariance, PTL

(* No step of any attempt, however late, replaces or deletes a recorded    *)
(* answer before it expires.                                               *)
THEOREM AnswerAlwaysStands == Spec => AnswerStands
<1> DEFINE Stands == \A r \in row : Live(r) /\ r.answered =>
                       \E s \in row' : [s EXCEPT !.age = r.age] = r
<1>1. ASSUME IInv, [Next]_vars PROVE Stands
  <2> SUFFICES ASSUME NEW r \in row, Live(r), r.answered
               PROVE  \E s \in row' : [s EXCEPT !.age = r.age] = r
    OBVIOUS
  <2>1. row = {r} /\ r \in Record
    BY <1>1 DEF IInv, TypeOK
  <2>2. \A c \in Clients : client[c].at \notin Owning
    BY <1>1, <2>1 DEF IInv, HoldsTheRow, Owners
  <2>3. CASE row' = row
    BY <2>1, <2>3 DEF Record
  <2>4. CASE \E age \in Age : row' = {[r EXCEPT !.age = age]}
    <3>1. PICK age \in Age : row' = {[r EXCEPT !.age = age]}
      BY <2>4
    <3>2. [[r EXCEPT !.age = age] EXCEPT !.age = r.age] = r
      BY <2>1 DEF Record
    <3> QED
      BY <3>1, <3>2
  <2>5. ASSUME NEW c \in Clients, Proceed(c) PROVE row' = row
    <3>1. CASE Create(c)
      BY <2>1, <3>1 DEF Create
    <3>2. CASE Take(c)
      <4>1. ~AsRead(r, client[c].seen)
        BY <1>1, <2>1, <3>2 DEF IInv, TakesTheAbandoned, AsRead, Take
      <4> QED
        BY <2>1, <3>2, <4>1 DEF Take
    <3>3. CASE Read(c)
      BY <3>3 DEF Read
    <3> QED
      BY <2>2, <2>5, <3>1, <3>2, <3>3
      DEF Proceed, Apply, Refuse, RecordAnswer, GiveBack, Owning
  <2>6. ASSUME NEW c \in Clients, Die(c) \/ FailLate(c) \/ FailToRecord(c) \/ FailToGiveBack(c)
        PROVE row' = row
    BY <2>6 DEF Die, FailLate, FailToRecord, FailToGiveBack
  <2>7. CASE GrowOld \/ Expire
    <3>1. row' = {[r EXCEPT !.age = "old"]} \/ row' = {[r EXCEPT !.age = "expired"]}
      BY <2>1, <2>7 DEF GrowOld, Expire
    <3> QED
      BY <2>4, <3>1 DEF Age
  <2>8. CASE Sweep
    BY <2>1, <2>8 DEF Sweep
  <2>9. CASE UNCHANGED vars
    BY <2>3, <2>9 DEF vars
  <2> QED
    BY <1>1, <2>3, <2>5, <2>6, <2>7, <2>8, <2>9 DEF Next
<1>2. IInv /\ [Next]_vars => [Stands]_vars
  BY <1>1
<1> QED
  BY <1>2, Invariance, PTL DEF Spec, AnswerStands
=============================================================================
