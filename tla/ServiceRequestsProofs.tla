------------------------ MODULE ServiceRequestsProofs ------------------------
(***************************************************************************)
(* Theorems about ServiceRequests, for any set of requests and handlers,   *)
(* any finite set of professionals and any cap.  CapRespected and its      *)
(* neighbours are not inductive: that the count taken in accept still      *)
(* bounds the acceptances when accept writes needs the row lock, and that  *)
(* nobody is introduced or announced twice needs the thread to remember an *)
(* acceptance that a decline has since overwritten.                        *)
(***************************************************************************)
EXTENDS ServiceRequests, FiniteSetTheorems, TLAPS

Answering == Locked \cup
  {"accept.lock", "accept.tell", "accept.filled", "decline.write"}

(* A professional's handler is about exactly one offer of its request.     *)
OneOffer ==
  \A c \in Calls : call[c].at \in Answering =>
    \E o \in Offers : call[c].offers = {o} /\ call[c].req = o[1]

(* Between the lock and the commit the handler owns the request's row.     *)
LockOwned ==
  \A c \in Calls : call[c].at \in Locked => lock[call[c].req] = c

(* What accept counted still bounds the acceptances when it writes.        *)
CountHolds ==
  \A c \in Calls : At(c, "accept.write") =>
    AcceptedCount(call[c].req) <= call[c].count /\ call[c].count < Cap

(* A thread carries one introduction, and an offer that nobody has         *)
(* answered, or that is being accepted past the re-read, has no thread.    *)
ThreadsAgree ==
  /\ \A o \in Offers : intros[o] = IF o \in threads THEN 1 ELSE 0
  /\ \A o \in Offers : offer[o] \in {"NONE", "PENDING"} => o \notin threads
  /\ \A c \in Calls : call[c].at \in {"accept.count", "accept.write"} =>
       call[c].offers \cap threads = {}
  /\ \A c \in Calls : At(c, "accept.write") => call[c].fresh

(* The member is told by the one handler that made the introduction.       *)
TellOnce ==
  /\ \A o \in Offers : told[o] <= intros[o]
  /\ \A c \in Calls : At(c, "accept.tell") =>
       \A o \in call[c].offers : o \in threads /\ told[o] = 0
  /\ \A c, d \in Calls : At(c, "accept.tell") /\ At(d, "accept.tell") /\ c # d =>
       call[c].offers \cap call[d].offers = {}

Inv ==
  /\ TypeOK
  /\ OneOffer
  /\ LockOwned
  /\ CountHolds
  /\ CapRespected
  /\ ThreadsAgree
  /\ TellOnce

-----------------------------------------------------------------------------
(* A handler at rest is a record.                                          *)
LEMMA IdleIsRecord == Idle \in CallRecord
  BY ConstantsAssumption DEF Idle, CallRecord, Step, Locked, RequestState, Outcome

(* The count of acceptances is a number.                                   *)
LEMMA CountIsNat == ASSUME NEW r \in Requests PROVE AcceptedCount(r) \in Nat
  <1>1. Accepted(r) \in SUBSET Pros
    BY DEF Accepted
  <1> QED
    BY <1>1, ConstantsAssumption, FS_Subset, FS_CardinalityType DEF AcceptedCount

(* One more element makes a finite set larger by one at most.              *)
LEMMA AddOne ==
  ASSUME NEW S, IsFiniteSet(S), NEW x
  PROVE  IsFiniteSet(S \cup {x}) /\ Cardinality(S \cup {x}) <= Cardinality(S) + 1
  <1>1. Cardinality(S) \in Nat
    BY FS_CardinalityType
  <1>2. /\ IsFiniteSet(S \cup {x})
        /\ Cardinality(S \cup {x}) = IF x \in S THEN Cardinality(S) ELSE Cardinality(S) + 1
    BY FS_AddElement
  <1> QED
    BY <1>1, <1>2

(* The steps the actions name are steps.                                   *)
LEMMA StepNames ==
  /\ Answering \subseteq Step
  /\ {"idle", "offer.check", "offer.recount", "offer.write", "offer.tell",
      "outcome.count", "outcome.write"} \subseteq Step
  BY DEF Answering, Step, Locked

(* What the ways a handler moves do to its record.                         *)
Records == [Calls -> CallRecord]

(* A handler that moves to its next step stays a record.                   *)
LEMMA ContinueType ==
  ASSUME call \in Records, NEW c \in Calls, NEW s \in Step, Continue(c, s)
  PROVE  /\ call' \in Records
         /\ call'[c].at = s
         /\ \A d \in Calls : call'[d].req = call[d].req
         /\ \A d \in Calls : call'[d].offers = call[d].offers
         /\ \A d \in Calls : call'[d].count = call[d].count
         /\ \A d \in Calls : call'[d].fresh = call[d].fresh
         /\ \A d \in Calls \ {c} : call'[d] = call[d]
  BY DEF Continue, CallRecord, Records

(* So does one that begins.                                                *)
LEMMA BeginType ==
  ASSUME call \in Records, NEW c \in Calls, NEW rec \in CallRecord, Begin(c, rec)
  PROVE  /\ call' \in Records
         /\ call'[c] = rec
         /\ \A d \in Calls \ {c} : call'[d] = call[d]
  BY DEF Begin, Records

(* What a professional's handler begins with is a record.                  *)
LEMMA ProRecord ==
  ASSUME NEW s \in Step, NEW o \in Offers
  PROVE  LET rec == [Idle EXCEPT !.at = s, !.req = o[1], !.offers = {o}]
         IN  rec \in CallRecord /\ rec.at = s /\ rec.req = o[1] /\ rec.offers = {o}
  BY IdleIsRecord DEF CallRecord, Offers

(* So is what staff's offer begins with.                                   *)
LEMMA AskRecord ==
  ASSUME NEW s \in Step, NEW r \in Requests, NEW offers \in SUBSET Offers,
         NEW saw \in RequestState
  PROVE  LET rec == [Idle EXCEPT !.at = s, !.req = r, !.offers = offers, !.saw = saw]
         IN  rec \in CallRecord /\ rec.at = s
  BY IdleIsRecord DEF CallRecord

(* So is what an outcome begins with.                                      *)
LEMMA OutcomeRecord ==
  ASSUME NEW s \in Step, NEW r \in Requests, NEW outcome \in Outcome
  PROVE  LET rec == [Idle EXCEPT !.at = s, !.req = r, !.outcome = outcome]
         IN  rec \in CallRecord /\ rec.at = s
  BY IdleIsRecord DEF CallRecord

(* A handler that ends is at rest.                                         *)
LEMMA EndType ==
  ASSUME call \in Records, NEW c \in Calls, End(c)
  PROVE  /\ call' \in Records
         /\ call'[c].at = "idle"
         /\ \A d \in Calls \ {c} : call'[d] = call[d]
  BY IdleIsRecord DEF End, Records, Idle

(* One handler's record is replaced.                                       *)
LEMMA CallReplaced ==
  ASSUME call \in Records, NEW c \in Calls, NEW now \in CallRecord, call' = [call EXCEPT ![c] = now]
  PROVE  call' \in Records /\ call'[c] = now /\ \A d \in Calls \ {c} : call'[d] = call[d]
  BY DEF Records

(* So is a handler that has counted.                                       *)
LEMMA CountedType ==
  ASSUME call \in Records, NEW c \in Calls, NEW n \in Nat, NEW f \in BOOLEAN,
         call' = [call EXCEPT ![c].at = "accept.write", ![c].count = n, ![c].fresh = f]
  PROVE  /\ call' \in Records
         /\ call'[c].at = "accept.write"
         /\ call'[c].count = n
         /\ call'[c].fresh = f
         /\ call'[c].req = call[c].req
         /\ call'[c].offers = call[c].offers
         /\ \A d \in Calls \ {c} : call'[d] = call[d]
  <1> DEFINE now == [call[c] EXCEPT !.at = "accept.write", !.count = n, !.fresh = f]
  <1>1. "accept.write" \in Step
    BY DEF Step, Locked
  <1>2. /\ now \in CallRecord
        /\ now.at = "accept.write" /\ now.count = n /\ now.fresh = f
        /\ now.req = call[c].req /\ now.offers = call[c].offers
    BY <1>1 DEF CallRecord, Records
  <1>3. call' = [call EXCEPT ![c] = now]
    OBVIOUS
  <1> HIDE DEF now
  <1>4. call' \in Records /\ call'[c] = now /\ \A d \in Calls \ {c} : call'[d] = call[d]
    BY <1>2, <1>3, CallReplaced
  <1> QED
    BY <1>2, <1>4

(* So is one that has read who had an offer.                               *)
LEMMA KnownType ==
  ASSUME call \in Records, NEW c \in Calls, NEW k \in SUBSET Offers,
         call' = [call EXCEPT ![c].at = "offer.recount", ![c].known = k]
  PROVE  /\ call' \in Records
         /\ call'[c].at = "offer.recount"
         /\ \A d \in Calls \ {c} : call'[d] = call[d]
  <1> DEFINE now == [call[c] EXCEPT !.at = "offer.recount", !.known = k]
  <1>1. "offer.recount" \in Step
    BY DEF Step, Locked
  <1>2. now \in CallRecord /\ now.at = "offer.recount"
    BY <1>1 DEF CallRecord, Records
  <1>3. call' = [call EXCEPT ![c] = now]
    OBVIOUS
  <1> HIDE DEF now
  <1>4. call' \in Records /\ call'[c] = now /\ \A d \in Calls \ {c} : call'[d] = call[d]
    BY <1>2, <1>3, CallReplaced
  <1> QED
    BY <1>2, <1>4

(* Revoking the pending offers of a request keeps the statuses.            *)
LEMMA RevokeType ==
  ASSUME NEW r \in Requests, NEW f \in [Offers -> OfferStatus \cup {"NONE"}]
  PROVE  RevokePending(r, f) \in [Offers -> OfferStatus \cup {"NONE"}]
  BY DEF RevokePending, OfferStatus

(* Type correctness: no handler leaves the database or another handler's   *)
(* local state in a shape the code does not know.                          *)
LEMMA TypeStep == TypeOK /\ [Next]_vars => TypeOK'
  <1> SUFFICES ASSUME TypeOK, [Next]_vars PROVE TypeOK'
    OBVIOUS
  <1>a. call \in Records
    BY DEF TypeOK, Records
  <1>1. ASSUME NEW r \in Requests, Create(r) PROVE TypeOK'
    BY <1>1 DEF TypeOK, Create, RequestState
  <1>2. ASSUME NEW r \in Requests, Cancel(r) PROVE TypeOK'
    BY <1>2, RevokeType DEF TypeOK, Cancel, RequestState
  <1>3. ASSUME NEW c \in Calls, NEW o \in Offers, AcceptRead(c, o) PROVE TypeOK'
    <2>1. call' \in Records
      BY <1>3, <1>a, BeginType, ProRecord, StepNames DEF AcceptRead, Answering, Locked
    <2> QED
      BY <1>3, <1>a, <2>1 DEF TypeOK, Records, AcceptRead
  <1>4. ASSUME NEW c \in Calls, NEW o \in Offers, DeclineRead(c, o) PROVE TypeOK'
    <2>1. call' \in Records
      BY <1>4, <1>a, BeginType, ProRecord, StepNames DEF DeclineRead, Answering, Locked
    <2> QED
      BY <1>4, <1>a, <2>1 DEF TypeOK, Records, DeclineRead
  <1>5. ASSUME NEW c \in Calls, NEW r \in Requests, NEW ps \in SUBSET Pros, OfferRead(c, r, {r} \X ps) PROVE TypeOK'
    <2>0. {r} \X ps \in SUBSET Offers /\ state[r] \in RequestState
      BY <1>5 DEF Offers, TypeOK, OfferRead, Exists, RequestState
    <2>1. call' \in Records
      BY <1>5, <1>a, <2>0, BeginType, AskRecord, StepNames DEF OfferRead, Answering, Locked
    <2> QED
      BY <1>5, <1>a, <2>1 DEF TypeOK, Records, OfferRead
  <1>6. ASSUME NEW c \in Calls, NEW r \in Requests, NEW outcome \in Outcome, OutcomeRead(c, r, outcome) PROVE TypeOK'
    <2>1. call' \in Records
      BY <1>6, <1>a, BeginType, OutcomeRecord, StepNames DEF OutcomeRead, Answering, Locked
    <2> QED
      BY <1>6, <1>a, <2>1 DEF TypeOK, Records, OutcomeRead
  <1>7. ASSUME NEW c \in Calls, AcceptLock(c) PROVE TypeOK'
    <2>1. call' \in Records
      BY <1>7, <1>a, ContinueType, StepNames DEF AcceptLock, Answering, Locked
    <2> QED
      BY <1>7, <1>a, <2>1 DEF TypeOK, Records, AcceptLock, CallRecord
  <1>8. ASSUME NEW c \in Calls, AcceptReread(c) PROVE TypeOK'
    <2>1. call' \in Records
      BY <1>8, <1>a, ContinueType, EndType, StepNames DEF AcceptReread, Answering, Locked
    <2> QED
      BY <1>8, <1>a, <2>1 DEF TypeOK, Records, AcceptReread, Release
  <1>9. ASSUME NEW c \in Calls, AcceptCount(c) PROVE TypeOK'
    <2>0. PICK o \in call[c].offers : o \in Offers /\ o[1] \in Requests /\ AcceptCount(c)!(o)
      BY <1>9, <1>a DEF AcceptCount, Records, CallRecord, Offers
    <2>1. call' \in Records
      BY <1>9, <1>a, <2>0, ContinueType, CountedType, CountIsNat, StepNames DEF Answering, Locked
    <2> QED
      BY <1>9, <1>a, <2>1, <2>0 DEF TypeOK, Records, AcceptCount, Release
  <1>10. ASSUME NEW c \in Calls, AcceptWrite(c) PROVE TypeOK'
    <2>1. call' \in Records
      BY <1>10, <1>a, ContinueType, StepNames DEF AcceptWrite, Answering, Locked
    <2>2. PICK o \in call[c].offers : o \in Offers /\ o[1] \in Requests /\ AcceptWrite(c)!(o)
      BY <1>10, <1>a DEF AcceptWrite, Records, CallRecord, Offers
    <2>3. [offer EXCEPT ![o] = "ACCEPTED"] \in [Offers -> OfferStatus \cup {"NONE"}]
      BY DEF TypeOK, OfferStatus
    <2>4. offer' \in [Offers -> OfferStatus \cup {"NONE"}]
      BY <2>2, <2>3, RevokeType
    <2>5. state' \in [Requests -> RequestState \cup {"ABSENT"}] /\ threads' \in SUBSET Offers
      BY <2>2 DEF TypeOK, RequestState
    <2>6. intros' \in [Offers -> Nat]
      BY <2>2 DEF TypeOK
    <2> QED
      BY <2>1, <2>2, <2>4, <2>5, <2>6 DEF TypeOK, Records, Release
  <1>11. ASSUME NEW c \in Calls, AcceptTell(c) PROVE TypeOK'
    <2>1. call' \in Records
      BY <1>11, <1>a, EndType, StepNames DEF AcceptTell, Answering, Locked
    <2>2. PICK o \in call[c].offers : o \in Offers /\ AcceptTell(c)!(o)
      BY <1>11, <1>a DEF AcceptTell, Records, CallRecord
    <2> QED
      BY <2>1, <2>2 DEF TypeOK, Records
  <1>12. ASSUME NEW c \in Calls, AcceptFilled(c) PROVE TypeOK'
    <2>1. call' \in Records
      BY <1>12, <1>a, EndType, StepNames DEF AcceptFilled, Answering, Locked
    <2> QED
      BY <1>12, <1>a, <2>1 DEF TypeOK, Records, AcceptFilled
  <1>13. ASSUME NEW c \in Calls, DeclineWrite(c) PROVE TypeOK'
    <2>1. call' \in Records
      BY <1>13, <1>a, EndType, StepNames DEF DeclineWrite, Answering, Locked
    <2> QED
      BY <1>13, <1>a, <2>1 DEF TypeOK, Records, DeclineWrite, OfferStatus
  <1>14. ASSUME NEW c \in Calls, OfferCheck(c) PROVE TypeOK'
    <2>0. AlreadyOffered(call[c].offers) \in SUBSET Offers
      BY <1>a DEF AlreadyOffered, Records, CallRecord
    <2>1. call' \in Records
      BY <1>14, <1>a, <2>0, KnownType, EndType, StepNames DEF OfferCheck, Answering, Locked
    <2> QED
      BY <1>14, <1>a, <2>1 DEF TypeOK, Records, OfferCheck
  <1>15. ASSUME NEW c \in Calls, OfferRecount(c) PROVE TypeOK'
    <2>1. call' \in Records
      BY <1>15, <1>a, ContinueType, EndType, StepNames DEF OfferRecount, Answering, Locked
    <2> QED
      BY <1>15, <1>a, <2>1 DEF TypeOK, Records, OfferRecount
  <1>16. ASSUME NEW c \in Calls, OfferWrite(c) PROVE TypeOK'
    <2>1. call' \in Records
      BY <1>16, <1>a, ContinueType, StepNames DEF OfferWrite, Answering, Locked
    <2> QED
      BY <1>16, <1>a, <2>1 DEF TypeOK, Records, OfferWrite, CallRecord, OfferStatus, RequestState
  <1>17. ASSUME NEW c \in Calls, OfferTell(c) PROVE TypeOK'
    <2>1. call' \in Records
      BY <1>17, <1>a, EndType, StepNames DEF OfferTell, Answering, Locked
    <2> QED
      BY <1>17, <1>a, <2>1 DEF TypeOK, Records, OfferTell
  <1>18. ASSUME NEW c \in Calls, OutcomeCount(c) PROVE TypeOK'
    <2>1. call' \in Records
      BY <1>18, <1>a, ContinueType, EndType, StepNames DEF OutcomeCount, Answering, Locked
    <2> QED
      BY <1>18, <1>a, <2>1 DEF TypeOK, Records, OutcomeCount
  <1>19. ASSUME NEW c \in Calls, OutcomeWrite(c) PROVE TypeOK'
    <2>1. call' \in Records
      BY <1>19, <1>a, EndType, StepNames DEF OutcomeWrite, Answering, Locked
    <2>2. call[c].req \in Requests
      BY <1>a DEF Records, CallRecord
    <2>3. RevokePending(call[c].req, offer) \in [Offers -> OfferStatus \cup {"NONE"}]
      BY <2>2, RevokeType DEF TypeOK
    <2> QED
      BY <1>19, <2>1, <2>2, <2>3 DEF TypeOK, Records, OutcomeWrite, RequestState
  <1>20. ASSUME NEW c \in Calls, Fail(c) PROVE TypeOK'
    <2>1. call' \in Records
      BY <1>20, <1>a, EndType, StepNames DEF Fail, Answering, Locked
    <2> QED
      BY <1>20, <1>a, <2>1 DEF TypeOK, Records, Fail, Release
  <1>21. ASSUME RunExpiry PROVE TypeOK'
    BY <1>21 DEF TypeOK, RunExpiry, OfferStatus
  <1>22. ASSUME NEW o \in Offers, Lapse(o) PROVE TypeOK'
    BY <1>22 DEF TypeOK, Lapse
  <1>23. ASSUME NEW o \in Offers, WithdrawOffer(o) PROVE TypeOK'
    BY <1>23 DEF TypeOK, WithdrawOffer, OfferStatus
  <1>24. CASE UNCHANGED vars
    BY <1>24 DEF TypeOK, vars
  <1> QED
    BY <1>1, <1>2, <1>3, <1>4, <1>5, <1>6, <1>7, <1>8, <1>9, <1>10, <1>11, <1>12, <1>13, <1>14, <1>15, <1>16, <1>17, <1>18, <1>19, <1>20, <1>21, <1>22, <1>23, <1>24
       DEF Next, Member, Sweep, Arrive, Answer, Staff

-----------------------------------------------------------------------------
(* A step that neither locks, introduces nor announces: the handlers in D  *)
(* move, to a statement outside accept's transaction, and may give up a    *)
(* row lock; no offer becomes accepted, none becomes unanswered again.     *)
Unanswered(o) == offer[o] \in {"NONE", "PENDING"}

Quiet(D) ==
  /\ \A d \in Calls \ D : call'[d] = call[d]
  /\ \A d \in D : call'[d].at \notin Locked \cup {"accept.tell"}
  /\ \A d \in D : call'[d].at \in Answering =>
       \E o \in Offers : call'[d].offers = {o} /\ call'[d].req = o[1]
  /\ \A r \in Requests : lock'[r] = lock[r] \/ lock[r] \in D
  /\ \A o \in Offers : offer'[o] = "ACCEPTED" => offer[o] = "ACCEPTED"
  /\ \A o \in Offers : Unanswered(o)' => Unanswered(o)
  /\ UNCHANGED <<threads, intros, told>>

(* A step that accepts nothing does not raise the count.                   *)
LEMMA CountMonotone ==
  ASSUME NEW r \in Requests,
         \A p \in Pros : offer'[<<r, p>>] = "ACCEPTED" => offer[<<r, p>>] = "ACCEPTED"
  PROVE  AcceptedCount(r)' \in Nat /\ AcceptedCount(r)' <= AcceptedCount(r)
  <1>1. Accepted(r)' \subseteq Accepted(r) /\ Accepted(r) \subseteq Pros
    BY DEF Accepted
  <1>2. IsFiniteSet(Accepted(r))
    BY <1>1, ConstantsAssumption, FS_Subset
  <1> QED
    BY <1>1, <1>2, FS_Subset, FS_CardinalityType DEF AcceptedCount

(* A quiet step keeps the invariant.                                       *)
LEMMA QuietInv ==
  ASSUME Inv, TypeOK', NEW D \in SUBSET Calls, Quiet(D)
  PROVE  Inv'
  <1>1. \A r \in Requests : AcceptedCount(r)' \in Nat /\ AcceptedCount(r)' <= AcceptedCount(r)
    BY CountMonotone DEF Quiet, Offers
  <1>2. \A d \in Calls : call'[d].at \in Locked \cup {"accept.tell"} => call'[d] = call[d]
    BY DEF Quiet
  <1>3. \A d \in Calls : call[d].req \in Requests /\ call[d].count \in Nat
    BY DEF Inv, TypeOK, CallRecord
  <1>4. OneOffer'
    BY DEF Inv, OneOffer, Quiet
  <1>5. LockOwned'
    BY <1>2, <1>3 DEF Inv, LockOwned, Quiet, Locked
  <1>6. CountHolds'
    BY <1>1, <1>2, <1>3, CountIsNat, ConstantsAssumption
       DEF Inv, CountHolds, At, Locked
  <1>7. CapRespected'
    BY <1>1, CountIsNat, ConstantsAssumption DEF Inv, CapRespected
  <1>8. ThreadsAgree'
    BY <1>2 DEF Inv, ThreadsAgree, Quiet, Unanswered, At, Locked
  <1>9. TellOnce'
    BY <1>2 DEF Inv, TellOnce, Quiet, At
  <1> QED
    BY <1>4, <1>5, <1>6, <1>7, <1>8, <1>9 DEF Inv

(* The steps that no handler takes, and those that begin one.              *)
LEMMA QuietSweep ==
  ASSUME TypeOK, Member \/ Sweep PROVE Quiet({})
  <1>1. ASSUME NEW r \in Requests, Create(r) PROVE Quiet({})
    BY <1>1 DEF Create, Quiet, Unanswered
  <1>2. ASSUME NEW r \in Requests, Cancel(r) PROVE Quiet({})
    BY <1>2 DEF Cancel, RevokePending, Quiet, Unanswered, TypeOK
  <1>3. CASE RunExpiry
    BY <1>3 DEF RunExpiry, Overdue, Quiet, Unanswered, TypeOK
  <1>4. ASSUME NEW o \in Offers, Lapse(o) PROVE Quiet({})
    BY <1>4 DEF Lapse, Quiet, Unanswered
  <1>5. ASSUME NEW o \in Offers, WithdrawOffer(o) PROVE Quiet({})
    BY <1>5 DEF WithdrawOffer, Quiet, Unanswered, TypeOK
  <1> QED
    BY <1>1, <1>2, <1>3, <1>4, <1>5 DEF Member, Sweep

(* A handler that arrives is quiet.                                        *)
LEMMA QuietArrive ==
  ASSUME TypeOK, NEW c \in Calls, Arrive(c) PROVE Quiet({c})
  <1>a. call \in Records
    BY DEF TypeOK, Records
  <1>b. {"accept.lock", "decline.write"} \subseteq Step \ (Locked \cup {"accept.tell"})
    BY DEF Step, Locked
  <1>c. {"offer.check", "outcome.count"} \subseteq Step \ (Answering \cup Locked)
    BY DEF Step, Locked, Answering
  <1>d. "accept.tell" \in Answering
    BY DEF Answering
  <1>1. ASSUME NEW o \in Offers, AcceptRead(c, o) PROVE Quiet({c})
    <2> DEFINE rec == [Idle EXCEPT !.at = "accept.lock", !.req = o[1], !.offers = {o}]
    <2>1. rec \in CallRecord /\ rec.at = "accept.lock" /\ rec.req = o[1] /\ rec.offers = {o}
      BY <1>b, ProRecord
    <2>2. call'[c] = rec /\ \A d \in Calls \ {c} : call'[d] = call[d]
      BY <1>1, <1>a, <2>1, BeginType DEF AcceptRead
    <2> HIDE DEF rec
    <2> QED
      BY <1>1, <1>b, <2>1, <2>2 DEF AcceptRead, Quiet, Unanswered
  <1>2. ASSUME NEW o \in Offers, DeclineRead(c, o) PROVE Quiet({c})
    <2> DEFINE rec == [Idle EXCEPT !.at = "decline.write", !.req = o[1], !.offers = {o}]
    <2>1. rec \in CallRecord /\ rec.at = "decline.write" /\ rec.req = o[1] /\ rec.offers = {o}
      BY <1>b, ProRecord
    <2>2. call'[c] = rec /\ \A d \in Calls \ {c} : call'[d] = call[d]
      BY <1>2, <1>a, <2>1, BeginType DEF DeclineRead
    <2> HIDE DEF rec
    <2> QED
      BY <1>2, <1>b, <2>1, <2>2 DEF DeclineRead, Quiet, Unanswered
  <1>3. ASSUME NEW r \in Requests, NEW ps \in SUBSET Pros, OfferRead(c, r, {r} \X ps)
        PROVE  Quiet({c})
    <2>0. {r} \X ps \in SUBSET Offers /\ state[r] \in RequestState
      BY <1>3 DEF Offers, TypeOK, OfferRead, Exists, RequestState
    <2>1. PICK os \in SUBSET Offers, st \in RequestState : os = {r} \X ps /\ st = state[r]
      BY <2>0
    <2> DEFINE rec == [Idle EXCEPT !.at = "offer.check", !.req = r, !.offers = os, !.saw = st]
    <2>2. rec \in CallRecord /\ rec.at = "offer.check"
      BY <1>c, AskRecord
    <2>3. call'[c] = rec /\ \A d \in Calls \ {c} : call'[d] = call[d]
      BY <1>3, <1>a, <2>1, <2>2, BeginType DEF OfferRead
    <2> HIDE DEF rec
    <2> QED
      BY <1>3, <1>c, <1>d, <2>2, <2>3 DEF OfferRead, Quiet, Unanswered
  <1>4. ASSUME NEW r \in Requests, NEW outcome \in Outcome, OutcomeRead(c, r, outcome)
        PROVE  Quiet({c})
    <2> DEFINE rec == [Idle EXCEPT !.at = "outcome.count", !.req = r, !.outcome = outcome]
    <2>1. rec \in CallRecord /\ rec.at = "outcome.count"
      BY <1>c, OutcomeRecord
    <2>2. call'[c] = rec /\ \A d \in Calls \ {c} : call'[d] = call[d]
      BY <1>4, <1>a, <2>1, BeginType DEF OutcomeRead
    <2> HIDE DEF rec
    <2> QED
      BY <1>4, <1>c, <1>d, <2>1, <2>2 DEF OutcomeRead, Quiet, Unanswered
  <1> QED
    BY <1>1, <1>2, <1>3, <1>4 DEF Arrive

(* The staff's handlers, the ends of the professional's, and failure.      *)
LEMMA QuietMove ==
  ASSUME TypeOK, OneOffer, NEW c \in Calls,
         \/ Staff(c) \/ Fail(c) \/ AcceptFilled(c) \/ DeclineWrite(c)
  PROVE  Quiet({c})
  <1>a. call \in Records
    BY DEF TypeOK, Records
  <1>b. {"idle", "offer.check", "offer.recount", "offer.write", "offer.tell",
         "outcome.count", "outcome.write"} \subseteq Step \ (Answering \cup Locked)
    BY DEF Step, Locked, Answering
  <1>c. "accept.tell" \in Answering
    BY DEF Answering
  <1>1. CASE OfferCheck(c)
    <2>1. /\ call'[c].at \in Step \ (Answering \cup Locked)
          /\ \A d \in Calls \ {c} : call'[d] = call[d]
      BY <1>1, <1>a, <1>b, EndType, KnownType DEF OfferCheck, AlreadyOffered, Records, CallRecord
    <2> QED
      BY <1>1, <1>c, <2>1 DEF OfferCheck, Quiet, Unanswered, TypeOK
  <1>2. CASE OfferRecount(c)
    <2>1. /\ call'[c].at \in Step \ (Answering \cup Locked)
          /\ \A d \in Calls \ {c} : call'[d] = call[d]
      BY <1>2, <1>a, <1>b, EndType, ContinueType DEF OfferRecount
    <2> QED
      BY <1>2, <1>c, <2>1 DEF OfferRecount, Quiet, Unanswered, TypeOK
  <1>3. CASE OfferWrite(c)
    <2>1. /\ call'[c].at \in Step \ (Answering \cup Locked)
          /\ \A d \in Calls \ {c} : call'[d] = call[d]
      BY <1>3, <1>a, <1>b, ContinueType DEF OfferWrite
    <2>2. \A o \in Offers : /\ offer'[o] = "ACCEPTED" => offer[o] = "ACCEPTED"
                           /\ Unanswered(o)' => Unanswered(o)
      BY <1>3 DEF OfferWrite, Unanswered, TypeOK
    <2> QED
      BY <1>3, <1>c, <2>1, <2>2 DEF OfferWrite, Quiet
  <1>4. CASE OfferTell(c)
    <2>1. /\ call'[c].at \in Step \ (Answering \cup Locked)
          /\ \A d \in Calls \ {c} : call'[d] = call[d]
      BY <1>4, <1>a, <1>b, EndType DEF OfferTell
    <2> QED
      BY <1>4, <1>c, <2>1 DEF OfferTell, Quiet, Unanswered, TypeOK
  <1>5. CASE OutcomeCount(c)
    <2>1. /\ call'[c].at \in Step \ (Answering \cup Locked)
          /\ \A d \in Calls \ {c} : call'[d] = call[d]
      BY <1>5, <1>a, <1>b, EndType, ContinueType DEF OutcomeCount
    <2> QED
      BY <1>5, <1>c, <2>1 DEF OutcomeCount, Quiet, Unanswered, TypeOK
  <1>6. CASE OutcomeWrite(c)
    <2>1. /\ call'[c].at \in Step \ (Answering \cup Locked)
          /\ \A d \in Calls \ {c} : call'[d] = call[d]
      BY <1>6, <1>a, <1>b, EndType DEF OutcomeWrite
    <2> QED
      BY <1>6, <1>c, <2>1 DEF OutcomeWrite, Quiet, Unanswered, TypeOK, RevokePending
  <1>7. CASE Fail(c)
    <2>1. /\ call'[c].at \in Step \ (Answering \cup Locked)
          /\ \A d \in Calls \ {c} : call'[d] = call[d]
      BY <1>7, <1>a, <1>b, EndType DEF Fail
    <2> QED
      BY <1>7, <1>c, <2>1 DEF Fail, Quiet, Unanswered, TypeOK, Release
  <1>8. CASE AcceptFilled(c)
    <2>1. /\ call'[c].at \in Step \ (Answering \cup Locked)
          /\ \A d \in Calls \ {c} : call'[d] = call[d]
      BY <1>8, <1>a, <1>b, EndType DEF AcceptFilled
    <2> QED
      BY <1>8, <1>c, <2>1 DEF AcceptFilled, Quiet, Unanswered, TypeOK
  <1>9. CASE DeclineWrite(c)
    <2>1. /\ call'[c].at \in Step \ (Answering \cup Locked)
          /\ \A d \in Calls \ {c} : call'[d] = call[d]
      BY <1>9, <1>a, <1>b, EndType DEF DeclineWrite
    <2> QED
      BY <1>9, <1>c, <2>1 DEF DeclineWrite, Quiet, Unanswered, TypeOK
  <1> QED
    BY <1>1, <1>2, <1>3, <1>4, <1>5, <1>6, <1>7, <1>8, <1>9 DEF Staff

-----------------------------------------------------------------------------
(* Inside accept.                                                          *)
LEMMA LockInv ==
  ASSUME Inv, TypeOK', NEW c \in Calls, AcceptLock(c) PROVE Inv'
  <1> DEFINE r == call[c].req
  <1>1. call \in Records /\ "accept.reread" \in Step /\ r \in Requests
    BY DEF Inv, TypeOK, Records, Step, Locked, CallRecord
  <1>2. /\ call'[c].at = "accept.reread"
        /\ \A d \in Calls : call'[d].req = call[d].req /\ call'[d].offers = call[d].offers
        /\ \A d \in Calls \ {c} : call'[d] = call[d]
    BY <1>1, ContinueType DEF AcceptLock
  <1>3. /\ lock[r] = NoCall /\ lock' = [lock EXCEPT ![r] = c]
        /\ UNCHANGED <<offer, threads, intros, told>>
        /\ call[c].at \in Answering
    BY DEF AcceptLock, RowFree, At, Answering
  <1>4. OneOffer'
    BY <1>2, <1>3 DEF Inv, OneOffer
  <1>5. LockOwned'
    BY <1>1, <1>2, <1>3, ConstantsAssumption DEF Inv, LockOwned, TypeOK, Locked, CallRecord
  <1>6. \A q \in Requests : AcceptedCount(q)' = AcceptedCount(q)
    BY <1>3 DEF AcceptedCount, Accepted
  <1>7. CountHolds' /\ CapRespected'
    BY <1>1, <1>2, <1>6 DEF Inv, CountHolds, CapRespected, At, Records, CallRecord
  <1>8. ThreadsAgree' /\ TellOnce'
    BY <1>2, <1>3 DEF Inv, ThreadsAgree, TellOnce, At
  <1> QED
    BY <1>4, <1>5, <1>7, <1>8 DEF Inv

(* Two handlers inside accept on one request are the same handler.         *)
LEMMA OneInside ==
  ASSUME Inv, NEW c \in Calls, NEW d \in Calls,
         call[c].at \in Locked, call[d].at \in Locked, call[c].req = call[d].req
  PROVE  c = d
  BY DEF Inv, LockOwned

(* The reread under the lock keeps the invariant.                          *)
LEMMA RereadInv ==
  ASSUME Inv, TypeOK', NEW c \in Calls, AcceptReread(c) PROVE Inv'
  <1>1. PICK o \in call[c].offers : AcceptReread(c)!(o)
    BY DEF AcceptReread
  <1>2. call \in Records /\ "accept.count" \in Step /\ call[c].at \in Answering \cap Locked
    BY <1>1 DEF Inv, TypeOK, Records, Step, Locked, Answering, At
  <1>3. o \in Offers /\ call[c].offers = {o} /\ call[c].req = o[1]
    BY <1>1, <1>2 DEF Inv, OneOffer
  <1>4. CASE End(c) /\ Release(c)
    <2>1. call'[c].at = "idle" /\ \A d \in Calls \ {c} : call'[d] = call[d]
      BY <1>2, <1>4, EndType
    <2>2. "idle" \notin Locked \cup Answering \cup {"accept.tell"}
      BY DEF Locked, Answering
    <2>3. Quiet({c})
      BY <1>1, <1>4, <2>1, <2>2 DEF Quiet, Release, Unanswered
    <2> QED
      BY <2>3, QuietInv
  <1>5. CASE StillAcceptable(c, o) /\ Continue(c, "accept.count") /\ UNCHANGED lock
    <2>1. /\ call'[c].at = "accept.count"
          /\ \A d \in Calls : call'[d].req = call[d].req /\ call'[d].offers = call[d].offers
          /\ \A d \in Calls \ {c} : call'[d] = call[d]
      BY <1>2, <1>5, ContinueType
    <2>2. o \notin threads
      BY <1>3, <1>5 DEF StillAcceptable, Inv, ThreadsAgree
    <2>3. UNCHANGED <<offer, lock, threads, intros, told>>
      BY <1>1, <1>5
    <2>4. \A q \in Requests : AcceptedCount(q)' = AcceptedCount(q)
      BY <2>3 DEF AcceptedCount, Accepted
    <2>5. OneOffer' /\ LockOwned'
      BY <1>2, <2>1, <2>3 DEF Inv, OneOffer, LockOwned
    <2>6. CountHolds' /\ CapRespected'
      BY <1>2, <2>1, <2>4 DEF Inv, CountHolds, CapRespected, At, Records, CallRecord
    <2>7. ThreadsAgree' /\ TellOnce'
      BY <1>3, <2>1, <2>2, <2>3 DEF Inv, ThreadsAgree, TellOnce, At
    <2> QED
      BY <2>5, <2>6, <2>7 DEF Inv
  <1> QED
    BY <1>1, <1>4, <1>5

(* The count under the lock keeps the invariant.                           *)
LEMMA CountInv ==
  ASSUME Inv, TypeOK', NEW c \in Calls, AcceptCount(c) PROVE Inv'
  <1>1. PICK o \in call[c].offers : AcceptCount(c)!(o)
    BY DEF AcceptCount
  <1>2. call \in Records /\ "accept.filled" \in Step /\ call[c].at \in Answering \cap Locked
    BY <1>1 DEF Inv, TypeOK, Records, Step, Locked, Answering, At
  <1>3. o \in Offers /\ call[c].offers = {o} /\ call[c].req = o[1] /\ o[1] \in Requests
    BY <1>1, <1>2 DEF Inv, OneOffer, Offers
  <1>4. o \notin threads
    BY <1>1, <1>3 DEF Inv, ThreadsAgree, At
  <1>5. UNCHANGED <<offer, threads, intros, told>>
    BY <1>1
  <1>6. CASE Continue(c, "accept.filled") /\ Release(c)
    <2>1. /\ call'[c].at = "accept.filled"
          /\ \A d \in Calls : call'[d].req = call[d].req /\ call'[d].offers = call[d].offers
          /\ \A d \in Calls \ {c} : call'[d] = call[d]
      BY <1>2, <1>6, ContinueType
    <2>2. "accept.filled" \notin Locked \cup {"accept.tell"}
      BY DEF Locked
    <2>3. Quiet({c})
      BY <1>3, <1>5, <1>6, <2>1, <2>2 DEF Quiet, Release, Unanswered
    <2> QED
      BY <2>3, QuietInv
  <1>7. CASE /\ ~Full(o[1])
             /\ call' = [call EXCEPT ![c].at = "accept.write", ![c].count = AcceptedCount(o[1]),
                                     ![c].fresh = o \notin threads]
             /\ UNCHANGED lock
    <2>1. AcceptedCount(o[1]) \in Nat /\ AcceptedCount(o[1]) < Cap
      BY <1>3, <1>7, CountIsNat, ConstantsAssumption DEF Full
    <2>2. /\ call'[c].at = "accept.write" /\ call'[c].count = AcceptedCount(o[1])
          /\ call'[c].fresh /\ call'[c].req = call[c].req /\ call'[c].offers = call[c].offers
          /\ \A d \in Calls \ {c} : call'[d] = call[d]
      BY <1>2, <1>4, <1>7, <2>1, CountedType
    <2>3. \A q \in Requests : AcceptedCount(q)' = AcceptedCount(q) /\ AcceptedCount(q) \in Nat
      BY <1>5, CountIsNat DEF AcceptedCount, Accepted
    <2>4. UNCHANGED lock
      BY <1>7
    <2>7. OneOffer'
      BY <1>2, <2>2 DEF Inv, OneOffer
    <2>8. LockOwned'
      BY <1>2, <2>2, <2>4 DEF Inv, LockOwned
    <2>5. CountHolds' /\ CapRespected'
      BY <1>2, <1>3, <2>1, <2>2, <2>3 DEF Inv, CountHolds, CapRespected, At, Records, CallRecord
    <2>6. ThreadsAgree' /\ TellOnce'
      BY <1>3, <1>4, <1>5, <2>2 DEF Inv, ThreadsAgree, TellOnce, At
    <2> QED
      BY <2>5, <2>6, <2>7, <2>8 DEF Inv
  <1> QED
    BY <1>1, <1>6, <1>7

(* What accept's commit does, with the offer it is about.                  *)
LEMMA WriteEffect ==
  ASSUME Inv, NEW c \in Calls, AcceptWrite(c)
  PROVE  \E o \in Offers :
           /\ call[c].offers = {o} /\ call[c].req = o[1] /\ o[1] \in Requests
           /\ o \notin threads /\ intros[o] = 0
           /\ threads' = threads \cup {o}
           /\ intros' = [intros EXCEPT ![o] = 1]
           /\ told' = told
           /\ offer'[o] = "ACCEPTED"
           /\ \A q \in Offers \ {o} : offer'[q] = "ACCEPTED" <=> offer[q] = "ACCEPTED"
           /\ \A q \in Offers \ {o} : Unanswered(q)' => Unanswered(q)
           /\ AcceptedCount(o[1]) < Cap
           /\ call'[c].at = "accept.tell"
           /\ call'[c].offers = {o} /\ call'[c].req = o[1]
           /\ \A d \in Calls \ {c} : call'[d] = call[d]
           /\ \A r \in Requests : lock'[r] = lock[r] \/ lock[r] = c
  <1>1. PICK o \in call[c].offers : AcceptWrite(c)!(o)
    BY DEF AcceptWrite
  <1>2. call \in Records /\ "accept.tell" \in Step /\ call[c].at \in Answering \cap Locked
    BY <1>1 DEF Inv, TypeOK, Records, Step, Locked, Answering, At
  <1>3. o \in Offers /\ call[c].offers = {o} /\ call[c].req = o[1] /\ o[1] \in Requests
    BY <1>1, <1>2 DEF Inv, OneOffer, Offers
  <1>4. o \notin threads /\ intros[o] = 0 /\ call[c].fresh
    BY <1>1, <1>3 DEF Inv, ThreadsAgree, At
  <1>5. call[c].count \in Nat /\ AcceptedCount(o[1]) \in Nat
    BY <1>2, <1>3, CountIsNat DEF Records, CallRecord
  <1>6. AcceptedCount(o[1]) < Cap
    BY <1>1, <1>3, <1>5, ConstantsAssumption DEF Inv, CountHolds
  <1>7. /\ call'[c].at = "accept.tell"
        /\ \A d \in Calls : call'[d].req = call[d].req /\ call'[d].offers = call[d].offers
        /\ \A d \in Calls \ {c} : call'[d] = call[d]
    BY <1>1, <1>2, ContinueType
  <1>8. /\ threads' = threads \cup {o}
        /\ intros' = [intros EXCEPT ![o] = 1]
        /\ told' = told
    BY <1>1, <1>4 DEF Inv, TypeOK
  <1>9. \A r \in Requests : lock'[r] = lock[r] \/ lock[r] = c
    BY <1>1 DEF Release
  <1>10. /\ offer'[o] = "ACCEPTED"
         /\ \A q \in Offers \ {o} : offer'[q] = "ACCEPTED" <=> offer[q] = "ACCEPTED"
         /\ \A q \in Offers \ {o} : Unanswered(q)' => Unanswered(q)
    <2> DEFINE taken == [offer EXCEPT ![o] = "ACCEPTED"]
    <2>1. offer' = RevokePending(o[1], taken) \/ offer' = taken
      BY <1>1
    <2>2. CASE offer' = taken
      BY <1>3, <2>2 DEF Unanswered, Inv, TypeOK
    <2>3. CASE offer' = RevokePending(o[1], taken)
      BY <1>3, <2>3 DEF RevokePending, Unanswered, Inv, TypeOK
    <2> QED
      BY <2>1, <2>2, <2>3
  <1> QED
    BY <1>3, <1>4, <1>6, <1>7, <1>8, <1>9, <1>10

(* The acceptance, introduction included, keeps the invariant.             *)
LEMMA WriteInv ==
  ASSUME Inv, TypeOK', NEW c \in Calls, AcceptWrite(c) PROVE Inv'
  <1>1. PICK o \in Offers : 
           /\ call[c].offers = {o} /\ call[c].req = o[1] /\ o[1] \in Requests
           /\ o \notin threads /\ intros[o] = 0
           /\ threads' = threads \cup {o}
           /\ intros' = [intros EXCEPT ![o] = 1]
           /\ told' = told
           /\ offer'[o] = "ACCEPTED"
           /\ \A q \in Offers \ {o} : offer'[q] = "ACCEPTED" <=> offer[q] = "ACCEPTED"
           /\ \A q \in Offers \ {o} : Unanswered(q)' => Unanswered(q)
           /\ AcceptedCount(o[1]) < Cap
           /\ call'[c].at = "accept.tell"
           /\ call'[c].offers = {o} /\ call'[c].req = o[1]
           /\ \A d \in Calls \ {c} : call'[d] = call[d]
           /\ \A r \in Requests : lock'[r] = lock[r] \/ lock[r] = c
    BY WriteEffect
  <1>2. At(c, "accept.write") /\ call[c].at \in Locked /\ "accept.tell" \notin Locked
    BY DEF AcceptWrite, At, Locked
  <1>3. \A d \in Calls : call[d].req \in Requests /\ call[d].count \in Nat
    BY DEF Inv, TypeOK, CallRecord
  <1>4. \A d \in Calls \ {c} : call[d].at \in Locked => call[d].req # o[1]
    BY <1>1, <1>2, OneInside
  <1>5. \A r \in Requests \ {o[1]} : AcceptedCount(r)' \in Nat /\ AcceptedCount(r)' <= AcceptedCount(r)
    BY <1>1, CountMonotone DEF Offers
  <1>6. AcceptedCount(o[1])' <= Cap
    <2>1. Accepted(o[1])' \subseteq Accepted(o[1]) \cup {o[2]} /\ Accepted(o[1]) \subseteq Pros
      BY <1>1 DEF Accepted, Offers
    <2>2. IsFiniteSet(Accepted(o[1]))
      BY <2>1, ConstantsAssumption, FS_Subset
    <2>3. /\ IsFiniteSet(Accepted(o[1]) \cup {o[2]})
          /\ Cardinality(Accepted(o[1]) \cup {o[2]}) <= Cardinality(Accepted(o[1])) + 1
      BY <2>2, AddOne
    <2>4. Cardinality(Accepted(o[1])') <= Cardinality(Accepted(o[1]) \cup {o[2]})
      BY <2>1, <2>3, FS_Subset
    <2>5. /\ Cardinality(Accepted(o[1])') \in Nat /\ Cardinality(Accepted(o[1])) \in Nat
          /\ Cardinality(Accepted(o[1]) \cup {o[2]}) \in Nat
      BY <2>1, <2>2, <2>3, FS_Subset, FS_CardinalityType
    <2> QED
      BY <1>1, <2>3, <2>4, <2>5, ConstantsAssumption DEF AcceptedCount
  <1>7. OneOffer'
    BY <1>1 DEF Inv, OneOffer
  <1>8. LockOwned'
    BY <1>1, <1>2, <1>3 DEF Inv, LockOwned
  <1>9. CountHolds'
    <2> SUFFICES ASSUME NEW d \in Calls, At(d, "accept.write")'
                 PROVE  (AcceptedCount(call[d].req) <= call[d].count /\ call[d].count < Cap)'
      BY DEF CountHolds
    <2>1. d # c /\ call'[d] = call[d] /\ call[d].at = "accept.write"
      BY <1>1 DEF At
    <2>2. call[d].req \in Requests \ {o[1]}
      BY <1>3, <1>4, <2>1 DEF Locked
    <2>3. AcceptedCount(call[d].req) <= call[d].count /\ call[d].count < Cap
      BY <2>1 DEF Inv, CountHolds, At
    <2>4. AcceptedCount(call[d].req)' <= AcceptedCount(call[d].req)
      BY <1>5, <2>1, <2>2
    <2>5. AcceptedCount(call[d].req)' \in Nat /\ AcceptedCount(call[d].req) \in Nat
      BY <1>5, <2>1, <2>2, CountIsNat
    <2> QED
      BY <1>3, <2>1, <2>3, <2>4, <2>5
  <1>10. CapRespected'
    BY <1>5, <1>6, CountIsNat, ConstantsAssumption DEF Inv, CapRespected
  <1>11. ThreadsAgree'
    <2>1. (\A q \in Offers : intros[q] = IF q \in threads THEN 1 ELSE 0)'
      BY <1>1 DEF Inv, ThreadsAgree, TypeOK
    <2>2. (\A q \in Offers : offer[q] \in {"NONE", "PENDING"} => q \notin threads)'
      BY <1>1 DEF Inv, ThreadsAgree, Unanswered
    <2>3. ASSUME NEW d \in Calls, call'[d].at \in {"accept.count", "accept.write"}
          PROVE  call'[d].offers \cap threads' = {} /\ (At(d, "accept.write") => call[d].fresh)'
      <3>1. d # c /\ call'[d] = call[d]
        BY <1>1, <2>3
      <3>2. o \notin call[d].offers
        BY <1>4, <2>3, <3>1 DEF Inv, OneOffer, Answering, Locked
      <3> QED
        BY <1>1, <2>3, <3>1, <3>2 DEF Inv, ThreadsAgree, At
    <2> QED
      BY <2>1, <2>2, <2>3 DEF ThreadsAgree, At
  <1>12. TellOnce'
    <2>1. (\A q \in Offers : told[q] <= intros[q])'
      BY <1>1 DEF Inv, TellOnce, TypeOK
    <2>2. told[o] = 0
      BY <1>1 DEF Inv, TellOnce, TypeOK
    <2>3. ASSUME NEW d \in Calls, At(d, "accept.tell"), d # c
          PROVE  o \notin call[d].offers
      BY <1>1, <2>3 DEF Inv, TellOnce
    <2>4. ASSUME NEW d \in Calls, At(d, "accept.tell")'
          PROVE  (\A q \in call[d].offers : q \in threads /\ told[q] = 0)'
      BY <1>1, <2>2, <2>4 DEF Inv, TellOnce, At
    <2>5. ASSUME NEW d \in Calls, NEW e \in Calls, d # e,
                 At(d, "accept.tell")', At(e, "accept.tell")'
          PROVE  (call[d].offers \cap call[e].offers = {})'
      BY <1>1, <2>3, <2>5 DEF Inv, TellOnce, At
    <2> QED
      BY <2>1, <2>4, <2>5 DEF TellOnce
  <1> QED
    BY <1>7, <1>8, <1>9, <1>10, <1>11, <1>12 DEF Inv

(* Announcing the introduction keeps the invariant.                        *)
LEMMA TellInv ==
  ASSUME Inv, TypeOK', NEW c \in Calls, AcceptTell(c) PROVE Inv'
  <1>1. PICK o \in call[c].offers : AcceptTell(c)!(o)
    BY DEF AcceptTell
  <1>2. call \in Records /\ At(c, "accept.tell") /\ call[c].at \in Answering
    BY <1>1 DEF Inv, TypeOK, Records, Answering, At
  <1>3. o \in Offers /\ call[c].offers = {o}
    BY <1>1, <1>2 DEF Inv, OneOffer
  <1>4. o \in threads /\ told[o] = 0 /\ intros[o] = 1
    BY <1>2, <1>3 DEF Inv, TellOnce, ThreadsAgree
  <1>5. call'[c].at = "idle" /\ \A d \in Calls \ {c} : call'[d] = call[d]
    BY <1>1, <1>2, EndType
  <1>6. "idle" \notin Answering \cup Locked
    BY DEF Answering, Locked
  <1>7. told' = [told EXCEPT ![o] = 1] /\ UNCHANGED <<offer, lock, threads, intros>>
    BY <1>1, <1>4
  <1>8. OneOffer' /\ LockOwned'
    BY <1>5, <1>6, <1>7 DEF Inv, OneOffer, LockOwned
  <1>9. \A q \in Requests : AcceptedCount(q)' = AcceptedCount(q)
    BY <1>7 DEF AcceptedCount, Accepted
  <1>10. CountHolds' /\ CapRespected'
    BY <1>2, <1>5, <1>9 DEF Inv, CountHolds, CapRespected, At, Records, CallRecord
  <1>11. ThreadsAgree'
    BY <1>5, <1>7 DEF Inv, ThreadsAgree, At
  <1>12. TellOnce'
    BY <1>2, <1>3, <1>4, <1>5, <1>7 DEF Inv, TellOnce, TypeOK, At
  <1> QED
    BY <1>8, <1>10, <1>11, <1>12 DEF Inv

-----------------------------------------------------------------------------
(* The invariant holds at first.                                           *)
LEMMA InitInv == Init => Inv
  <1> SUFFICES ASSUME Init PROVE Inv
    OBVIOUS
  <1>1. TypeOK
    BY IdleIsRecord DEF Init, TypeOK
  <1>2. \A c \in Calls : call[c].at = "idle" /\ call[c].at \notin Answering \cup Locked
    BY DEF Init, Idle, Answering, Locked
  <1>3. OneOffer /\ LockOwned /\ CountHolds
    BY <1>2 DEF OneOffer, LockOwned, CountHolds, At
  <1>4. CapRespected
    <2>1. \A r \in Requests : Accepted(r) = {}
      BY DEF Init, Accepted, Offers
    <2> QED
      BY <2>1, FS_EmptySet, ConstantsAssumption DEF CapRespected, AcceptedCount
  <1>5. ThreadsAgree /\ TellOnce
    BY <1>2 DEF Init, ThreadsAgree, TellOnce, At
  <1> QED
    BY <1>1, <1>3, <1>4, <1>5 DEF Inv

(* Every step keeps the invariant.                                         *)
LEMMA InvStep == Inv /\ [Next]_vars => Inv'
  <1> SUFFICES ASSUME Inv, [Next]_vars PROVE Inv'
    OBVIOUS
  <1>1. TypeOK'
    BY TypeStep DEF Inv
  <1>2. CASE Member \/ Sweep
    BY <1>1, <1>2, QuietSweep, QuietInv DEF Inv
  <1>3. ASSUME NEW c \in Calls, Arrive(c) PROVE Inv'
    BY <1>1, <1>3, QuietArrive, QuietInv DEF Inv
  <1>4. ASSUME NEW c \in Calls, Staff(c) \/ Fail(c) \/ AcceptFilled(c) \/ DeclineWrite(c)
        PROVE  Inv'
    BY <1>1, <1>4, QuietMove, QuietInv DEF Inv
  <1>5. ASSUME NEW c \in Calls,
               \/ AcceptLock(c) \/ AcceptReread(c) \/ AcceptCount(c)
               \/ AcceptWrite(c) \/ AcceptTell(c)
        PROVE  Inv'
    BY <1>1, <1>5, LockInv, RereadInv, CountInv, WriteInv, TellInv
  <1>6. CASE UNCHANGED vars
    BY <1>1, <1>6, CountIsNat
       DEF Inv, vars, OneOffer, LockOwned, CountHolds, CapRespected, ThreadsAgree, TellOnce,
           AcceptedCount, Accepted, At
  <1> QED
    BY <1>2, <1>3, <1>4, <1>5, <1>6 DEF Next, Answer

(* The inductive invariant: what the row lock and the thread remember.     *)
THEOREM Invariance == Spec => []Inv
  BY InitInv, InvStep, PTL DEF Spec

(* Every reachable state is one the schema and the handlers know.          *)
THEOREM TypeCorrect == Spec => []TypeOK
  <1>1. Inv => TypeOK
    BY DEF Inv
  <1> QED
    BY <1>1, Invariance, PTL

(* No request has more acceptances than ACCEPTANCE_CAP, however many       *)
(* professionals tap Accept at once (accept's FOR UPDATE and its count).   *)
THEOREM CapAlwaysRespected == Spec => []CapRespected
  <1>1. Inv => CapRespected
    BY DEF Inv
  <1> QED
    BY <1>1, Invariance, PTL

(* A professional introduces themselves to the member at most once.        *)
THEOREM AlwaysIntroducedOnce == Spec => []IntroducedOnce
  <1>1. Inv => IntroducedOnce
    BY DEF Inv, ThreadsAgree, IntroducedOnce
  <1> QED
    BY <1>1, Invariance, PTL

(* The member is told of an acceptance at most once, and only of one that  *)
(* came with an introduction.                                              *)
THEOREM AlwaysToldOnce == Spec => []ToldOnce
  <1>1. Inv => ToldOnce
    BY DEF Inv, TypeOK, TellOnce, ThreadsAgree, ToldOnce
  <1> QED
    BY <1>1, Invariance, PTL

-----------------------------------------------------------------------------
SameAccepted == \A o \in Offers : offer'[o] = "ACCEPTED" <=> offer[o] = "ACCEPTED"

(* Every step but accept's commit and decline's write leaves the set of    *)
(* acceptances as it was, and only the two accept steps below introduce or *)
(* announce anybody.                                                       *)
LEMMA KeepsAccepted ==
  ASSUME TypeOK,
         \/ Member \/ Sweep
         \/ \E c \in Calls :
              \/ Arrive(c) \/ Staff(c) \/ Fail(c)
              \/ AcceptLock(c) \/ AcceptReread(c) \/ AcceptCount(c)
              \/ AcceptTell(c) \/ AcceptFilled(c)
  PROVE  SameAccepted
  <1>1. CASE Member \/ Sweep
    BY <1>1 DEF Member, Sweep, Create, Cancel, RunExpiry, Overdue, Lapse, WithdrawOffer,
                RevokePending, SameAccepted, TypeOK
  <1>2. ASSUME NEW c \in Calls, Arrive(c) PROVE SameAccepted
    BY <1>2 DEF Arrive, AcceptRead, DeclineRead, OfferRead, OutcomeRead, SameAccepted
  <1>3. ASSUME NEW c \in Calls, OfferWrite(c) \/ OutcomeWrite(c) PROVE SameAccepted
    BY <1>3 DEF OfferWrite, OutcomeWrite, RevokePending, SameAccepted, TypeOK
  <1>4. ASSUME NEW c \in Calls,
               \/ OfferCheck(c) \/ OfferRecount(c) \/ OfferTell(c) \/ OutcomeCount(c) \/ Fail(c)
               \/ AcceptLock(c) \/ AcceptReread(c) \/ AcceptCount(c)
               \/ AcceptTell(c) \/ AcceptFilled(c)
        PROVE  SameAccepted
    BY <1>4 DEF OfferCheck, OfferRecount, OfferTell, OutcomeCount, Fail, AcceptLock,
                AcceptReread, AcceptCount, AcceptTell, AcceptFilled, SameAccepted
  <1> QED
    BY <1>1, <1>2, <1>3, <1>4 DEF Staff

(* An acceptance is undone by the professional's own decline and nothing   *)
(* else, in every interleaving.                                            *)
THEOREM OnlyDeclineEverUndoes == Spec => OnlyDeclineUndoes
  <1> DEFINE A == \A o \in Offers : offer[o] = "ACCEPTED" /\ offer'[o] # "ACCEPTED" =>
                    \E c \in Calls : At(c, "decline.write") /\ o \in call[c].offers
  <1>1. ASSUME Inv, [Next]_vars PROVE [A]_vars
    <2>1. CASE \/ Member \/ Sweep
               \/ \E c \in Calls :
                    \/ Arrive(c) \/ Staff(c) \/ Fail(c)
                    \/ AcceptLock(c) \/ AcceptReread(c) \/ AcceptCount(c)
                    \/ AcceptTell(c) \/ AcceptFilled(c)
      <3>1. SameAccepted
        BY <1>1, <2>1, KeepsAccepted DEF Inv
      <3> QED
        BY <3>1 DEF SameAccepted
    <2>2. ASSUME NEW c \in Calls, AcceptWrite(c) PROVE A
      BY <1>1, <2>2, WriteEffect
    <2>3. ASSUME NEW c \in Calls, DeclineWrite(c) PROVE A
      <3>1. PICK o \in call[c].offers : DeclineWrite(c)!(o)
        BY <2>3 DEF DeclineWrite
      <3>2. \A q \in Offers \ {o} : offer'[q] = offer[q]
        BY <1>1, <3>1 DEF Inv, TypeOK
      <3> QED
        BY <3>1, <3>2
    <2> QED
      BY <1>1, <2>1, <2>2, <2>3 DEF Next, Answer
  <1>2. Inv /\ [Next]_vars => [A]_vars
    BY <1>1
  <1> QED
    BY <1>2, Invariance, PTL DEF Spec, OnlyDeclineUndoes

(* The handlers implement the promise: in the view that keeps only the     *)
(* acceptances, the introductions and the notices, every step takes on,    *)
(* tells, drops or changes nothing.                                        *)
THEOREM Implements == Spec => ImplementsIntroductions
  <1>1. Init => Abstract!Init
    BY DEF Init, Abstract!Init, Abstract!Pairs, Offers
  <1>2. ASSUME Inv, [Next]_vars PROVE [Abstract!Next]_(Abstract!vars)
    <2> DEFINE taken == {o \in Offers : offer[o] = "ACCEPTED"}
    <2>a. Abstract!Pairs = Offers
      BY DEF Abstract!Pairs, Offers
    <2>1. CASE \/ Member \/ Sweep
               \/ \E c \in Calls :
                    \/ Arrive(c) \/ Staff(c) \/ Fail(c)
                    \/ AcceptLock(c) \/ AcceptReread(c) \/ AcceptCount(c) \/ AcceptFilled(c)
      <3>1. UNCHANGED taken
        BY <1>2, <2>1, KeepsAccepted DEF Inv, SameAccepted
      <3>2. UNCHANGED <<intros, told>>
        BY <2>1 DEF Member, Sweep, Create, Cancel, RunExpiry, Lapse, WithdrawOffer,
                    Arrive, AcceptRead, DeclineRead, OfferRead, OutcomeRead,
                    Staff, OfferCheck, OfferRecount, OfferWrite, OfferTell, OutcomeCount,
                    OutcomeWrite, Fail, AcceptLock, AcceptReread, AcceptCount, AcceptFilled
      <3> QED
        BY <3>1, <3>2 DEF Abstract!vars
    <2>2. ASSUME NEW c \in Calls, AcceptWrite(c) PROVE Abstract!Next
      <3>1. PICK o \in Offers :
               /\ o[1] \in Requests
               /\ intros[o] = 0 /\ intros' = [intros EXCEPT ![o] = 1] /\ told' = told
               /\ offer'[o] = "ACCEPTED"
               /\ \A q \in Offers \ {o} : offer'[q] = "ACCEPTED" <=> offer[q] = "ACCEPTED"
               /\ AcceptedCount(o[1]) < Cap
        BY <1>2, <2>2, WriteEffect
      <3>2. Abstract!Takers(o[1]) = Accepted(o[1])
        BY <3>1 DEF Abstract!Takers, Accepted, Offers
      <3>3. taken' = taken \cup {o}
        BY <3>1
      <3>4. Abstract!Cardinality(Accepted(o[1])) = Cardinality(Accepted(o[1]))
        BY DEF Abstract!Cardinality, Cardinality, Abstract!IsFiniteSet, IsFiniteSet
      <3>5. Abstract!Take(o)
        BY <3>1, <3>2, <3>3, <3>4 DEF Abstract!Take, AcceptedCount
      <3> QED
        BY <2>a, <3>5 DEF Abstract!Next
    <2>3. ASSUME NEW c \in Calls, AcceptTell(c) PROVE Abstract!Next
      <3>1. PICK o \in call[c].offers : AcceptTell(c)!(o)
        BY <2>3 DEF AcceptTell
      <3>2. o \in Offers /\ told[o] = 0 /\ intros[o] = 1
        BY <1>2, <3>1 DEF Inv, TypeOK, CallRecord, TellOnce, ThreadsAgree
      <3>3. told' = [told EXCEPT ![o] = 1] /\ UNCHANGED intros /\ taken' = taken
        BY <3>1, <3>2
      <3>4. Abstract!Tell(o)
        BY <3>2, <3>3 DEF Abstract!Tell
      <3> QED
        BY <2>a, <3>2, <3>4 DEF Abstract!Next
    <2>4. ASSUME NEW c \in Calls, DeclineWrite(c) PROVE [Abstract!Next]_(Abstract!vars)
      <3>1. PICK o \in call[c].offers : DeclineWrite(c)!(o)
        BY <2>4 DEF DeclineWrite
      <3>2. o \in Offers
        BY <1>2, <3>1 DEF Inv, TypeOK, CallRecord
      <3>3. taken' = taken \ {o} /\ UNCHANGED <<intros, told>>
        BY <1>2, <3>1, <3>2 DEF Inv, TypeOK
      <3>4. CASE o \in taken
        BY <2>a, <3>2, <3>3, <3>4 DEF Abstract!Next, Abstract!Drop
      <3>5. CASE o \notin taken
        BY <3>3, <3>5 DEF Abstract!vars
      <3> QED
        BY <3>4, <3>5
    <2>5. CASE UNCHANGED vars
      BY <2>5 DEF vars, Abstract!vars
    <2> QED
      BY <1>2, <2>1, <2>2, <2>3, <2>4, <2>5 DEF Next, Answer
  <1>3. Inv /\ [Next]_vars => [Abstract!Next]_(Abstract!vars)
    BY <1>2
  <1> QED
    BY <1>1, <1>3, Invariance, PTL DEF Spec, ImplementsIntroductions, Abstract!Spec
=============================================================================
