--------------------------- MODULE ServiceRequests ---------------------------
(***************************************************************************)
(* "Let Circl handle it": a member's request, the offers staff send out on *)
(* it, and the professionals' answers.                                     *)
(*                                                                         *)
(*   platform/professionals/services/service-request.service.ts            *)
(*   platform/professionals/services/service-request-offer.service.ts      *)
(*   admin/services/admin-service-request.service.ts                       *)
(*                                                                         *)
(* A call is one HTTP handler in flight.  The database is PostgreSQL at    *)
(* READ COMMITTED, so a handler is a sequence of steps: each read that a   *)
(* later write relies on is a step of its own and is kept in the call's    *)
(* record; a transaction's writes become visible together, at its commit,  *)
(* and are one step.  `lock' is the row lock accept takes on the request   *)
(* (SELECT ... FOR UPDATE): every other write of that row waits for it,    *)
(* and so does the insertion of an offer, whose foreign key needs the row. *)
(* A handler whose write is guarded by the condition it checked first      *)
(* (cancel, withdrawOffer) is one step: the check only refuses sooner.     *)
(***************************************************************************)
EXTENDS Naturals, FiniteSets

CONSTANTS
  Requests,      \* requests members may raise
  Pros,          \* professionals staff may offer them to (never the member)
  Calls,         \* handlers that can be in flight at once
  NoCall,        \* "nobody holds the row lock"
  Cap            \* ACCEPTANCE_CAP

ASSUME ConstantsAssumption ==
  /\ Requests # {}
  /\ IsFiniteSet(Pros)
  /\ Cap \in Nat
  /\ NoCall \notin Calls

VARIABLES
  state,         \* ServiceRequest.state, "ABSENT" before it is created
  offer,         \* ServiceRequestOffer.status by <<request, professional>>
  lapsed,        \* offers whose expiresAt has passed
  lock,          \* the call that holds the request's row lock
  threads,       \* conversations about a request, by <<request, professional>>
  intros,        \* introductions posted in that conversation
  told,          \* "is taking on your request" notices to the member
  buzzed,        \* "new request" notices to the professional
  call           \* what each handler in flight is doing, and what it has read

vars == <<state, offer, lapsed, lock, threads, intros, told, buzzed, call>>

Offers == Requests \X Pros

RequestState == {"SUBMITTED", "MATCHING", "MATCHED", "NO_MATCH", "CANCELLED"}
OfferStatus == {"PENDING", "ACCEPTED", "DECLINED", "EXPIRED", "REVOKED"}
Outcome == {"FOUND", "NONE"}

WITHDRAWABLE == {"SUBMITTED", "MATCHING"}

(* Where a handler stands: the next statement it will run.                 *)
Locked == {"accept.reread", "accept.count", "accept.write"}
Step == Locked \cup
  {"idle", "accept.lock", "accept.tell", "accept.filled", "decline.write",
   "offer.check", "offer.recount", "offer.write", "offer.tell",
   "outcome.count", "outcome.write"}

(* A handler's local state.  offers: the offers it is about; saw: the      *)
(* request state it read; count: the acceptances it counted; fresh: its    *)
(* search found no thread; known: the offers that were there already.      *)
CallRecord == [at : Step, req : Requests, offers : SUBSET Offers,
               saw : RequestState, count : Nat, fresh : BOOLEAN,
               known : SUBSET Offers, outcome : Outcome]

Idle == [at |-> "idle", req |-> CHOOSE r \in Requests : TRUE, offers |-> {},
         saw |-> "SUBMITTED", count |-> 0, fresh |-> FALSE, known |-> {},
         outcome |-> "FOUND"]

-----------------------------------------------------------------------------
Accepted(r) == {p \in Pros : offer[<<r, p>>] = "ACCEPTED"}
AcceptedCount(r) == Cardinality(Accepted(r))

Exists(r) == state[r] # "ABSENT"

FullPastCap(r) == AcceptedCount(r) > Cap                          \* a mutant
Full(r) == AcceptedCount(r) >= Cap

RowFreeAlways(r) == r \in Requests                                \* a mutant
RowFree(r) == lock[r] = NoCall

At(c, step) == call[c].at = step
Begin(c, rec) == At(c, "idle") /\ call' = [call EXCEPT ![c] = rec]
Continue(c, step) == call' = [call EXCEPT ![c].at = step]
End(c) == call' = [call EXCEPT ![c] = Idle]
ReleaseNever(c) == c \in Calls /\ UNCHANGED lock                   \* a mutant
Release(c) == lock' = [r \in Requests |-> IF lock[r] = c THEN NoCall ELSE lock[r]]

(* updateMany({ requestId, status: PENDING }) -> REVOKED, after two        *)
(* mutants: only what has lapsed; the request's word for it.               *)
RevokeAsCancelled(r, offers) ==
  [o \in Offers |-> IF o[1] = r /\ offers[o] = "PENDING" THEN "CANCELLED" ELSE offers[o]]
RevokePending(r, offers) ==
  [o \in Offers |-> IF o[1] = r /\ offers[o] = "PENDING" THEN "REVOKED" ELSE offers[o]]

Init ==
  /\ state = [r \in Requests |-> "ABSENT"]
  /\ offer = [o \in Offers |-> "NONE"]
  /\ lapsed = {}
  /\ lock = [r \in Requests |-> NoCall]
  /\ threads = {}
  /\ intros = [o \in Offers |-> 0]
  /\ told = [o \in Offers |-> 0]
  /\ buzzed = [o \in Offers |-> 0]
  /\ call = [c \in Calls |-> Idle]

-----------------------------------------------------------------------------
(* The member.                                                             *)

Create(r) ==
  /\ ~Exists(r)
  /\ state' = [state EXCEPT ![r] = "SUBMITTED"]
  /\ UNCHANGED <<offer, lapsed, lock, threads, intros, told, buzzed, call>>

Cancel(r) ==
  /\ RowFree(r)
  /\ state[r] \in WITHDRAWABLE
  /\ state' = [state EXCEPT ![r] = "CANCELLED"]
  /\ offer' = RevokePending(r, offer)
  /\ UNCHANGED <<lapsed, lock, threads, intros, told, buzzed, call>>

-----------------------------------------------------------------------------
(* The professional: accept.  An offer that is already accepted is         *)
(* answered with the same view, any other that is not pending is refused,  *)
(* and neither writes anything.                                            *)

AcceptRead(c, o) ==
  /\ offer[o] = "PENDING"
  /\ Begin(c, [Idle EXCEPT !.at = "accept.lock", !.req = o[1], !.offers = {o}])
  /\ UNCHANGED <<state, offer, lapsed, lock, threads, intros, told, buzzed>>

AcceptLock(c) ==
  LET r == call[c].req IN
  /\ At(c, "accept.lock")
  /\ RowFree(r)
  /\ lock' = [lock EXCEPT ![r] = c]
  /\ Continue(c, "accept.reread")
  /\ UNCHANGED <<state, offer, lapsed, threads, intros, told, buzzed>>

(* The offer again, inside the lock: a second device that lost the race    *)
(* (raced), an offer answered or taken back meanwhile and a closed request *)
(* all end here with nothing written.                                      *)
StillAcceptable(c, o) == offer[o] = "PENDING" /\ state[o[1]] \notin {"CANCELLED", "NO_MATCH"}

AcceptReread(c) ==
  \E o \in call[c].offers :
    /\ At(c, "accept.reread")
    /\ IF StillAcceptable(c, o)
         THEN Continue(c, "accept.count") /\ UNCHANGED lock
         ELSE End(c) /\ Release(c)
    /\ UNCHANGED <<state, offer, lapsed, threads, intros, told, buzzed>>

(* At the cap the code writes REVOKED on this offer and throws in the same *)
(* transaction, which rolls the write back: the offer stays as it was.     *)
(* Below it, the conversation factory looks for the thread.                *)
AcceptCount(c) ==
  \E o \in call[c].offers :
    /\ At(c, "accept.count")
    /\ IF Full(o[1])
         THEN Continue(c, "accept.filled") /\ Release(c)
         ELSE /\ call' = [call EXCEPT ![c].at = "accept.write",
                                      ![c].count = AcceptedCount(o[1]),
                                      ![c].fresh = o \notin threads]
              /\ UNCHANGED lock
    /\ UNCHANGED <<state, offer, lapsed, threads, intros, told, buzzed>>

(* The offer's own row is not locked and its update is not guarded: what a *)
(* decline, an expiry or a withdrawal wrote since the re-read is replaced. *)
AcceptWrite(c) ==
  \E o \in call[c].offers :
    LET r == o[1]
        taken == [offer EXCEPT ![o] = "ACCEPTED"]
    IN
    /\ At(c, "accept.write")
    /\ threads' = threads \cup {o}
    /\ intros' = IF call[c].fresh THEN [intros EXCEPT ![o] = @ + 1] ELSE intros
    /\ offer' = IF call[c].count + 1 >= Cap THEN RevokePending(r, taken) ELSE taken
    /\ state' = [state EXCEPT ![r] = "MATCHED"]
    /\ Release(c)
    /\ Continue(c, "accept.tell")
    /\ UNCHANGED <<lapsed, told, buzzed>>

AcceptTell(c) ==
  \E o \in call[c].offers :
    /\ At(c, "accept.tell")
    /\ told' = [told EXCEPT ![o] = @ + 1]
    /\ End(c)
    /\ UNCHANGED <<state, offer, lapsed, lock, threads, intros, buzzed>>

(* The refusal SERVICE_REQUEST_FILLED reaches the professional.            *)
AcceptFilled(c) ==
  /\ At(c, "accept.filled")
  /\ End(c)
  /\ UNCHANGED <<state, offer, lapsed, lock, threads, intros, told, buzzed>>

-----------------------------------------------------------------------------
(* The professional: decline.  The status is checked, then written over.   *)

DeclineRead(c, o) ==
  /\ offer[o] = "PENDING"
  /\ Begin(c, [Idle EXCEPT !.at = "decline.write", !.req = o[1], !.offers = {o}])
  /\ UNCHANGED <<state, offer, lapsed, lock, threads, intros, told, buzzed>>

DeclineWrite(c) ==
  \E o \in call[c].offers :
    /\ At(c, "decline.write")
    /\ offer' = [offer EXCEPT ![o] = "DECLINED"]
    /\ End(c)
    /\ UNCHANGED <<state, lapsed, lock, threads, intros, told, buzzed>>

-----------------------------------------------------------------------------
(* Staff: offer a request to some professionals.  The state that decides   *)
(* whether the request becomes MATCHING is the one read first.             *)

OfferRead(c, r, offers) ==
  /\ Exists(r)
  /\ state[r] # "CANCELLED"
  /\ Begin(c, [Idle EXCEPT !.at = "offer.check", !.req = r, !.offers = offers,
                           !.saw = state[r]])
  /\ UNCHANGED <<state, offer, lapsed, lock, threads, intros, told, buzzed>>

(* The courtesy count, and who already had an offer before this call.      *)
AlreadyOffered(offers) == {o \in offers : offer[o] # "NONE"}

OfferCheck(c) ==
  /\ At(c, "offer.check")
  /\ IF Full(call[c].req)
       THEN End(c)
       ELSE call' = [call EXCEPT
              ![c].at = "offer.recount",
              ![c].known = AlreadyOffered(call[c].offers)]
  /\ UNCHANGED <<state, offer, lapsed, lock, threads, intros, told, buzzed>>

(* The count again, inside the transaction; it locks nothing.              *)
OfferRecount(c) ==
  /\ At(c, "offer.recount")
  /\ IF Full(call[c].req) THEN End(c) ELSE Continue(c, "offer.write")
  /\ UNCHANGED <<state, offer, lapsed, lock, threads, intros, told, buzzed>>

Reopens(saw) == saw \in {"SUBMITTED", "NO_MATCH"}

OfferWrite(c) ==
  LET r == call[c].req IN
  /\ At(c, "offer.write")
  /\ RowFree(r)
  /\ offer' = [o \in Offers |->
       IF o \in call[c].offers /\ offer[o] = "NONE" THEN "PENDING" ELSE offer[o]]
  /\ state' = IF Reopens(call[c].saw)
                THEN [state EXCEPT ![r] = "MATCHING"] ELSE state
  /\ Continue(c, "offer.tell")
  /\ UNCHANGED <<lapsed, lock, threads, intros, told, buzzed>>

OfferTell(c) ==
  /\ At(c, "offer.tell")
  /\ buzzed' = [o \in Offers |->
       IF o \in call[c].offers \ call[c].known THEN buzzed[o] + 1 ELSE buzzed[o]]
  /\ End(c)
  /\ UNCHANGED <<state, offer, lapsed, lock, threads, intros, told>>

WithdrawOffer(o) ==
  /\ offer[o] = "PENDING"
  /\ offer' = [offer EXCEPT ![o] = "REVOKED"]
  /\ UNCHANGED <<state, lapsed, lock, threads, intros, told, buzzed, call>>

-----------------------------------------------------------------------------
(* Staff: send the outcome.                                                *)

OutcomeRead(c, r, outcome) ==
  /\ Exists(r)
  /\ state[r] # "CANCELLED"
  /\ Begin(c, [Idle EXCEPT !.at = "outcome.count", !.req = r, !.outcome = outcome])
  /\ UNCHANGED <<state, offer, lapsed, lock, threads, intros, told, buzzed>>

OutcomeFits(r, outcome) == (outcome = "FOUND") <=> (AcceptedCount(r) > 0)

OutcomeCount(c) ==
  /\ At(c, "outcome.count")
  /\ IF OutcomeFits(call[c].req, call[c].outcome)
       THEN Continue(c, "outcome.write") ELSE End(c)
  /\ UNCHANGED <<state, offer, lapsed, lock, threads, intros, told, buzzed>>

OutcomeWrite(c) ==
  LET r == call[c].req IN
  /\ At(c, "outcome.write")
  /\ RowFree(r)
  /\ IF call[c].outcome = "NONE"
       THEN /\ offer' = RevokePending(r, offer)
            /\ state' = [state EXCEPT ![r] = "NO_MATCH"]
       ELSE /\ state' = [state EXCEPT ![r] = "MATCHED"]
            /\ UNCHANGED offer
  /\ End(c)
  /\ UNCHANGED <<lapsed, lock, threads, intros, told, buzzed>>

-----------------------------------------------------------------------------
(* Time, the hourly sweep, and failure.                                    *)

(* OFFER_TTL_HOURS go by.                                                  *)
Lapse(o) ==
  /\ offer[o] = "PENDING"
  /\ o \notin lapsed
  /\ lapsed' = lapsed \cup {o}
  /\ UNCHANGED <<state, offer, lock, threads, intros, told, buzzed, call>>

OverdueAnswered == {o \in lapsed : offer[o] \in {"PENDING", "ACCEPTED"}} \* a mutant
OverdueIfSubmitted == {o \in lapsed : offer[o] = "PENDING" /\ state[o[1]] = "SUBMITTED"}  \* a mutant
Overdue == {o \in lapsed : offer[o] = "PENDING"}

RunExpiry ==
  /\ Overdue # {}
  /\ offer' = [o \in Offers |-> IF o \in Overdue THEN "EXPIRED" ELSE offer[o]]
  /\ UNCHANGED <<state, lapsed, lock, threads, intros, told, buzzed, call>>

(* The process dies, the connection drops or PostgreSQL aborts the         *)
(* transaction: what was not committed is lost and the row lock is freed.  *)
Fail(c) ==
  /\ ~At(c, "idle")
  /\ Release(c)
  /\ End(c)
  /\ UNCHANGED <<state, offer, lapsed, threads, intros, told, buzzed>>

Member == \E r \in Requests : Create(r) \/ Cancel(r)

Answer(c) ==
  \/ AcceptLock(c) \/ AcceptReread(c) \/ AcceptCount(c) \/ AcceptWrite(c)
  \/ AcceptTell(c) \/ AcceptFilled(c) \/ DeclineWrite(c)

Staff(c) ==
  \/ OfferCheck(c) \/ OfferRecount(c) \/ OfferWrite(c) \/ OfferTell(c)
  \/ OutcomeCount(c) \/ OutcomeWrite(c)

Arrive(c) ==
  \/ \E o \in Offers : AcceptRead(c, o) \/ DeclineRead(c, o)
  \/ \E r \in Requests :
       \/ \E ps \in SUBSET Pros \ {{}} : OfferRead(c, r, {r} \X ps)
       \/ \E outcome \in Outcome : OutcomeRead(c, r, outcome)

Sweep == RunExpiry \/ \E o \in Offers : Lapse(o) \/ WithdrawOffer(o)

Next == Member \/ Sweep \/ \E c \in Calls : Arrive(c) \/ Answer(c) \/ Staff(c) \/ Fail(c)

Spec == Init /\ [][Next]_vars

(* The sweep runs every hour and 72 hours pass; a handler that has begun   *)
(* runs on, and one that waits for the row lock is served in turn.         *)
Fairness ==
  /\ WF_vars(RunExpiry)
  /\ \A o \in Offers : WF_vars(Lapse(o))
  /\ \A c \in Calls : WF_vars(Answer(c)) /\ SF_vars(AcceptLock(c)) /\ WF_vars(Staff(c))

FairSpec == Spec /\ Fairness

-----------------------------------------------------------------------------
(* Every variable and every handler's record keeps its shape.              *)
TypeOK ==
  /\ state \in [Requests -> RequestState \cup {"ABSENT"}]
  /\ offer \in [Offers -> OfferStatus \cup {"NONE"}]
  /\ lapsed \in SUBSET Offers
  /\ lock \in [Requests -> Calls \cup {NoCall}]
  /\ threads \in SUBSET Offers
  /\ intros \in [Offers -> Nat]
  /\ told \in [Offers -> Nat]
  /\ buzzed \in [Offers -> Nat]
  /\ call \in [Calls -> CallRecord]

(* However many devices accept at once, no request ever has more accepted  *)
(* offers than ACCEPTANCE_CAP: the count in accept is taken under the      *)
(* request's row lock and nothing else adds an acceptance.                 *)
CapRespected == \A r \in Requests : AcceptedCount(r) <= Cap

(* The member reads one introduction from a professional, whatever was     *)
(* tapped twice, retried after a dropped connection or raced.              *)
IntroducedOnce == \A o \in Offers : intros[o] <= 1

(* The member is told at most once that this professional took it on, and  *)
(* never of somebody who has not written to them.                          *)
ToldOnce == \A o \in Offers : told[o] <= 1 /\ told[o] <= intros[o]

(* An acceptance is undone by one thing only: the professional's own       *)
(* decline, begun while the offer was pending.  Cancel, the expiry sweep,  *)
(* the revocation at the cap, withdrawOffer, an outcome and a second       *)
(* offer all leave it alone, in every order.                               *)
OnlyDeclineUndoes ==
  [][\A o \in Offers : offer[o] = "ACCEPTED" /\ offer'[o] # "ACCEPTED" =>
       \E c \in Calls : At(c, "decline.write") /\ o \in call[c].offers]_vars

(* An offer that is out does not stay unanswered for ever.                 *)
OffersSettle ==
  \A o \in Offers : (offer[o] = "PENDING") ~> (offer[o] # "PENDING")

(* A professional who taps Accept gets an answer: the row lock is always   *)
(* handed on, whichever way the handlers before this one end.              *)
AcceptAnswered ==
  \A c \in Calls : At(c, "accept.lock") ~> At(c, "idle")

(* The handlers, the lock and the transactions implement Introductions.    *)
Abstract == INSTANCE Introductions WITH
  taken <- {o \in Offers : offer[o] = "ACCEPTED"}, intros <- intros, told <- told

ImplementsIntroductions == Abstract!Spec
=============================================================================
