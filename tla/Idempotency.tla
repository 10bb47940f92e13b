----------------------------- MODULE Idempotency -----------------------------
(***************************************************************************)
(* Idempotency-Key on the endpoints that declare it: the reservation of a  *)
(* key, the handler it protects, the recorded answer and its replay.       *)
(*                                                                         *)
(*   common/interceptors/idempotency.interceptor.ts                        *)
(*   platform/jobs/platform-jobs.service.ts, sweepIdempotency              *)
(*                                                                         *)
(* One user, one key, one endpoint: the row is unique per triple and the   *)
(* triples share nothing.  A client sends its request until it is answered *)
(* (by the handler, by a replay, by a refusal of the key); told that the   *)
(* request is in progress, or told nothing because the process died, it    *)
(* sends again.  Every query of an attempt is a step.  Every handler that  *)
(* declares Idempotent answers with an object, so a replay is never null.  *)
(***************************************************************************)
EXTENDS Naturals, FiniteSets

CONSTANTS
  Clients,       \* senders of requests under the key
  Bodies,        \* request bodies (the hash tells them apart)
  MaxDeaths      \* bound: how many attempts die with their process

ASSUME ConstantsAssumption ==
  /\ Bodies # {}
  /\ MaxDeaths \in Nat

VARIABLES
  body,          \* what each client sends
  row,           \* the IdempotencyRecord, as a set of at most one
  client,        \* where each client's attempt stands
  stamps,        \* the clock startedAt is read from
  deaths,        \* attempts that died so far
  effects,       \* history: how often the action was applied in the key's window
  lost,          \* history: applications in the window whose answer was not recorded
  receipts       \* history: answers given out in the window, with the body sent

vars == <<body, row, client, stamps, deaths, effects, lost, receipts>>

(* The age of a reservation or answer: within IN_FLIGHT_TTL_MS of          *)
(* startedAt, within TTL_MS, or past expiresAt.                            *)
Age == {"fresh", "old", "expired"}

(* A result names the application of the action that produced it.          *)
Result == [stamp : Nat, body : Bodies]
NoResult == [stamp |-> 0, body |-> CHOOSE b \in Bodies : TRUE]

Record == [hash : Bodies, startedAt : Nat, age : Age, answered : BOOLEAN, response : Result]

At == {"read", "create", "take", "run", "record", "giveback", "answered"}

(* seen: the startedAt of the row an attempt means to take over; stamp:    *)
(* the startedAt it reserved the key with.                                 *)
Attempt == [at : At, seen : Nat, stamp : Nat]
Unsent == [at |-> "read", seen |-> 0, stamp |-> 0]

Owning == {"run", "record", "giveback"}
Owners == {c \in Clients : client[c].at \in Owning}

Init ==
  /\ body \in [Clients -> Bodies]
  /\ row = {}
  /\ client = [c \in Clients |-> Unsent]
  /\ stamps = 1
  /\ deaths = 0
  /\ effects = 0
  /\ lost = 0
  /\ receipts = {}

-----------------------------------------------------------------------------
GoTo(c, step) == client' = [client EXCEPT ![c].at = step]
Resend(c) == client' = [client EXCEPT ![c] = Unsent]

Live(r) == r.age # "expired"

SettledYoung(r) == r.age = "fresh" /\ r.answered                  \* a mutant
Settled(r) == Live(r) /\ r.answered

InFlightForEver(r) == Live(r)                                     \* a mutant
InFlight(r) == Live(r) /\ r.age = "fresh"

Receive(c, result) == receipts' = receipts \cup {[sent |-> body[c], got |-> result]}

(* reserve(), its first query.  A live answer is replayed to the same      *)
(* request and refuses a different one; a live reservation that is young   *)
(* enough refuses both; an absent or abandoned one is claimed.             *)
ReplayableAny(r, sent) == r.hash \in Bodies /\ sent \in Bodies    \* a mutant
Replayable(r, sent) == r.hash = sent

Read(c) ==
  /\ client[c].at = "read"
  /\ UNCHANGED <<body, row, stamps, deaths, effects, lost>>
  /\ \/ /\ row = {}
        /\ GoTo(c, "create")
        /\ UNCHANGED receipts
     \/ \E r \in row :
          \/ /\ Settled(r)
             /\ GoTo(c, "answered")
             /\ IF Replayable(r, body[c]) THEN Receive(c, r.response) ELSE UNCHANGED receipts
          \/ /\ ~Settled(r) /\ InFlight(r)
             /\ Resend(c)
             /\ UNCHANGED receipts
          \/ /\ ~Settled(r) /\ ~InFlight(r)
             /\ client' = [client EXCEPT ![c].at = "take", ![c].seen = r.startedAt]
             /\ UNCHANGED receipts

Reservation(c) == [hash |-> body[c], startedAt |-> stamps, age |-> "fresh",
                   answered |-> FALSE, response |-> NoResult]

Reserve(c) ==
  /\ row' = {Reservation(c)}
  /\ client' = [client EXCEPT ![c].at = "run", ![c].stamp = stamps]
  /\ stamps' = stamps + 1

(* The insert: a unique violation means somebody claimed it in between.    *)
Create(c) ==
  /\ client[c].at = "create"
  /\ IF row = {} THEN Reserve(c) ELSE Resend(c) /\ UNCHANGED <<row, stamps>>
  /\ UNCHANGED <<body, deaths, effects, lost, receipts>>

(* The takeover, guarded by the row as it was read.                        *)
AnyRow(r, seen) == r.startedAt \in Nat /\ seen \in Nat            \* a mutant
AsRead(r, seen) == r.startedAt = seen

Take(c) ==
  /\ client[c].at = "take"
  /\ IF \E r \in row : AsRead(r, client[c].seen)
       THEN Reserve(c)
       ELSE Resend(c) /\ UNCHANGED <<row, stamps>>
  /\ UNCHANGED <<body, deaths, effects, lost, receipts>>

(* The handler: it applies the action, or refuses and applies nothing.     *)
Apply(c) ==
  /\ client[c].at = "run"
  /\ effects' = effects + 1
  /\ GoTo(c, "record")
  /\ UNCHANGED <<body, row, stamps, deaths, lost, receipts>>

Refuse(c) ==
  /\ client[c].at = "run"
  /\ GoTo(c, "giveback")
  /\ UNCHANGED <<body, row, stamps, deaths, effects, lost, receipts>>

(* The answer is recorded by key, on whatever row is there, and returned.  *)
Answer(c) == [stamp |-> client[c].stamp, body |-> body[c]]
Unrecorded(r, result) == [r EXCEPT !.response = result]           \* a mutant
Recorded(r, result) == [r EXCEPT !.answered = TRUE, !.response = result]

RecordAnswer(c) ==
  /\ client[c].at = "record"
  /\ row' = {Recorded(r, Answer(c)) : r \in row}
  /\ Receive(c, Answer(c))
  /\ GoTo(c, "answered")
  /\ UNCHANGED <<body, stamps, deaths, effects, lost>>

(* The record cannot be written: the client is answered all the same.      *)
FailToRecord(c) ==
  /\ client[c].at = "record"
  /\ lost' = lost + 1
  /\ Receive(c, Answer(c))
  /\ GoTo(c, "answered")
  /\ UNCHANGED <<body, row, stamps, deaths, effects>>

(* The key goes back, by key too; the client has the handler's refusal.    *)
GiveBack(c) ==
  /\ client[c].at = "giveback"
  /\ row' = {}
  /\ GoTo(c, "answered")
  /\ UNCHANGED <<body, stamps, deaths, effects, lost, receipts>>

(* Nor is a failure to give it back felt at once: the key stays in flight. *)
FailToGiveBack(c) ==
  /\ client[c].at = "giveback"
  /\ GoTo(c, "answered")
  /\ UNCHANGED <<body, row, stamps, deaths, effects, lost, receipts>>

-----------------------------------------------------------------------------
(* The process dies under an attempt, before the handler's commit or after *)
(* it.                                                                     *)
Die(c) ==
  /\ client[c].at # "answered"
  /\ deaths < MaxDeaths
  /\ deaths' = deaths + 1
  /\ lost' = IF client[c].at = "record" THEN lost + 1 ELSE lost
  /\ Resend(c)
  /\ UNCHANGED <<body, row, stamps, effects, receipts>>

(* The handler throws after its commit (a message or a reload that fails). *)
FailLate(c) ==
  /\ client[c].at = "record"
  /\ lost' = lost + 1
  /\ GoTo(c, "giveback")
  /\ UNCHANGED <<body, row, stamps, deaths, effects, receipts>>

(* Time.  IN_FLIGHT_TTL_MS is "long enough that no real request is still   *)
(* running": the reservation an attempt holds does not age while it runs.  *)
Held(r) == \E c \in Owners : client[c].stamp = r.startedAt
GrowOld ==
  /\ \E r \in row : /\ r.age = "fresh" /\ ~Held(r)
                    /\ row' = {[r EXCEPT !.age = "old"]}
  /\ UNCHANGED <<body, client, stamps, deaths, effects, lost, receipts>>

(* Past expiresAt the window of the key is over: the next application is   *)
(* another action.                                                         *)
Expire ==
  /\ \E r \in row : r.age = "old" /\ row' = {[r EXCEPT !.age = "expired"]}
  /\ effects' = 0
  /\ lost' = 0
  /\ receipts' = {}
  /\ UNCHANGED <<body, client, stamps, deaths>>

Sweep ==
  /\ \E r \in row : ~Live(r)
  /\ row' = {}
  /\ UNCHANGED <<body, client, stamps, deaths, effects, lost, receipts>>

-----------------------------------------------------------------------------
Proceed(c) == \/ Read(c) \/ Create(c) \/ Take(c) \/ Apply(c) \/ Refuse(c)
              \/ RecordAnswer(c) \/ GiveBack(c)
Next == \/ \E c \in Clients : \/ Proceed(c) \/ Die(c)
                             \/ FailLate(c) \/ FailToRecord(c) \/ FailToGiveBack(c)
        \/ GrowOld \/ Expire \/ Sweep

Spec == Init /\ [][Next]_vars

(* A client that was not answered sends again and its process runs on; the *)
(* clock moves.  Crashes, expiry and the sweep are never owed.             *)
Fairness == (\A c \in Clients : WF_vars(Proceed(c))) /\ WF_vars(GrowOld)
FairSpec == Spec /\ Fairness

-----------------------------------------------------------------------------
(* Types: the row (at most one per key), the attempts and the history.     *)
TypeOK ==
  /\ body \in [Clients -> Bodies]
  /\ row \in SUBSET Record /\ \A r, s \in row : r = s
  /\ client \in [Clients -> Attempt]
  /\ stamps \in Nat /\ deaths \in Nat
  /\ effects \in Nat /\ lost \in Nat
  /\ receipts \subseteq [sent : Bodies, got : Result]

(* "Two attempts cannot both believe they took it" (reserve): at most one  *)
(* attempt runs the handler under a key at any time.                       *)
OneOwner == \A c, d \in Owners : c = d

(* In the window of a key the action is applied once, and once more only   *)
(* for every application whose answer was not recorded, however often and  *)
(* by however many senders the request is repeated.                        *)
AppliedOnce == effects <= 1 + lost

(* "The same response, rather than a second of whatever it made": answers  *)
(* given out in the window differ only after one was lost, and each goes   *)
(* to senders of the body that was applied.                                *)
OneAnswer ==
  /\ \A receipt \in receipts : receipt.sent = receipt.got.body
  /\ Cardinality({receipt.got : receipt \in receipts}) <= 1 + lost

(* A recorded answer stands until it expires: nothing replaces or deletes  *)
(* it, a late attempt of another sender included.                          *)
AnswerStands ==
  [][\A r \in row : Live(r) /\ r.answered =>
        \E s \in row' : [s EXCEPT !.age = r.age] = r]_vars

(* A crash is "not felt for the rest of the day" and a failed create "can  *)
(* be tried again": a client that keeps sending is answered in the end.    *)
NobodyLockedOut == \A c \in Clients : <>(client[c].at = "answered")
=============================================================================
