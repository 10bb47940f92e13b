------------------------------- MODULE Accounts -------------------------------
(***************************************************************************)
(* One member's account: his sessions and the revocation list that ends    *)
(* them early, the suspensions staff put on him, the sweep that ends those *)
(* in time, and the deletion of the account.                               *)
(*                                                                         *)
(*   core/auth: session.service.ts, auth.service.ts, verification.service  *)
(*   .ts, account-state.service.ts, strategies/jwt.strategy.ts;            *)
(*   platform/shared/services/session-revocation.service.ts;               *)
(*   admin/services: admin-member-action.service.ts, enforcement.service   *)
(*   .ts; platform/account/services/account-deletion.service.ts            *)
(*                                                                         *)
(* A handler is a sequence of statements, each atomic, and any number of   *)
(* them overlap.  Time is what is left: of an access token, of an entry of *)
(* the revocation list, of a suspension.  Devices are numbered in the      *)
(* order in which they first signed in.                                    *)
(***************************************************************************)
EXTENDS Naturals, FiniteSets

CONSTANTS
  Procs,                \* handlers that may be under way at once
  MaxDevices,
  MaxSids,              \* bound: session ids
  MaxSuspensions,       \* bound: suspensions
  MaxAsked,             \* bound: requests
  MaxFaults,            \* bound: suspensions the sweep fails on
  JWT_ACCESS_EXPIRY,    \* ticks an access token lives
  TERM,                 \* ticks of a suspension with an end
  MAX_ACTIVE_SESSIONS

ASSUME ConstantsAssumption ==
  /\ {MaxDevices, MaxSids, MaxSuspensions, MaxAsked, MaxFaults} \subseteq Nat
  /\ {JWT_ACCESS_EXPIRY, TERM, MAX_ACTIVE_SESSIONS} \subseteq Nat \ {0}

Devices == 1..MaxDevices
Sids == 1..MaxSids
Suspensions == 1..MaxSuspensions
Never == TERM + 1       \* what is left of a suspension without an end

VARIABLES
  status, gone,  \* User.status, isAnonymised
  susp,          \* the suspensions
  row,           \* the session row of each device
  token,         \* what is left of the latest access token of each session
  list,          \* what is left of each session's entry in the list
  h,             \* what each handler is doing
  sweep,         \* what expireSuspensions is doing
  asked, faults,
  ended,         \* history: sessions whose row was ended, or replaced
  barred,        \* history: sessions ever put on the list
  overtaken,     \* history: of those, the ones a refresh under way answered
  crossed        \* history: two decisions about suspensions have overlapped

vars == <<status, gone, susp, row, token, list, h, sweep, asked, faults, ended, barred,
          overtaken, crossed>>
account == <<status, gone>>
sessions == <<row, token, list>>
history == <<ended, barred, overtaken, crossed>>
bounds == <<asked, faults>>

NoRow == [id |-> 0, active |-> FALSE, refresh |-> FALSE]
NoSuspension == [at |-> "none", left |-> 0]
Idle == [at |-> "idle", for |-> 0, term |-> 0, ids |-> {}, rows |-> FALSE]
AtRest == [at |-> "idle", due |-> {}, of |-> 0, free |-> FALSE]

Init ==
  /\ status = "ACTIVE" /\ gone = FALSE
  /\ susp = [s \in Suspensions |-> NoSuspension]
  /\ row = [d \in Devices |-> NoRow]
  /\ token = [i \in Sids |-> 0]
  /\ list = [i \in Sids |-> 0]
  /\ h = [p \in Procs |-> Idle]
  /\ sweep = AtRest
  /\ asked = 0 /\ faults = 0
  /\ ended = {} /\ barred = {} /\ overtaken = {} /\ crossed = FALSE

-----------------------------------------------------------------------------
(* What the handlers look at.                                              *)
Usable == ~gone /\ status # "SUSPENDED"

InForce == {s \in Suspensions : susp[s].at = "live" /\ susp[s].left > 0}
Newest(some) == CHOOSE s \in some : \A t \in some : t <= s

Known(i) == \E d \in Devices : row[d].id = i
LiveRow(r) == r.active /\ r.refresh
RefreshableByHash(i) == \E d \in Devices : row[d].id = i /\ row[d].refresh   \* a mutant
Refreshable(i) == \E d \in Devices : row[d].id = i /\ LiveRow(row[d])

(* The token strategy: the list, then the account.  It never looks at the  *)
(* session's row.                                                          *)
Accepted(i) == token[i] > 0 /\ list[i] = 0 /\ Usable

(* A handler's request; what it decides on is written a step later.        *)
Deciding(p) == h[p].at \in {"suspend", "change", "reactivate", "delete"}
Crossing(p) == (\E q \in Procs \ {p} : Deciding(q)) \/ sweep.at # "idle"

Ask(p, doing) ==
  /\ h[p] = Idle /\ asked < MaxAsked
  /\ asked' = asked + 1
  /\ h' = [h EXCEPT ![p] = doing]
  /\ UNCHANGED <<account, susp, sessions, sweep, faults, ended, barred, overtaken>>

AskDeciding(p, doing) == Ask(p, doing) /\ crossed' = (crossed \/ Crossing(p))

GoTo(p, step) == h' = [h EXCEPT ![p].at = step]
Rest(p) == h' = [h EXCEPT ![p] = Idle]

(* Writing isActive = false and a null refresh token.                      *)
EndRows(match) ==
  /\ row' = [d \in Devices |->
               IF match[d] THEN [row[d] EXCEPT !.active = FALSE, !.refresh = FALSE] ELSE row[d]]
  /\ ended' = ended \cup {row[d].id : d \in {e \in Devices : match[e] /\ row[e].id # 0}}

TtlShort == JWT_ACCESS_EXPIRY - 1                                 \* a mutant
Ttl == JWT_ACCESS_EXPIRY

-----------------------------------------------------------------------------
(* Signing in: the account is looked at, then createSession.               *)
SignIn(p, d) ==
  /\ \A e \in Devices : e < d => row[e].id # 0
  /\ Usable
  /\ Ask(p, [Idle EXCEPT !.at = "limit", !.for = d])
  /\ UNCHANGED crossed

Active == {d \in Devices : row[d].active}

Limit(p) ==
  /\ h[p].at = "limit"
  /\ IF Cardinality(Active) >= MAX_ACTIVE_SESSIONS
       THEN LET oldest == CHOOSE d \in Active : \A e \in Active : d <= e
            IN  h' = [h EXCEPT ![p].at = "evict", ![p].ids = {row[oldest].id}]
       ELSE GoTo(p, "create")
  /\ UNCHANGED <<account, susp, sessions, sweep, bounds, history>>

(* By id: when that row has another id by now, the update throws.          *)
Evict(p) ==
  /\ h[p].at = "evict"
  /\ EndRows([d \in Devices |-> row[d].id \in h[p].ids])
  /\ IF \E i \in h[p].ids : Known(i) THEN GoTo(p, "bar") ELSE Rest(p)
  /\ UNCHANGED <<account, susp, token, list, sweep, bounds, barred, overtaken, crossed>>

(* The upsert by device gives the row a new id and makes it live again.    *)
Create(p) ==
  /\ h[p].at = "create"
  /\ \E i \in Sids :
       /\ i \notin ended /\ ~Known(i) /\ \A j \in Sids : j < i => j \in ended \/ Known(j)
       /\ row' = [row EXCEPT ![h[p].for] = [id |-> i, active |-> TRUE, refresh |-> TRUE]]
       /\ token' = [token EXCEPT ![i] = JWT_ACCESS_EXPIRY]
       /\ ended' = ended \cup ({row[h[p].for].id} \ {0})
  /\ Rest(p)
  /\ UNCHANGED <<account, susp, list, sweep, bounds, barred, overtaken, crossed>>

(* Refreshing: the session, the account, then new tokens.                  *)
Refresh(p, i) ==
  /\ Refreshable(i)
  /\ Ask(p, [Idle EXCEPT !.at = "account", !.for = i])
  /\ UNCHANGED crossed

LookAtAccount(p) ==
  /\ h[p].at = "account"
  /\ IF Usable THEN GoTo(p, "rotate") ELSE Rest(p)
  /\ UNCHANGED <<account, susp, sessions, sweep, bounds, history>>

(* By id, whatever has become of the session.                              *)
Rotate(p) ==
  LET i == h[p].for
  IN  /\ h[p].at = "rotate"
      /\ row' = [d \in Devices |-> IF row[d].id = i THEN [row[d] EXCEPT !.refresh = TRUE] ELSE row[d]]
      /\ token' = IF Known(i) THEN [token EXCEPT ![i] = JWT_ACCESS_EXPIRY] ELSE token
      /\ overtaken' = IF Known(i) /\ i \in barred THEN overtaken \cup {i} ELSE overtaken
      /\ Rest(p)
      /\ UNCHANGED <<account, susp, list, sweep, bounds, ended, barred, crossed>>

-----------------------------------------------------------------------------
(* revoke(): one session, or (0) all; by the member or by staff.  The live *)
(* ones are read, then the rows are ended and each of those listed, in any *)
(* order.                                                                  *)
SignOut(p, i) ==
  /\ i = 0 \/ Known(i)
  /\ Ask(p, [Idle EXCEPT !.at = "find", !.for = i])
  /\ UNCHANGED crossed

Meant(p, d) == row[d].id # 0 /\ h[p].for \in {0, row[d].id}

Find(p) ==
  /\ h[p].at = "find"
  /\ h' = [h EXCEPT ![p].at = "end", ![p].rows = TRUE,
                    ![p].ids = {row[d].id : d \in {e \in Active : Meant(p, e)}}]
  /\ UNCHANGED <<account, susp, sessions, sweep, bounds, history>>

End(p) ==
  /\ h[p].at = "end" /\ h[p].rows
  /\ EndRows([d \in Devices |-> Meant(p, d)])
  /\ h' = [h EXCEPT ![p] = IF h[p].ids = {} THEN Idle ELSE [@ EXCEPT !.rows = FALSE]]
  /\ UNCHANGED <<account, susp, token, list, sweep, bounds, barred, overtaken, crossed>>

Bar(p) ==
  /\ h[p].at \in {"end", "bar"}
  /\ \E i \in h[p].ids :
       /\ list' = [list EXCEPT ![i] = Ttl]
       /\ barred' = barred \cup {i}
       /\ h' = [h EXCEPT ![p] =
                  IF h[p].ids # {i} \/ h[p].rows THEN [h[p] EXCEPT !.ids = @ \ {i}]
                  ELSE IF h[p].at = "bar" THEN [@ EXCEPT !.at = "create", !.ids = {}]
                  ELSE Idle]
  /\ UNCHANGED <<account, susp, row, token, sweep, bounds, ended, overtaken, crossed>>

(* The device list: the rows, and nothing put on the list.                 *)
Eject(ids) ==
  /\ ids # {} /\ asked < MaxAsked
  /\ asked' = asked + 1
  /\ \A i \in ids : Known(i)
  /\ EndRows([d \in Devices |-> row[d].id \in ids])
  /\ UNCHANGED <<account, susp, token, list, h, sweep, faults, barred, overtaken, crossed>>

-----------------------------------------------------------------------------
(* Staff.  Each looks first at whether this is a member still.             *)
Suspend(p, term) ==
  /\ ~gone /\ InForce = {}
  /\ AskDeciding(p, [Idle EXCEPT !.at = "suspend", !.term = term])

Free == {s \in Suspensions : susp[s].at = "none"}

WriteSuspension(p) ==
  /\ h[p].at = "suspend" /\ Free # {}
  /\ susp' = [susp EXCEPT ![CHOOSE s \in Free : \A t \in Free : s <= t] =
                             [at |-> "live", left |-> h[p].term]]
  /\ status' = "SUSPENDED"
  /\ h' = [h EXCEPT ![p] = [Idle EXCEPT !.at = "find"]]
  /\ UNCHANGED <<gone, sessions, sweep, bounds, history>>

(* Only a lifted one cannot be changed: one that is over and not yet swept *)
(* can.                                                                    *)
Change(p, s, term) ==
  /\ ~gone /\ susp[s].at = "live"
  /\ AskDeciding(p, [Idle EXCEPT !.at = "change", !.for = s, !.term = term])

WriteChange(p) ==
  /\ h[p].at = "change"
  /\ susp' = [susp EXCEPT ![h[p].for].left = IF susp[h[p].for].at = "live" THEN h[p].term ELSE @]
  /\ Rest(p)
  /\ UNCHANGED <<account, sessions, sweep, bounds, history>>

Lift(s) == susp' = IF s = 0 THEN susp ELSE [susp EXCEPT ![s] = [at |-> "lifted", left |-> 0]]

Reactivate(p) ==
  /\ ~gone /\ (InForce # {} \/ status = "SUSPENDED")
  /\ AskDeciding(p, [Idle EXCEPT !.at = "reactivate",
                                 !.for = IF InForce = {} THEN 0 ELSE Newest(InForce)])

WriteReactivation(p) ==
  /\ h[p].at = "reactivate"
  /\ Lift(h[p].for)
  /\ status' = "ACTIVE"
  /\ Rest(p)
  /\ UNCHANGED <<gone, sessions, sweep, bounds, history>>

(* The account is deleted, by its owner or on his behalf: one transaction. *)
Delete(p) ==
  /\ ~gone
  /\ AskDeciding(p, [Idle EXCEPT !.at = "delete"])

Anonymise(p) ==
  /\ h[p].at = "delete"
  /\ gone' = TRUE /\ status' = "SUSPENDED"
  /\ EndRows([d \in Devices |-> row[d].id # 0])
  /\ Rest(p)
  /\ UNCHANGED <<susp, token, list, sweep, bounds, barred, overtaken, crossed>>

(* Any handler may fail, or its process die, between two statements.       *)
Abandon(p) ==
  /\ h[p] # Idle
  /\ Rest(p)
  /\ UNCHANGED <<account, susp, sessions, sweep, bounds, history>>

-----------------------------------------------------------------------------
(* expireSuspensions: the ones that are over, then each in a transaction.  *)
Due == {s \in Suspensions : susp[s].at = "live" /\ susp[s].left = 0}

SweepList ==
  /\ sweep.at = "idle" /\ Due # {}
  /\ sweep' = [AtRest EXCEPT !.at = "next", !.due = Due]
  /\ crossed' = (crossed \/ \E p \in Procs : Deciding(p))
  /\ UNCHANGED <<account, susp, sessions, h, bounds, ended, barred, overtaken>>

NothingChecked(s) == s \in Suspensions                            \* a mutant
NothingLive(s) == {t \in Suspensions : susp[t].at = "live"} = {}  \* a mutant
NothingElse(s) == InForce \ {s} = {}

SweepLook ==
  /\ sweep.at = "next"
  /\ \E s \in sweep.due :
       sweep' = [sweep EXCEPT !.at = "commit", !.of = s, !.free = NothingElse(s)]
  /\ UNCHANGED <<account, susp, sessions, h, bounds, history>>

Swept ==
  LET rest == sweep.due \ {sweep.of}
  IN  IF rest = {} THEN AtRest ELSE [AtRest EXCEPT !.at = "next", !.due = rest]

SweepCommit ==
  /\ sweep.at = "commit"
  /\ Lift(sweep.of)
  /\ status' = IF sweep.free THEN "ACTIVE" ELSE status
  /\ sweep' = Swept
  /\ UNCHANGED <<gone, sessions, h, bounds, history>>

SweepFail ==
  /\ sweep.at = "commit" /\ faults < MaxFaults
  /\ faults' = faults + 1
  /\ sweep' = Swept
  /\ UNCHANGED <<account, susp, sessions, h, asked, history>>

Less(n) == IF n = 0 THEN 0 ELSE n - 1

Tick ==
  /\ token' = [i \in Sids |-> Less(token[i])]
  /\ list' = [i \in Sids |-> Less(list[i])]
  /\ susp' = [s \in Suspensions |->
                IF susp[s].left = Never THEN susp[s] ELSE [susp[s] EXCEPT !.left = Less(@)]]
  /\ UNCHANGED <<account, row, h, sweep, bounds, history>>

-----------------------------------------------------------------------------
Member(p) ==
  \/ \E d \in Devices : SignIn(p, d)
  \/ \E i \in Sids : Refresh(p, i)
  \/ \E i \in Sids \cup {0} : SignOut(p, i)
  \/ Delete(p)
Staff(p) ==
  \/ \E term \in {TERM, Never} : Suspend(p, term)
  \/ \E s \in Suspensions, term \in {TERM, Never} : Change(p, s, term)
  \/ Reactivate(p)
Step(p) ==
  \/ Limit(p) \/ Evict(p) \/ Create(p) \/ LookAtAccount(p) \/ Rotate(p) \/ Find(p) \/ End(p) \/ Bar(p)
  \/ WriteSuspension(p) \/ WriteChange(p) \/ WriteReactivation(p) \/ Anonymise(p) \/ Abandon(p)
Sweep == SweepList \/ SweepLook \/ SweepCommit

Next ==
  \/ \E p \in Procs : Member(p) \/ Staff(p) \/ Step(p)
  \/ \E ids \in SUBSET Sids : Eject(ids)
  \/ Sweep \/ SweepFail \/ Tick

Spec == Init /\ [][Next]_vars

(* The sweep runs every five minutes, and goes on.  Nothing is owed by the *)
(* handlers.                                                               *)
FairSpec == Spec /\ WF_vars(Sweep)

-----------------------------------------------------------------------------
(* Types.                                                                  *)
TypeOK ==
  /\ status \in {"ACTIVE", "SUSPENDED"} /\ gone \in BOOLEAN
  /\ susp \in [Suspensions -> [at : {"none", "live", "lifted"}, left : 0..Never]]
  /\ row \in [Devices -> [id : Sids \cup {0}, active : BOOLEAN, refresh : BOOLEAN]]
  /\ token \in [Sids -> 0..JWT_ACCESS_EXPIRY] /\ list \in [Sids -> 0..JWT_ACCESS_EXPIRY]
  /\ ended \subseteq Sids /\ barred \subseteq Sids /\ overtaken \subseteq barred
  /\ crossed \in BOOLEAN

(* Whoever was put on the revocation list is not let in on a token he had  *)
(* by then, however long he waits: the entry outlives every token.  Only a *)
(* refresh that was already under way can have made him a later one.       *)
SignedOutStaysOut == \A i \in barred : Accepted(i) => i \in overtaken

(* A session that was ended, by a sign-out, the limit, a suspension, a     *)
(* newer sign-in on the device or a deletion, cannot be refreshed, even    *)
(* when a refresh under way wrote a token into its row after that.         *)
EndedNeverRefreshes == \A i \in ended : ~Refreshable(i)

(* "A second, longer suspension issued while the first was running must    *)
(* not be undone by the first one expiring" (expireSuspensions): unless    *)
(* decisions overlap, the sweep lets nobody in whom another keeps out.     *)
ExpiryUndoesNothing ==
  [][sweep.at = "commit" /\ status = "SUSPENDED" /\ status' = "ACTIVE" /\ ~crossed
       => InForce \ {sweep.of} = {}]_vars

(* "A suspension that outlives its end date is the platform keeping        *)
(* somebody out by accident": it does not for ever.                        *)
SuspensionEnds ==
  status = "SUSPENDED" /\ ~gone /\ InForce = {} ~> status = "ACTIVE" \/ gone \/ InForce # {}
=============================================================================
