# Circl API: a verification project

TLA+ models of the parts of the Circl API (NestJS, Prisma, PostgreSQL, Redis, BullMQ) whose
correctness depends on the order in which things happen, the TLC runs that check them on small
instances, and the theorems TLAPS proves about them for every instance. Paths in this file are
relative to `src/src/modules/` unless they begin with `prisma/` or `src/`.

## Reading the models

A module models the rows of one table, or of a few, and the handlers that read and write them.
An HTTP handler, a scheduled job or a queue's job is a process; `call`, `run` or `client` is what it is
doing and what it has read. It is cut into steps where another process can come between: between two
queries, and between a query and a transaction. Three rules, all of them PostgreSQL's at READ
COMMITTED, decide where the cuts are:

- a transaction's writes are one step, its commit, because nobody sees them earlier; what comes between
  two of its statements either waits for a row it holds, or has the same effect before it or after it;
- a read inside a transaction is a step of its own when the write that follows depends on it and takes
  no lock that protects it;
- an update whose WHERE repeats the condition that was checked is one step with the check.

Unique indexes are guards; an error is the end of the process with whatever it had committed. Texts,
names, prices beyond the few figures a property tells apart, notifications nobody reads back, paging,
permissions checked on values that do not change, and logging are left out. Definitions named as
mutants (`\* a mutant`) are plausible slips of the definition that follows them; they are used by no
specification and exist to show that each property can fail.

## The system

| part | state it keeps | operations | what is hard |
|---|---|---|---|
| service requests (professionals, admin) | a request's state, an offer per professional | ask, cancel, offer, accept, decline, withdraw, outcome, expiry | acceptances racing for the last place; staff and members on old reads |
| deals | terms, step rows, a problem | propose, replace, withdraw, mark steps, correct a figure, flag, settle | two sides on old reads of terms and steps, double taps |
| idempotency keys | one row per user, key and endpoint | reserve, take over, record, give back, sweep | retries against slow or dead attempts |
| audit trail | entries, hashed segments, truncations | record, seal, verify, purge | overlapping jobs, runs that die, late commits, the retention's edge |
| announcements | the announcement, a delivery row per member and channel | schedule, send, cancel, fan out, resume | queue retries, cancellation under way, a run that never returns |
| staff roles | roles, credentials | invite, change role, deactivate | the last super admin |
| bookings, disputes | a booking's state, its events, the listing's counter | the client's and the professional's moves, auto-complete, dispute | both sides and the nightly job on old reads |
| enquiries (orders) | an order's state, its reference | place, accept, ready, receive, cancel, expire | the same; references from a count |
| groups | memberships, invitations, a counter, a thread | join, approve, invite, remove, leave | the counter, the last admin, a removal undone |
| connection requests | a request per direction, cooldown | ask, accept, decline, withdraw | two members asking each other; withdraw against accept |
| reports, queue, appeals, enforcement | reports, cases, queue items, appeals, strikes | report, claim, decide, reopen, appeal, overturn | one case per target, one decision, undoing it in parts |
| guard | check-ins and their cases | start, check in, raise, resolve | a missed check-in against a late one |
| messaging | conversations, messages, cursors, presence | open, post, read, mute, block | one thread per pair, order, several servers |
| media | upload rows, objects, derived data | request, confirm, attach, derive, sweep | a sweep against an attachment |
| content and message safety | a verdict per text | scan, rescan, review | a verdict for a text already edited |
| listings, their review, category verification | listings, revisions, documents | edit, submit, review | a revision submitted during a review |
| accounts, sessions, sign-in (members and staff) | users, sessions, the revocation list in Redis | sign in, rotate, revoke, delete, restore | reuse of a rotated token, the session limit, the grace period |
| exports (staff and members) | a row and a file | ask, build, expire | a retry against the sweep |
| community posts, stores, connect profiles, reviews, notifications | one owner's rows, counters | edit, react, rate | counters |
| search, taxonomy, intelligence, analytics, content pages | read models | query, score | none: pure functions of what the others wrote |
| platform and staff jobs | a history row per run | the nightly and hourly sweeps | overlapping runs; modelled with each table |
| infrastructure | PostgreSQL, Redis, BullMQ, cron | | modelled by what the services rely on |

How they interact: every part writes through Prisma to one PostgreSQL; sweeps are cron calls into the
service that owns the table; announcements, exports and safety scans go through BullMQ (at least once,
several attempts, a job id that drops duplicates); matches, bookings, deals and orders post system
messages into a conversation inside their own transaction; notifications and the member's activity are
raised after the commit and never awaited; staff actions write their audit entry in the transaction of the
action; `Idempotency-Key` wraps the handlers that create things.

The hazards of `PROJECT.json` carry the line at which each bites and the properties that watch over it.

### Properties a part owes

| part | what makes it correct | where it is stated |
|---|---|---|
| service requests | the cap holds, one introduction, an acceptance stands, everything out is answered | ServiceRequests |
| deals | a record of ticks that only grows, what was agreed stands, done means paid and fulfilled | Deals, DealRecord |
| idempotency keys | applied once per answer that was not lost, the same answer to all, nobody locked out | Idempotency |
| audit trail | one chain, no false alarm inside the retention, everything sealed and purged | AuditChain |
| announcements | one fan-out, a cancellation stops it, SENT means everybody, no send stays under way | Announcements |
| sessions, enforcement, deletion | who is out stays out, an expiry undoes nothing else, a suspension ends | Accounts |
| reports, cases, appeals | one live case per target, no report lost, everybody told once, an overturned decision undone | ReportCases |
| groups | rows, thread and counter agree, a removal is final | Groups |
| bookings, orders, disputes | a dispute pauses, a job counts once, seven days to answer, silence closes | Jobs |
| staff roles | a super admin always remains | planned: AdminTeam |
| connection requests | one pending request per pair, an answer stands, the daily limit | planned: Connections |
| exports | an export that settled stays settled, its file is not swept under a reader | planned: Exports |
| media | an attached upload is not swept | planned: Media |
| messaging | one thread per pair and context, cursors only advance | planned: Conversations |
| listings' review | what was approved is what was reviewed | planned: ListingReview |

## What is modelled

### ServiceRequests: "let Circl handle it"

Code: `platform/professionals/services/service-request.service.ts` and
`service-request-offer.service.ts`, `admin/services/admin-service-request.service.ts`.

State: a request's `state`; each offer's `status` (`offer`, one per request and professional) and
whether its 72 hours are over (`lapsed`); the row lock `accept` takes on the request (`lock`); the threads
opened about a request (`threads`) with the introductions posted in them (`intros`); the notices sent to
the member (`told`) and to the professional (`buzzed`). `call` is what each handler in flight is doing and
what it has read.

| code | actions |
|---|---|
| `create`, `cancel` | `Create`, `Cancel` (its update repeats the state it checked) |
| `accept` | `AcceptRead`, `AcceptLock`, `AcceptReread`, `AcceptCount`, `AcceptWrite`, `AcceptTell`, `AcceptFilled` |
| `decline` | `DeclineRead`, `DeclineWrite` |
| `withdrawOffer` | `WithdrawOffer` (guarded update) |
| staff's `offer` | `OfferRead`, `OfferCheck`, `OfferRecount`, `OfferWrite`, `OfferTell` |
| staff's `sendOutcome` | `OutcomeRead`, `OutcomeCount`, `OutcomeWrite` |
| `runExpiry`, the clock | `RunExpiry`, `Lapse` |
| a crash, a dropped connection, a deadlock's victim | `Fail`, at any step of any handler |

A deadlock's victim is real: an outcome of NONE locks offers first and the request second, `accept` the
other way round.

Abstract specification: `Introductions` says what the flow promises without handlers, locks or rows: a
professional takes a request on and is introduced in one step, never past the cap; the member is told once;
an acceptance may later be dropped. `ImplementsIntroductions` is the refinement.

Two handlers, two professionals and a cap of one are the smallest instance in which the last place is
contended; the cap is only ever compared with the count, so a larger one adds states and no case, and the
theorems hold for every cap. Requests share nothing but the handlers.

Fairness (SRLive): the sweep is a cron that runs hourly, 72 hours pass, a handler that has begun runs on
(weak), and PostgreSQL serves the waiters for a row in turn (strong fairness of `AcceptLock`). `Fail`,
`Create` and the arrival of calls are not fair.

Proved, for every set of requests and handlers, any finite set of professionals and any cap:
`TypeCorrect`, `CapAlwaysRespected`, `AlwaysIntroducedOnce`, `AlwaysToldOnce`, `OnlyDeclineEverUndoes`,
`Implements`. The cap is not inductive by itself, since a handler writes on a count it took earlier. The
strengthening `Inv` adds: between lock and commit a handler owns the row (`LockOwned`), so the count it took
still bounds the acceptances (`CountHolds`); a thread once opened is never forgotten (`ThreadsAgree`), so an
offer that was ever accepted is not introduced again, even after a stale decline has overwritten its
status; and an introduction is announced by the one handler that made it (`TellOnce`). `Quiet` describes a
step that neither locks, introduces nor announces, `QuietInv` shows that it keeps the invariant, and three
lemmas say which actions are quiet; the others have a lemma each.

What the comments promise and an overlap breaks. Each of these holds for handlers one after another, and none
is a property of a run, because the code does not keep it when two overlap:

- no more contacts than the cap (`service-request-offer.service.ts:28`): a decline read before an acceptance
  and written after it (223) frees a place that an introduced professional already filled;
- an offer accepted too late ends REVOKED (136-138): that write is rolled back by the exception that follows
  it in the same transaction;
- a match is not undone: staff's `offer` decides on the state it read first (484 of the staff service), so an
  offer begun while the request was SUBMITTED turns a match made meanwhile back into MATCHING, after which the
  request is withdrawable again although somebody accepted;
- "nobody" means nobody: `sendOutcome` counts acceptances at 587, outside the transaction that writes NO_MATCH
  at 640;
- a professional is notified once: who had an offer already is read at 433, before the rows are written; two
  presses of the button overlap and each notifies.

### Deals

Code: `platform/deals/deal-spine.ts`, `platform/deals/services/deal.service.ts`,
`admin/services/admin-dispute.service.ts` (`resolveProblem`), `prisma/models/deals.prisma`.

`DealSpine` is the pure part: the order of a deal's steps as a function of its terms and of what the thread
is about, whose each step is, which confirms which. `Deals` holds the `row`, the `step` rows by stage, and
for each handler the row it read (`saw`). No handler locks anything and no update repeats what was checked,
so each is a load, one or two checks and a write; `load()` is two SELECTs, and where the steps matter they
are read in a step of their own.

| code | actions |
|---|---|
| `propose` | `Propose` |
| `replaceTerms` | `ReplaceLoad`, `ReplaceWrite` |
| `cancel` | `CancelLoad`, `CancelWrite` |
| `markSteps` | `MarkLoad`, `MarkCheck`, `MarkWrite` |
| `correctAmount` | `CorrectLoad`, `CorrectCheck`, `CorrectWrite` |
| `flagProblem`, `resolveProblem` | `FlagLoad`, `FlagWrite`, `ResolveLoad`, `ResolveWrite` |
| a refusal, a failure, a crash | `Abandon` |

Abstract specification: `DealRecord` is the record the two sides share: a tick is never taken back nor
repeated, nobody ticks the other side's box, and no box is ticked before its predecessors under some terms
the two could have been dealing on. `KeepsARecord` is the refinement, and it holds whatever overlaps.

`late` and `crossed` are history. A handler becomes late when a mark is written that forbids what it has already
decided on: AGREED for a replacement or a withdrawal, the confirmation of the figure for a correction. `crossed`
says that a replacement was written while somebody was marking, or late.

Bounds (DealHandlers): one price, a deposit or none, one figure: the code compares figures with each other and adds
them, nothing else. Two handlers are enough for one to read before the other's write and to write after it.
`CHECK_DEADLOCK FALSE` because a withdrawn deal really stops.

`InSpineOrder`, `AgreementStands` and the others are checked under every overlap. The first speaks of deals in which
no replacement met a marking; the second allows a change of what was agreed, or of a confirmed figure, to a late
handler alone, so that every refusal the code makes on a read that is still true is covered.

Proved, for every set of figures and handlers and without further hypotheses: `TypeCorrect`, `RecordKept` (the
refinement), `DoneAlwaysComplete`, `AlwaysInSpineOrder` and `AgreementAlwaysStands`. `IInv` adds that the flag
agrees with the AGREED step (`Agreement`), that every mark has
its predecessors under some terms (`Backed`), that every mark is its own side's (`Own`), that a handler about
to write asks for stages it may mark with their predecessors marked or asked (`Asked`), and that nothing
happens before the deal exists (`Unborn`). `DoneIsComplete` follows because all spines have the same first
and last stage and contain the payment and the fulfilment blocks (`SpineOrder`), whatever terms the two
handlers had in hand.

The last two need to know what a handler still knows to be so when it writes. `Timely`: one that is about to replace
or withdraw and is not late stands before a deal that is not agreed, one about to correct before a figure that is not
confirmed. `TermsInv`: unless a replacement has met a marking, the marks are in the spine's order (`Ordered`) and whoever
is marking holds the terms in force (`TermsHeld`); a withdrawal changes neither. What late handlers do, each shown
by a step that the properties name as their exception:

- a correction checked before the provider confirms and written after it rewrites a confirmed figure (294 of
  the deal service, against 254-255);
- `cancel` writes at 425 on a check of `isAgreedByBoth` made before the other side agreed, so an agreed deal is
  withdrawn;
- `replaceTerms` writes at 377 on the same stale check: the side that accepted becomes the one that proposed, or
  the marks are no longer a beginning of the spine.

And one that no property speaks of: staff settle a problem (539 of the dispute service) on a read (519) older than a
second flag, whose text and time the settlement then covers. The model has the steps, the code repeats no check,
and no document says which of the two is to win. Not modelled: the queries, the earnings total among them.

### Idempotency

Code: `src/common/interceptors/idempotency.interceptor.ts` and the sweep in
`platform/jobs/platform-jobs.service.ts`.

One user, key and endpoint. `row` is the record, at most one; each client's attempt reads it, creates it or
takes it over, runs the handler, and records the answer or gives the key back. A client that was told to wait,
or told nothing, sends again. `effects`, `lost` and `receipts` are history: how often the action was applied
in the key's window, how many answers were lost, which answers went out.

`Read` is `reserve`'s first query with the branches on what it finds; `Create` the insert with its unique
violation; `Take` the guarded takeover; `Apply`/`Refuse` the handler; `RecordAnswer`, `FailToRecord`,
`GiveBack`, `FailToGiveBack` the ways out; `Die` the process at any step; `FailLate` a handler that throws
after its commit; `GrowOld`, `Expire`, `Sweep` the five minutes, the day and the nightly deletion. `GrowOld`
does not age a reservation whose holder is still running, which is the assumption the constant's comment
makes.

Three clients are needed: one that abandons the key, one that takes it over, and one that meant to. Two bodies
let a request differ from the first. Two deaths let the takeover be abandoned in its turn. Fairness: a client
that was not answered sends again and its process goes on, and the clock moves; crashes, expiry and the sweep
are not fair. `CHECK_DEADLOCK FALSE`: everybody answered and the row swept is the end.

Proved, for every set of clients and bodies and any number of deaths: `TypeCorrect`, `AlwaysOneOwner`,
`AlwaysAppliedOnce`, `AlwaysOneAnswer`, `AnswerAlwaysStands`. `IInv`: whoever runs the handler holds the row
with his stamp, unanswered (`HoldsTheRow`); stamps only grow (`StampsPass`), so a takeover that was overtaken
finds another stamp (`TakesTheAbandoned`); the count is exact (`Accounted`: applications are the lost ones, the
recorded one and the one being recorded), of which `AppliedOnce` is a consequence; and the answers given out
are the lost ones and the recorded one (`AnswersKnown`).

The gap the header's promise (83, 125) leaves: the answer is recorded after the handler's commit, in another
statement (109, 122, 128), so a crash, a failed update or a late exception lets the retry apply the action
again. `AppliedOnce` says exactly that much: applications exceed one only by the answers that were lost.

### AuditChain

Code: `admin/audit/audit.service.ts` (`record`), `admin/audit/audit-chain.service.ts` (`seal`, `verify`,
`purge`), the two jobs of `admin/jobs/admin-jobs.service.ts` and `retention-purge.service.ts` that run them.

An entry is stamped when it is recorded and seen when it commits. `segments` is the table in the order of
`seq`; a hash is the sequence of the sets of entries sealed so far, so two hashes agree exactly when the
histories do. A run of the chain job seals (`SealLast`, `SealWindow`, `SealInsert`, again and again) and then
verifies (`VerifySegments`, `VerifyLinks`, `VerifyCheck`, `VerifyMark`); a run of the purge is `PurgeCut`,
`PurgeEntries` batch by batch, `PurgeTruncate`, `PurgeDrop`. `Killed` ends a run anywhere. `RowsIn` is the capped
window, `NextWindow` skips an empty day, `Unique` the two unique indexes (with PostgreSQL's rule that no two
NULLs conflict). Verification on a day of the month is any choice of segments besides the newest.

The clock counts steps of which a lag, a segment's span and a run take one, and the retention five. `Tick`
states what the code takes for granted of time: a transaction is over before the lag is, a run before
`RunTime`, and the trail is never unsealed or quiet for anything like the retention (years, in the code). Without
the last, a purge may empty the trail, and two runs that then make a first segment both do: NULL is no duplicate
of NULL. At most `MaxRows` entries share an instant, since the cap falls back to a whole instant.

Bounds (AuditNights): two runs of the chain job, one of the purge, three entries in the first four instants
(so that a window is capped, a day is empty, and entries expire apart), a clock of seven (past the
retention of the first entry and of its segment), one death. Fairness: the jobs are started every night, a
run that has begun goes on, transactions commit, the clock moves; nothing makes entries be recorded, and
deaths are not fair. `EntriesGetSealed` and `RetentionKept` say "again and again" because a run that dies may
leave both to the next night.

What the comments promise and the code does not keep: a purge that dies is to leave a truncation row "which
verification ignores" (424-425), but entries go first (417), so what it leaves is segments over missing rows,
which verification reports until a later purge drops them; that is why `AlarmsPastRetention` speaks of the
retention. `seq % 30` is compared with the day of the month (332, 86), so some residues are skipped in February;
and a backlog of more than MAX_SEGMENTS_PER_RUN days (77) takes several nights, which the clock's assumption
covers.

The lag is what keeps an uncommitted entry from appearing behind a seal; the mutant of `SealedForGood` is a
cutoff without it.

Proved, for every number of runs of the two jobs, of entries and of deaths, any clock, lag, span, cap and any retention
longer than a run and the lag together: `ChainTypeCorrect`, `AlwaysOneChain`, `NeverABrokenLink`,
`AlwaysSealedForGood`, `AlarmsOnlyPastRetention`. None is inductive. `ChainInv` adds:

- `Clock`: what is not sealed is recent, and so is the end of the last segment;
- `Chain`: besides `SealedForGood`, each segment follows the one before it (`Joined`) with growing `seq`
  (`Ordered`), each ends behind the lag and holds rows of its own stretch that the cap does not cut when they are read again
  (`WellSealed`, `Snug`), and the first follows nothing or a truncation: `Joined` and this are `OneChain`;
- `Sealing`: a run that seals holds the end of the chain and its window as it read it, or has lost the race and will
  be refused by `Unique`;
- `Verifying`: what a verification read is linked, and each of its segments is still there or past the retention;
- `Purging`: a purge cuts between two segments, both on their own side of the cut and the last one never off, and
  before it drops anything it has explained it.

A step that neither seals nor drops (`Ongoing`) keeps `Chain` for one reason; `SealInsert` and `PurgeDrop` are the
two that have an argument of their own. With the hypothesis on the retention, a purge reaches neither an entry that
has yet to commit nor the segment a run is sealing after. The proofs are in `AdminProofs`, together with those of
Announcements, and the names of AuditChain's specification begin with `Chain` so that one module can extend both.

### Announcements

Code: `admin/comms/admin-announcement.service.ts`, `announcement.queue.ts`, `announcement.processor.ts`,
`announcement-fanout.service.ts`.

State: the announcement's `state` and stored `audience`; a `delivery` row per member; the one `job` whose id is
the announcement's, with its attempts, its stalls and its lock; `call` per staff request, `run` per worker. `got`
and `late` are history: the mails each member had, and the batches a worker began since the last cancellation.

| code | actions |
|---|---|
| `send`, `schedule`, `update`, `cancel` | `Ask` (the read and the checks), `Write` (by id), `Unqueue`, `Enqueue` |
| the processor and `fanOut` | `Take`, `Read`, `Begin`, `Check` (the state, then the next batch), `Finish`, `Break` (the catch), `Return`, `Throw` |
| `deliver` | `Create` (`createMany`), `Mail` or `MailNot` per member, `Mark` |
| BullMQ: delays, stalled jobs | `Due`, `Stall` |
| faults | `Abandon` (a staff request), `Die`, `LoseLock`, `BreakUnsaid` (an exception outside the try, or in the catch) |

`Add`, `Remove`, `Complete`, `Reject` and `Stalled` say what BullMQ promises and nothing more: a job id that
exists drops the addition, an active job cannot be removed, a job is handed out again when its lock is lost and
fails at the second stall or the last attempt.

Bounds (AnnFanout): two members in batches of one, one of them opted out and an audience below the floor of two,
two attempts, two staff requests, two workers, one fault. Two batches are needed for a cancellation between them,
two workers for a lost lock. Fairness: a live worker goes on, a waiting job is taken, a delay passes, the stalled
check runs; staff and faults are not fair.

Proved, for every finite set of members, batch size, number of attempts, workers and faults: `TypeCorrect`,
`FanoutsAreOne`, `CancelAlwaysStops`, `SentIsComplete`. `IInv`: runs that do not hold the lock are at most as many
as the faults (`FewStrays`), a run in a cancelled announcement may begin only the batch it had decided on
(`Stopped`), and whoever is behind a run's cursor and not in its batch was answered (`Reached`). The step of the
last is `Batch`: it holds the first members ahead of the cursor, so that its greatest member leaves nobody behind,
for which a finite set of numbers is shown to have a greatest element.

Not kept by the code: a resumed fan-out mails again whoever was reached, since the loop at 241 of the fan-out
service asks nobody's row (54-56 promise otherwise); the writes by id (132, and those of the staff handlers)
overwrite a cancellation that commits after the read; and a send that finds an earlier job still active queues
nothing. One channel is modelled; templates, the preview and the counters on the page are not.

### Accounts

Code: `core/auth` (`session.service.ts`, `auth.service.ts`, `verification.service.ts`, `account-state.service.ts`,
`jwt.strategy.ts`), `platform/shared/services/session-revocation.service.ts`,
`admin/services/admin-member-action.service.ts`, `enforcement.service.ts`,
`platform/account/services/account-deletion.service.ts`.

State: the member's `status` and whether the account is `gone`; the suspensions `susp`; the session `row` of each
device; what is left of each session's access `token`; the revocation `list` in Redis, with what is left of each
entry; `h` per handler and the expiry `sweep`. Time is what is left; `Tick` takes one from everything.

| code | actions |
|---|---|
| signing in, `createSession` | `SignIn`, `Limit`, `Evict`, `Create` |
| refreshing | `Refresh`, `LookAtAccount`, `Rotate` (by id) |
| `revoke`, by the member or staff | `SignOut`, `Find`, `End`, `Bar` (rows and list entries in any order) |
| the device list | `Eject` |
| `suspend`, changing a suspension, `reactivate` | `Suspend`/`WriteSuspension`, `Change`/`WriteChange`, `Reactivate`/`WriteReactivation` |
| deletion | `Delete`, `Anonymise` |
| `expireSuspensions` | `SweepList`, `SweepLook`, `SweepCommit`, `SweepFail` |
| a failure, a crash | `Abandon` |

Bounds (AccHandlers): two handlers, two devices under a limit of one session, so that the limit ends one; two
session ids; two suspensions, with an end and without; four requests; one failure of the sweep; a token and a
term of one tick, since only their being over matters. Fairness: the sweep (a cron every five minutes) runs and
goes on; handlers owe nothing.

Proved, for every number of devices, ids, suspensions and ticks: `TypeCorrect`, `EndedIsEnded`, `SignedOutIsOut`,
`ExpiryIsHarmless`. `IInv`: a session has one row (`Distinct`), a row of an ended session is inactive
(`EndedRowsDie`, which is why a refresh under way that writes a token into it revives nothing), sessions on the list
have existed (`BarredSeen`), and an entry has at least as long to go as the token it is there for (`Outlasts`), the
consequence of the entry's TTL being the token's. For `ExpiryIsHarmless` (`EInv`): until decisions overlap, none is
under way while the sweep is, so that when it commits, the suspension that it found to be the only one in force
still is (`SweepAlone`).

Not kept by the code, or worth knowing: a refresh under way at a revocation mints a token that outlives the list's
entry (`overtaken` names exactly these); a new sign-in on a device replaces the session's id, so the old one is
never listed, and the device list ends rows without listing them: both leave the access token its minutes. An
expiry overlapping an extension lifts the extended suspension; two overlapping `suspend`s both write, and
`reactivate` lifts only the newest; an expiry or a reactivation can write ACTIVE on an anonymised account; a
suspension that is over and not yet swept can be extended beside a new one (765 of the member-action service,
against 675-677). `crossed` marks the overlaps, and `ExpiryUndoesNothing` speaks of the rest. Not modelled: codes
and lockout, registration, social sign-in, the hash and the thirty days of a refresh token, strikes' thresholds,
push devices.

### ReportCases

Code: `platform/moderation/services/moderation.service.ts`, `report-case.service.ts`, `report-priority.ts`,
`admin/services/admin-report-case.service.ts`, `admin-appeal.service.ts`,
`admin/content/admin-content.service.ts` (removing and restoring), `prisma/models/moderation.prisma`.

State: whether the content is `removed`, the `case`s and `report`s about it, the queue `item` and the case it links
to, the strikes that a case still `cost`s the author, one `appeal`, and `h` per handler.

| code | actions |
|---|---|
| `report`, the intake | `File`, `Intake` (`Place` is its decision), `Filed`, `Open`, `LostTheCaseRace` (the retry after the unique index) |
| claim, release, assign | `Handle`, `Handled` |
| `decide` and what follows it | `Decide`, `Decided`, `Enforce`, then `Tell`, `MarkTold`, or `Silent` when the reviewer asked for no notices |
| `reopen` | `Reopen`, `Reopened` |
| the content page | `Page`, `PageRemoved`, `PageRestored` |
| appeals | `Log`/`Logged`, `Hear`/`Heard`, `UndoCase`, `RevokeStrikes` |
| a failure, a crash | `Abandon` |

Bounds (RCHandlers): two handlers, two members, two cases (one decided, one live), three reports, six requests; two
new reporters reopen a dismissal. The members and the handlers are interchangeable.

Proved, for every set of members and handlers and any number of cases and reports: `TypeCorrect`,
`AlwaysOneLiveCase`, `AlwaysNoReportLost`, `AlwaysToldOnce`. The argument of the first is element by element: no two
cases are live (`Unique`), since an action that makes one live does so past the partial unique index and writes that
case alone. The other two need `Serial`, which says what holds until two handlers overlap: one handler is under way
(`Alone`), what it read is still so (`AsRead`), every unanswered report but the late ones and those of closed cases is
led to (`Kept`), and whoever was told was told once and has an answer (`Told`). `AsRead` contains, of a
handler about to mark its notices, that it holds exactly the reports of its case not yet told.

`OneLiveCase` holds however handlers overlap. `NoReportLost` and `ToldOnce` hold one after another: an
overlapping report and decision can leave an unanswered report on a decided case. `ToldOnce` says that the notices of a
decision reach every reporter of its case who has not been told, that over all decisions of a case nobody is told
twice, and nobody before an answer. The content page (602 of the content service) and an overturned appeal close cases
without answering their reports, and `NoReportLost` names these. A claim by id can un-decide a case, and an
appeal on an older case restores content that a later case removed.

RCSettled and RCOverturned are the findings. A report that intake answers from a case decided before (107-117 of the
case service) is never told: the comment at 226 of the moderation service leaves it to the notices, which only
`decide` sends and which went out before the report was there. TLC's counterexample is one decision, its notices, and a
report by another member. `reviewed` tells such reports from those a decision answered.

RCOverturned: `undoCase` (360 of the appeal service) restores the content only if the case still
carries the decision to remove it, and a reopening clears that decision (613 of the case service). The comment
(346) says that the content comes back; TLC's counterexample, one handler at a time, ends with an overturned appeal
and the content down.

Not modelled: who holds a claim, priorities and counts, guard cases, blocks.

### Groups

Code: `platform/community/services/group.service.ts`, `prisma/models/enums.prisma`.

State: each user's `state` in the group, who is `invited`, the conversation's participants (`thread`),
`memberCount`, the policy, and `h` per handler. `welcome` (invited since last removed), `crossed` (two handlers
about one member overlapped) and `late` (handlers that read before the removal of the member they are about) are
history. A handler reads, checks and keeps what it read; its transaction is one
step and repeats no check.

| code | actions |
|---|---|
| `join`, `leave`, `answerInvitation` (accepting is joining) | `Join`/`Joined`, `Leave`/`Left`, `Decline`/`Declined` |
| `decideJoinRequest`, `removeMember`, `invite` | `DecideJoinRequest`/`DecidedJoinRequest`, `RemoveMember`/`RemovedMember`, `Invite`/`Invited` |
| `update` (the policy), `remove` | `Update`/`Updated`, `Remove`/`RemovedGroup` |

Bounds (GroupHandlers): the creator and two others, two handlers, seven requests, which is enough for a member to
ask, be removed, be invited and return while another joins.

Proved, for every finite set of users and any number of handlers: `TypeCorrect`, `BooksAlwaysAgree`,
`RemovedIsOut`. `IInv`: while no two handlers about one member have overlapped, no two are about the same member
(`Alone`) and what a handler read of its member still stands (`Fresh`), so that its entry or exit is counted
exactly once. Whatever overlaps, whoever is invited is welcome, and a handler that is not late still has before it
the removal it read, or none (`HasRead`); so `RemovalIsFinal` holds under every overlap: a removal ends by an
invitation given since, or by the write of a late handler.

Broken by an overlap about one member: two joins or two approvals each count; a departure or a removal that read
PENDING while the approval commits leaves him in thread and counter; a departure on an older read deletes the
removal that only an invitation may undo (the late handler of `RemovalIsFinal`). An invited member whose request is
PENDING stays PENDING when he accepts
(675, 692). Nothing makes a second admin, so the creator can leave only when alone (807).

### Jobs

Code: `platform/professionals/services/booking.service.ts`, `dispute.service.ts`,
`platform/commerce/services/enquiry.service.ts`, `admin/services/admin-dispute.service.ts`, and `closeOpenWork` of
`platform/account/services/account-deletion.service.ts`.

State: a job's `state`, its `deadline` (none, ahead, passed), its event `stages`, its `dispute`s, the counter on the
listing, whether the provider's account is `gone`, and `h` per handler. `BookingMoves` and `OrderMoves` are the
moves that the handlers ask of `transition()`.

| code | actions |
|---|---|
| creating a booking, placing an order | `CreateBooking`/`CreateBookingWrite`, `CreateOrder`/`CreateOrderWrite` |
| accept, decline, start, deliver, request changes, complete, cancel | `Transition`, `TransitionWrite` |
| raising a dispute | `OpenDispute`, `OpenDisputeWrite` |
| staff's handling of it | `Handle`, `HandleWrite` |
| closing the account | `CloseAccount`, `CloseOpenWork` |
| the hourly sweeps, time | `AutoComplete`, `AutoCompleteOne`, `Expire`, `Pass` |
| a failure, a crash | `Fail` |

The jobs are one provider's; a client's closing is the same code over other rows. Bounds (JobHandlers): a booking and
an order, two handlers, seven requests (two of which create the jobs), two disputes about each, which is enough to
deliver, be asked for changes,
deliver again and be disputed. Fairness: deadlines pass, the sweeps run hourly, a handler that has begun ends (weak),
and a sweep that fails is repeated until it does not (strong fairness of `AutoCompleteOne`).

Proved, for every finite set of jobs and any number of handlers: `TypeCorrect`, `AlwaysPausedUnderReview`,
`AlwaysSevenDays`, `AlwaysCountedOnce`. Two parts of these hold however handlers overlap: nothing is due before its seven
days are over, and no booking that reached DONE is missed by the counter. The rest is of jobs that no two handlers
were about at once. `IInv`: of a job not crossed over, one handler at most is about it (`Alone`),
what that one read still holds when it writes (`Fresh`), and a deadline that has passed was waited for (`Waited`). For
the counter, `NoneMissed` says that it is never behind (a move to DONE counts in the transaction that writes the stage),
and `Counted` adds: while no booking was crossed over, a booking that reached DONE is COMPLETED or DISPUTED
(`DoneIsOver`), which no move leaves, and a booking stands as its handler read it until that one writes
(`StillAsRead`), so that a move to COMPLETED is the first.

Broken by two handlers about one job: a completion overwrites a request for changes, a move ends the pause, the
counter goes up twice (the client completes beside the sweep), two disputes are live, the sweep completes what went
back for changes after it was listed. By one: the shop or listing is read before the transaction that creates the job,
so a job may appear under an account that has just been closed; nothing moves a job out of DISPUTED after settlement (346 of
the staff service), a dispute may be raised in any state (DISPUTABLE_STATES is only for the screen), closing an
account writes no event on orders, and the second of two orders placed together is refused by the unique reference
(enquiry 687, a count plus one). `requestChanges` leaves `autoCompleteAt` alone; `SevenDaysToAnswer` shows that a
new delivery nevertheless starts seven days.

## Runs

| run | instance | distinct states | properties | ends in |
|---|---|---|---|---|
| SRHandlers | 2 professionals, 2 handlers, cap 1 | 1902456 | TypeOK, CapRespected, OnlyDeclineUndoes, ImplementsIntroductions | success |
| SRLive | 1 professional, 2 handlers, fairness | 33835 | OffersSettle, AcceptAnswered | success |
| DealHandlers | 2 handlers, both tracks, deposit or none | 1251679 | TypeOK, DoneIsComplete, InSpineOrder, KeepsARecord, AgreementStands | success |
| IdemKeys | 3 clients, 2 bodies, 2 deaths, fairness | 660414 | OneOwner, AppliedOnce, OneAnswer, AnswerStands, NobodyLockedOut | success |
| AuditNights | 2 chain runs, 1 purge, 3 entries, 1 death, fairness | 150706 | OneChain, NoBrokenLink, SealedForGood, AlarmsPastRetention, EntriesGetSealed, RetentionKept | success |
| AnnFanout | 2 members, 2 staff requests, 2 workers, 2 attempts, 1 fault, fairness | 377685 | OneFanoutAtATime, CancelStopsTheRest, SentMeansEveryone, QueuedSendEnds | success |
| AccHandlers | 2 handlers, 2 devices, 2 suspensions, 4 requests, 1 fault, fairness | 557197 | SignedOutStaysOut, EndedNeverRefreshes, ExpiryUndoesNothing, SuspensionEnds | success |
| RCHandlers | 2 handlers, 2 members, 2 cases, 3 reports, 6 requests | 669350 | OneLiveCase, NoReportLost, ToldOnce | success |
| GroupHandlers | 2 handlers, 3 users, 7 requests | 142512 | BooksAgree, RemovalIsFinal | success |
| JobHandlers | 2 handlers, 1 booking, 1 order, 7 requests, 2 disputes, fairness | 351232 | PausedUnderReview, JobsCountedOnce, SevenDaysToAnswer, SilenceCloses | success |
| RCSettled | 1 handler, 2 members, 2 cases | to the counterexample | SettledIsTold | violation |
| RCOverturned | 1 handler, 1 member, 2 cases | to the counterexample | OverturnedIsUndone | violation |

Every property of a passing run has a mutant: a slip in one definition under which the same run finds the property
violated. `CHECK_DEADLOCK FALSE` in a configuration stands for a bound on requests, or a row with nothing left to
do: the system then rests.

## Proved, and only checked

`ServiceRequestsProofs`, `DealsProofs`, `IdempotencyProofs`, `AdminProofs` (Announcements and AuditChain),
`AccountsProofs`, `ReportCasesProofs`, `GroupsProofs` and `JobsProofs` hold the theorems. Each states an inductive
invariant, shows that it holds at first and that every step keeps it, by one lemma per action or group of actions, and
derives each theorem from it; the sections above say what the invariant adds and why. Every invariant and every
action property of a passing run is the conclusion of a theorem, and so are the two refinements.

The assumptions are those named in the modules (`ConstantsAssumption`, `ChainAssumption`): professionals, members,
users and jobs are finitely many; bounds, caps and the floor are natural numbers; the batch, the attempts, and the terms
and tokens are at least one; everybody is an audience; the creator is a user; prices are positive, deposits and figures
natural, "no deposit" is among the deposits; `NoCall` is no handler; there is a body to send; a lag, a span, a run and a
window's rows are at least one, and the retention is longer than a run and the lag together. The theorems have no other
hypotheses. Where a promise holds only until two handlers meet, the property itself says so, by a history variable
(`crossed`, `late`) that records the meeting.

Only model-checked: liveness under fairness (`OffersSettle`, `AcceptAnswered`, `NobodyLockedOut`, `EntriesGetSealed`,
`RetentionKept`, `QueuedSendEnds`, `SuspensionEnds`, `SilenceCloses`), which is out of the prover's reach, and
`OverturnedIsUndone` and `SettledIsTold`, which do not hold.

## Hazards without a property

| where | what | planned property |
|---|---|---|
| `admin/services/admin-service-request.service.ts:484` | staff write on what they read before; told under ServiceRequests | none: the code does not keep the promises |
| `admin/services/admin-service-request.service.ts:634` | an outcome of NONE and an acceptance lock offers and request in opposite orders; told under ServiceRequests | none: PostgreSQL aborts one, a failure like any other |
| `admin/services/admin-dispute.service.ts:519` | a problem is settled on a read older than a second flag; told under Deals | none: the code does it |
| `admin/services/admin-dispute.service.ts:346` | settling a dispute leaves the job DISPUTED for good; told under Jobs | none: no transition leaves it |
| `admin/common/admin-policy.service.ts:85` | two super admins who deactivate each other both pass a lock that covers the role rows only | KeepsASuperAdmin |
| `platform/connect/services/connection-request.service.ts:91` | two members ask each other at once | OnePendingPerPair |

The survey found others in parts that are not modelled:

| where | what | planned property |
|---|---|---|
| `platform/connect/services/connection-request.service.ts:324` | accept and withdraw both checked PENDING: accepted though withdrawn, or withdrawn with its thread open | AnswerStands |
| `platform/connect/services/connection-request.service.ts:146` | the day's requests are counted before the new one is there | DailyLimit |
| `admin/exports/admin-export-runner.service.ts:114` | READY is written without looking again at the state checked at 99 | SettledExportStands |
| `platform/deals/services/deal.service.ts:207` | AGREED carries no version of the terms: a client that shows old ones accepts whatever the row holds | outside the server's code |
| `admin/audit/audit.service.ts:177` | the tip of the chain is cached for a minute and per process | none: the code accepts it and nothing reads the anchor back |

## Plan

In this order:

1. **AdminTeam**: `KeepsASuperAdmin` for demotions, whose lock and re-check hold, and the two deactivations that it
   does not cover. Small enough to be proved for any number of staff.
2. **Connections**: `OnePendingPerPair`, `AnswerStands`, `DailyLimit`.
3. **Exports**: the queue of Announcements with another consumer and a sweep.
4. **Media**, **ListingReview**, **Conversations** as far as they pay.
5. An abstract job, moved along the allowed edges, that bookings and orders both implement.

Proofs: `KeepsASuperAdmin` and `OnePendingPerPair` with their modules, and the refinements of the abstract job.

## Not modelled

The parts of the first table above without a section, each with its reason in `PROJECT.json`: most are forms with
one writer, queries, or pure functions of what others wrote; the others are in the plan. The models follow a
handler's control and leave out its texts, its validation and what it looks up to show, which is most of its lines.
Within the modelled parts: reading endpoints; permission checks; the category of a service request; the superseded
brief endpoints that write the same table; messages and notices that nothing reads back (those that count are
modelled); the digest of an audit row and rows edited behind the application's back; the anchor of an entry to the
cached tip; the job history; the retention purge's other tables; requests without an idempotency key; and what each
section names.
