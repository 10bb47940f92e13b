------------------------------ MODULE AuditChain ------------------------------
(***************************************************************************)
(* The audit trail sealed into a chain of hashed segments, the check of    *)
(* the seals and the retention purge.                                      *)
(*                                                                         *)
(*   admin/audit/audit-chain.service.ts   run, seal, verify, purge         *)
(*   admin/audit/audit.service.ts         record                           *)
(*   admin/jobs/admin-jobs.service.ts     the nightly jobs                 *)
(*                                                                         *)
(* Nothing keeps two runs of a job apart, nor the two jobs: the schedule   *)
(* and a member of staff may start them together.  Every query of a run    *)
(* that another run could change is a step.                                *)
(*                                                                         *)
(* An entry is its number in the order of recording; a segment's hash is   *)
(* the sequence of the sets of entries sealed so far, which two segments   *)
(* share only when they seal the same history.                             *)
(***************************************************************************)
EXTENDS Naturals, Integers, Sequences, FiniteSets, FiniteSetsExt

CONSTANTS
  ChainRuns,     \* runs of audit.verify-chain in flight
  PurgeRuns,     \* runs of retention.purge in flight
  Lag,           \* SEAL_LAG_MS
  Span,          \* MAX_SEGMENT_SPAN_MS
  MaxRows,       \* MAX_SEGMENT_ROWS
  Retention,     \* AUDIT_YEARS
  RunTime,       \* no run takes this long
  MaxTime,       \* bound: the end of the clock
  RecordBy,      \* bound: when the last entry is recorded
  MaxEntries,    \* bound: entries
  MaxDeaths      \* bound: runs that die

ASSUME ChainAssumption ==
  /\ {Lag, Span, MaxRows, RunTime, Retention, MaxTime} \subseteq Nat \ {0}
  /\ {RecordBy, MaxEntries, MaxDeaths} \subseteq Nat
  /\ Retention > RunTime + Lag

VARIABLES
  now,           \* the clock
  recorded,      \* occurredAt of every entry recorded
  open,          \* entries whose transaction has not committed
  log,           \* audit_logs
  segments,      \* audit_chain_segments, in the order of seq
  truncated,     \* audit_chain_truncations: removedHash
  doing,         \* what each run is doing and what it has read
  deaths         \* runs that died so far

chainVars == <<now, recorded, open, log, segments, truncated, doing, deaths>>

Entry == 1..MaxEntries
Hash == Seq(SUBSET Entry)
Segment == [seq : Nat, from : Int, to : Int, rows : SUBSET Entry, prev : Hash]
HashOf(s) == Append(s.prev, s.rows)
Table == {segments[i] : i \in DOMAIN segments}

(* seen: the segments a verification still has to look at, or the newest   *)
(* one a purge is to remove, if any; to: where a window or a purge ends.   *)
At == {"idle", "last", "window", "insert", "segments", "links", "check", "mark",
       "cut", "entries", "truncate", "drop"}
Idle == [at |-> "idle", started |-> 0, from |-> 0, prev |-> <<>>, to |-> 0,
         rows |-> {}, seen |-> <<>>]

ChainInit ==
  /\ now = 1
  /\ recorded = <<>> /\ open = {} /\ log = {}
  /\ segments = <<>> /\ truncated = {}
  /\ doing = [r \in ChainRuns \cup PurgeRuns |-> Idle]
  /\ deaths = 0

-----------------------------------------------------------------------------
Busy == {r \in ChainRuns \cup PurgeRuns : doing[r].at # "idle"}
Sealed == UNION {s.rows : s \in Table}

Go(r, to) == doing' = [doing EXCEPT ![r] = to]
Stop(r) == Go(r, Idle)

(* record(): occurredAt is the moment of recording, the entry is seen when *)
(* its transaction commits (one that rolls back leaves nothing).           *)
Record ==
  /\ now <= RecordBy
  /\ Len(recorded) < MaxEntries
  /\ Cardinality({e \in DOMAIN recorded : recorded[e] = now}) < MaxRows
  /\ recorded' = Append(recorded, now)
  /\ open' = open \cup {Len(recorded')}
  /\ UNCHANGED <<now, log, segments, truncated, doing, deaths>>

Commit(e) ==
  /\ e \in open
  /\ open' = open \ {e}
  /\ log' = log \cup {e}
  /\ UNCHANGED <<now, recorded, segments, truncated, doing, deaths>>

(* What the code takes for granted of time: a transaction is over before   *)
(* the lag is, a run before RunTime, and the trail is never unsealed or    *)
(* quiet for anything like the retention.                                  *)
Recent(time) == time > now + 1 - (Retention - RunTime)
Tick ==
  /\ now < MaxTime
  /\ \A e \in open : recorded[e] > now + 1 - Lag
  /\ \A r \in Busy : doing[r].started > now + 1 - RunTime
  /\ \A e \in (log \cup open) \ Sealed : Recent(recorded[e])
  /\ segments # <<>> => Recent(segments[Len(segments)].to)
  /\ now' = now + 1
  /\ UNCHANGED <<recorded, open, log, segments, truncated, doing, deaths>>

-----------------------------------------------------------------------------
(* rowsIn(): the entries in (from, to], capped; a capped window ends       *)
(* before the instant of its last row, unless they all share that instant. *)
(* (No more than MaxRows entries do.)                                      *)
InRange(from, to) == {e \in log : from < recorded[e] /\ recorded[e] <= to}
UpTo(rows, time) == {e \in rows : recorded[e] <= time}
TimesOf(rows) == {recorded[e] : e \in rows}

Capped(rows) ==
  LET edge == Min({t \in TimesOf(rows) : Cardinality(UpTo(rows, t)) >= MaxRows})
      trimmed == UpTo(rows, edge - 1)
      kept == IF trimmed # {} THEN trimmed ELSE UpTo(rows, edge)
  IN  [rows |-> kept, to |-> Max(TimesOf(kept))]

RowsIn(from, to) ==
  LET rows == InRange(from, to)
  IN  IF Cardinality(rows) < MaxRows THEN [rows |-> rows, to |-> to] ELSE Capped(rows)

DayAfter(from, cutoff) == IF from + Span < cutoff THEN from + Span ELSE cutoff

(* The window to seal next; a day with nothing in it is skipped.           *)
FirstDay(from, cutoff) == RowsIn(from, DayAfter(from, cutoff))    \* a mutant
NextWindow(from, cutoff) ==
  LET first == RowsIn(from, DayAfter(from, cutoff))
      later == InRange(from, cutoff)
  IN  IF first.rows = {} /\ later # {}
        THEN RowsIn(from, DayAfter(Min(TimesOf(later)), cutoff))
        ELSE first

CutoffNow(started) == started                                     \* a mutant
Cutoff(started) == started - Lag

-----------------------------------------------------------------------------
StartChain(r) ==
  /\ doing[r].at = "idle"
  /\ Go(r, [Idle EXCEPT !.at = "last", !.started = now])
  /\ UNCHANGED <<now, recorded, open, log, segments, truncated, deaths>>

(* seal(): the newest segment, or the first entry of the trail.            *)
SealLast(r) ==
  LET from == IF segments # <<>> THEN segments[Len(segments)].to
                                 ELSE Min(TimesOf(log)) - 1
      prev == IF segments # <<>> THEN HashOf(segments[Len(segments)]) ELSE <<>>
  IN
  /\ doing[r].at = "last"
  /\ IF (segments = <<>> /\ log = {}) \/ from >= Cutoff(doing[r].started)
       THEN Go(r, [Idle EXCEPT !.at = "segments", !.started = doing[r].started])
       ELSE Go(r, [doing[r] EXCEPT !.at = "window", !.from = from, !.prev = prev])
  /\ UNCHANGED <<now, recorded, open, log, segments, truncated, deaths>>

SealWindow(r) ==
  LET window == NextWindow(doing[r].from, Cutoff(doing[r].started)) IN
  /\ doing[r].at = "window"
  /\ IF window.rows = {}
       THEN Go(r, [Idle EXCEPT !.at = "segments", !.started = doing[r].started])
       ELSE Go(r, [doing[r] EXCEPT !.at = "insert", !.rows = window.rows, !.to = window.to])
  /\ UNCHANGED <<now, recorded, open, log, segments, truncated, deaths>>

(* prev_hash and from_occurred_at are unique; no two NULLs are alike.      *)
UniqueNowhere(from, prev) == from \in Int /\ prev \in Hash        \* a mutant
Unique(from, prev) ==
  \A s \in Table : s.from # from /\ (prev # <<>> => s.prev # prev)

NextSeq == IF segments = <<>> THEN 1 ELSE segments[Len(segments)].seq + 1

(* A run that loses the race fails; one that reaches the cutoff, or has    *)
(* sealed MAX_SEGMENTS_PER_RUN, verifies; another seals on.                *)
SealInsert(r) ==
  LET mine == doing[r] IN
  /\ mine.at = "insert"
  /\ IF Unique(mine.from, mine.prev)
       THEN /\ segments' = Append(segments, [seq |-> NextSeq, from |-> mine.from,
                             to |-> mine.to, rows |-> mine.rows, prev |-> mine.prev])
            /\ \/ Go(r, [Idle EXCEPT !.at = "segments", !.started = mine.started])
               \/ /\ mine.to < Cutoff(mine.started)
                  /\ Go(r, [Idle EXCEPT !.at = "last", !.started = mine.started])
       ELSE Stop(r) /\ UNCHANGED segments
  /\ UNCHANGED <<now, recorded, open, log, truncated, deaths>>

-----------------------------------------------------------------------------
(* verify(): the segments, then the truncations.                           *)
VerifySegments(r) ==
  /\ doing[r].at = "segments"
  /\ Go(r, [doing[r] EXCEPT !.at = "links", !.seen = segments])
  /\ UNCHANGED <<now, recorded, open, log, segments, truncated, deaths>>

FirstLinked(first) == first.prev = <<>> \/ first.prev \in truncated
Linked(chain) ==
  /\ chain # <<>> => FirstLinked(chain[1])
  /\ \A i \in DOMAIN chain : i > 1 => chain[i].prev = HashOf(chain[i - 1])

(* The newest segment is due and, on their day of the rotation, any others:*)
(* the chain from the next that is.                                        *)
DueFrom(chain) == {SubSeq(chain, i, Len(chain)) : i \in DOMAIN chain}

VerifyLinks(r) ==
  /\ doing[r].at = "links"
  /\ IF doing[r].seen = <<>> THEN Stop(r)
     ELSE \E due \in DueFrom(doing[r].seen) :
            Go(r, [doing[r] EXCEPT !.at = "check", !.seen = due])
  /\ UNCHANGED <<now, recorded, open, log, segments, truncated, deaths>>

Intact(s) == RowsIn(s.from, s.to).rows = s.rows

NextCheck(r) ==
  IF Len(doing[r].seen) = 1 THEN Stop(r)
  ELSE \E due \in DueFrom(Tail(doing[r].seen)) :
         Go(r, [doing[r] EXCEPT !.at = "check", !.seen = due])

VerifyCheck(r) ==
  /\ doing[r].at = "check"
  /\ IF Intact(Head(doing[r].seen)) THEN Go(r, [doing[r] EXCEPT !.at = "mark"]) ELSE NextCheck(r)
  /\ UNCHANGED <<now, recorded, open, log, segments, truncated, deaths>>

(* verifiedAt; the update of a segment that is gone fails the run.         *)
VerifyMark(r) ==
  /\ doing[r].at = "mark"
  /\ IF Head(doing[r].seen) \in Table THEN NextCheck(r) ELSE Stop(r)
  /\ UNCHANGED <<now, recorded, open, log, segments, truncated, deaths>>

-----------------------------------------------------------------------------
StartPurge(r) ==
  /\ doing[r].at = "idle"
  /\ Go(r, [Idle EXCEPT !.at = "cut", !.started = now])
  /\ UNCHANGED <<now, recorded, open, log, segments, truncated, deaths>>

Boundary(started) == started - Retention

(* unsealedBound()                                                         *)
UnsealedBound(boundary) ==
  IF segments # <<>> /\ segments[1].from < boundary THEN segments[1].from ELSE boundary

(* purge(): the newest segment past the boundary, and how far to delete.   *)
Newest(past) == {s \in past : \A other \in past : other.seq <= s.seq}

PurgeCut(r) ==
  LET boundary == Boundary(doing[r].started)
      past == {s \in Table : s.to <= boundary}
  IN
  /\ doing[r].at = "cut"
  /\ IF past = {}
       THEN Go(r, [doing[r] EXCEPT !.at = "entries", !.to = UnsealedBound(boundary)])
       ELSE \E cut \in Newest(past) :
              Go(r, [doing[r] EXCEPT !.at = "entries", !.seen = <<cut>>, !.to = cut.to])
  /\ UNCHANGED <<now, recorded, open, log, segments, truncated, deaths>>

(* deleteEntries(): batch after batch, the oldest first.                   *)
ExpiredBefore(to) == {e \in log : recorded[e] < to}               \* a mutant
Expired(to) == InRange(0, to)
Oldest(to) == {e \in Expired(to) : recorded[e] = Min(TimesOf(Expired(to)))}

PurgeEntries(r) ==
  /\ doing[r].at = "entries"
  /\ \/ \E e \in Oldest(doing[r].to) : log' = log \ {e} /\ UNCHANGED doing
     \/ /\ Expired(doing[r].to) = {}
        /\ IF doing[r].seen = <<>> THEN Stop(r) ELSE Go(r, [doing[r] EXCEPT !.at = "truncate"])
        /\ UNCHANGED log
  /\ UNCHANGED <<now, recorded, open, segments, truncated, deaths>>

ExplanationOfPrev(cut) == {cut.prev}                              \* a mutant
Explanation(cut) == {HashOf(cut)}

PurgeTruncate(r) ==
  /\ doing[r].at = "truncate"
  /\ truncated' = truncated \cup Explanation(Head(doing[r].seen))
  /\ Go(r, [doing[r] EXCEPT !.at = "drop"])
  /\ UNCHANGED <<now, recorded, open, log, segments, deaths>>

(* The segments up to a seq are the first ones.                            *)
UpToSeq(seq) ==
  {k \in 0..Len(segments) : \A i \in DOMAIN segments : segments[i].seq <= seq <=> i <= k}

PurgeDrop(r) ==
  /\ doing[r].at = "drop"
  /\ \E k \in UpToSeq(Head(doing[r].seen).seq) :
       segments' = SubSeq(segments, k + 1, Len(segments))
  /\ Stop(r)
  /\ UNCHANGED <<now, recorded, open, log, truncated, deaths>>

(* The process of a run dies.                                              *)
Killed(r) ==
  /\ r \in Busy
  /\ deaths < MaxDeaths
  /\ deaths' = deaths + 1
  /\ Stop(r)
  /\ UNCHANGED <<now, recorded, open, log, segments, truncated>>

-----------------------------------------------------------------------------
Seal(r) == SealLast(r) \/ SealWindow(r) \/ SealInsert(r)
Verify(r) == VerifySegments(r) \/ VerifyLinks(r) \/ VerifyCheck(r) \/ VerifyMark(r)
Purge(r) == PurgeCut(r) \/ PurgeEntries(r) \/ PurgeTruncate(r) \/ PurgeDrop(r)

ChainNext ==
  \/ Record \/ (\E e \in open : Commit(e)) \/ Tick
  \/ \E r \in ChainRuns : StartChain(r) \/ Seal(r) \/ Verify(r) \/ Killed(r)
  \/ \E r \in PurgeRuns : StartPurge(r) \/ Purge(r) \/ Killed(r)

ChainSpec == ChainInit /\ [][ChainNext]_chainVars

(* Every night both jobs are started, and a run that has begun goes on     *)
(* unless its process dies.  Nothing makes entries be recorded.            *)
Fairness ==
  /\ WF_chainVars(Tick) /\ WF_chainVars(\E e \in open : Commit(e))
  /\ \A r \in ChainRuns : WF_chainVars(StartChain(r) \/ Seal(r) \/ Verify(r))
  /\ \A r \in PurgeRuns : WF_chainVars(StartPurge(r) \/ Purge(r))
ChainFairSpec == ChainSpec /\ Fairness

-----------------------------------------------------------------------------
(* Types of the tables and of what the runs have read.                     *)
ChainTypeOK ==
  /\ now \in 1..MaxTime /\ deaths \in 0..MaxDeaths
  /\ recorded \in Seq(1..MaxTime) /\ Len(recorded) <= MaxEntries
  /\ open \subseteq DOMAIN recorded /\ log \subseteq DOMAIN recorded /\ open \cap log = {}
  /\ segments \in Seq(Segment) /\ truncated \subseteq Hash
  /\ doing \in [ChainRuns \cup PurgeRuns ->
                  [at : At, started : 0..MaxTime, from : Int, prev : Hash, to : Int,
                   rows : SUBSET Entry, seen : Seq(Segment)]]

(* "The chain is left with one link": whatever runs overlap, each segment  *)
(* follows the one before it, by hash and without a gap in time, and the   *)
(* first follows nothing or what a truncation accounts for.                *)
OneChain ==
  /\ \A i \in DOMAIN segments : i > 1 => segments[i].from = segments[i - 1].to
  /\ \A i \in DOMAIN segments : i > 1 => segments[i].prev = HashOf(segments[i - 1])
  /\ segments # <<>> => FirstLinked(segments[1])

(* "Verification treats a first segment with an unexplained predecessor as *)
(* a broken link": no run, however the purge cuts into its two reads, is   *)
(* about to report one.                                                    *)
NoBrokenLink == \A r \in ChainRuns : doing[r].at = "links" => Linked(doing[r].seen)

(* Within the retention a sealed stretch holds the rows it was sealed      *)
(* over: none late, none lost at a cap's edge, none cut out by a purge     *)
(* whose boundary falls inside it.                                         *)
SealedForGood ==
  \A s \in Table : s.to > now - Retention => InRange(s.from, s.to) = s.rows

(* A verification overlapping anything reports a difference only in a      *)
(* stretch that a purge may be taking away.                                *)
AlarmsPastRetention ==
  \A r \in ChainRuns : doing[r].at = "check" =>
    Intact(Head(doing[r].seen)) \/ Head(doing[r].seen).to <= now - Retention

(* Again and again every entry is sealed but the latest, those younger     *)
(* than the lag and a run: over quiet days, capped windows, lost races and *)
(* runs that die.                                                          *)
Unsealed == {e \in log : recorded[e] + Lag + RunTime <= now + 1} \ Sealed
EntriesGetSealed == []<>(Unsealed = {})

(* Again and again nothing is left that is past the retention by more than *)
(* a segment's span and a run, after a purge that died as well.            *)
Overkept == {e \in log : recorded[e] + Retention + Span + RunTime <= now + 1}
RetentionKept == []<>(Overkept = {})
=============================================================================
