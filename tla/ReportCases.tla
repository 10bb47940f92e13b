----------------------------- MODULE ReportCases -----------------------------
(***************************************************************************)
(* The reports members file about one piece of content, the cases staff    *)
(* decide, the queue item that leads to the case, the content page beside  *)
(* them, and the appeal against a decision.                                *)
(*                                                                         *)
(*   platform/moderation/services: moderation.service.ts,                  *)
(*   report-case.service.ts, report-priority.ts;  admin/services:          *)
(*   admin-report-case.service.ts, admin-appeal.service.ts;                *)
(*   admin/content/admin-content.service.ts                                *)
(*                                                                         *)
(* A handler is what it reads, then what it writes; a transaction's writes *)
(* are one step, at its commit, and repeat none of the checks made on what *)
(* was read.  What is left to whoever works with it (who holds a claim,    *)
(* which manager steps in) is open here: any live case may be decided.     *)
(* Cases and reports are numbered in the order they are created.           *)
(***************************************************************************)
EXTENDS Naturals, FiniteSets

CONSTANTS
  Procs,                        \* handlers that may be under way at once
  Members,                      \* members who report
  MaxCases, MaxReports, MaxAsked,   \* bounds: cases, reports, requests
  REOPEN_AFTER_NEW_REPORTERS

ASSUME ConstantsAssumption ==
  /\ {MaxCases, MaxReports, MaxAsked, REOPEN_AFTER_NEW_REPORTERS} \subseteq Nat
  /\ MaxCases > 0

Cases == 1..MaxCases
Reports == 1..MaxReports

VARIABLES
  removed,     \* the content is taken down
  case,        \* the cases about it
  report,      \* the reports about it
  item, link,  \* the queue item, and the case whose queueItemId it is
  cost,        \* the cases for which the author still has a strike
  appeal,      \* the appeal against a decision, and the case it is about
  h,           \* what each handler is doing, and what it has read
  asked,
  closed,      \* history: cases the content page or an appeal has closed
  crossed      \* history: handlers overlapped, or one was broken off

vars == <<removed, case, report, item, link, cost, appeal, h, asked, closed, crossed>>
queue == <<item, link>>

NoCase == [state |-> "none", decision |-> "none", dated |-> FALSE, again |-> FALSE]
NoReport == [by |-> "nobody", case |-> 0, state |-> "none", late |-> FALSE, reviewed |-> FALSE,
             told |-> 0]
Idle == [at |-> "idle", by |-> "nobody", case |-> 0, what |-> "none", saw |-> FALSE,
         retry |-> FALSE, who |-> {}]

Init ==
  /\ removed = FALSE
  /\ case = [c \in Cases |-> NoCase]
  /\ report = [r \in Reports |-> NoReport]
  /\ item = "none" /\ link = 0
  /\ cost = {}
  /\ appeal = [of |-> 0, state |-> "none"]
  /\ h = [p \in Procs |-> Idle]
  /\ asked = 0
  /\ closed = {} /\ crossed = FALSE

-----------------------------------------------------------------------------
Live == {c \in Cases : case[c].state \in {"OPEN", "IN_REVIEW"}}
Latest == Cardinality({c \in Cases : case[c].state # "none"})     \* 0: there is none
NewCase == Latest + 1
NewReport == 1 + Cardinality({r \in Reports : report[r].state # "none"})

(* report_cases_open_target_idx: a second live case is refused.            *)
RefusedNever(c) == c \notin Cases                                 \* a mutant
Refused(c) == Live \ {c} # {}

Of(c) == {r \in Reports : report[r].case = c}

(* A handler begins with what it reads.                                    *)
Ask(p, doing) ==
  /\ h[p] = Idle /\ asked < MaxAsked
  /\ asked' = asked + 1
  /\ h' = [h EXCEPT ![p] = doing]
  /\ crossed' = (crossed \/ \E q \in Procs \ {p} : h[q] # Idle)
  /\ UNCHANGED <<removed, case, report, queue, cost, appeal, closed>>

GoTo(p, step) == h' = [h EXCEPT ![p].at = step]
Rest(p) == h' = [h EXCEPT ![p] = Idle]

(* It fails, or its process dies, between two statements.                  *)
Abandon(p) ==
  /\ h[p] # Idle
  /\ Rest(p)
  /\ crossed' = TRUE
  /\ UNCHANGED <<removed, case, report, queue, cost, appeal, asked, closed>>

-----------------------------------------------------------------------------
(* A member reports.  Nothing new is written while one of his is open.     *)
File(p, m) ==
  /\ \A r \in Reports : report[r].by = m => report[r].state # "RECEIVED"
  /\ Ask(p, [Idle EXCEPT !.at = "look", !.by = m, !.saw = removed])

(* How many have come forward since the dismissal, counting this one.      *)
NewReporters(c, m) ==
  Cardinality({m} \cup {report[r].by : r \in {s \in Of(c) : report[s].state = "RECEIVED"}})

(* What intake makes of the report; afresh: it is urgent, or the dismissal *)
(* is a week old.  A case the reopening left undated does not stand.       *)
PlaceLatest(m, saw, afresh) ==                                    \* a mutant
  IF Latest # 0 THEN <<"join", Latest>> ELSE <<"open", 0>>
Place(m, saw, afresh) ==
  CASE Live # {} -> <<"join", CHOOSE c \in Live : TRUE>>
    [] Live = {} /\ Latest # 0 /\ case[Latest].state = "ACTIONED" /\ saw -> <<"settle", Latest>>
    [] /\ Live = {} /\ Latest # 0 /\ case[Latest].state = "DISMISSED" /\ case[Latest].dated
       /\ ~afresh /\ NewReporters(Latest, m) < REOPEN_AFTER_NEW_REPORTERS -> <<"late", Latest>>
    [] OTHER -> <<"open", 0>>

Intake(p) ==
  /\ h[p].at = "look"
  /\ \E afresh \in BOOLEAN :
       LET place == Place(h[p].by, h[p].saw, afresh)
       IN  h' = [h EXCEPT ![p].at = "file", ![p].what = place[1], ![p].case = place[2]]
  /\ UNCHANGED <<removed, case, report, queue, cost, appeal, asked, closed, crossed>>

(* The item goes back on the pile, and its link to the case it is about.   *)
Attach(c) == item' = "PENDING" /\ link' = c

Write(p, c, state, late) ==
  report' = [report EXCEPT ![NewReport] =
               [NoReport EXCEPT !.by = h[p].by, !.case = c, !.state = state, !.late = late]]

Filed(p) ==
  /\ h[p].at = "file" /\ h[p].what \in {"join", "settle", "late"}
  /\ NewReport \in Reports
  /\ Write(p, h[p].case, IF h[p].what = "settle" THEN "ACTIONED" ELSE "RECEIVED", h[p].what = "late")
  /\ IF h[p].what = "join" THEN Attach(h[p].case) ELSE UNCHANGED queue
  /\ Rest(p)
  /\ UNCHANGED <<removed, case, cost, appeal, asked, closed, crossed>>

Open(p) ==
  /\ h[p].at = "file" /\ h[p].what = "open"
  /\ NewReport \in Reports
  /\ NewCase \in Cases
  /\ ~Refused(NewCase)
  /\ case' = [case EXCEPT ![NewCase].state = "OPEN"]
  /\ Write(p, NewCase, "RECEIVED", FALSE)
  /\ Attach(NewCase)
  /\ Rest(p)
  /\ UNCHANGED <<removed, cost, appeal, asked, closed, crossed>>

(* It lost the race: everything is rolled back, and tried once more.       *)
LostTheCaseRace(p) ==
  /\ h[p].at = "file" /\ h[p].what = "open" /\ Live # {}
  /\ h' = [h EXCEPT ![p] = IF @.retry THEN Idle
                           ELSE [@ EXCEPT !.at = "look", !.what = "none", !.retry = TRUE]]
  /\ UNCHANGED <<removed, case, report, queue, cost, appeal, asked, closed, crossed>>

-----------------------------------------------------------------------------
(* Staff.  A claim, a release or an assignment writes the state by id.     *)
Handle(p, c, state) ==
  /\ c \in Live
  /\ Ask(p, [Idle EXCEPT !.at = "handle", !.case = c, !.what = state])

Handled(p) ==
  /\ h[p].at = "handle"
  /\ case' = IF Refused(h[p].case) THEN case ELSE [case EXCEPT ![h[p].case].state = h[p].what]
  /\ Rest(p)
  /\ UNCHANGED <<removed, report, queue, cost, appeal, asked, closed, crossed>>

Decide(p, c, decision) ==
  /\ c \in Live
  /\ Ask(p, [Idle EXCEPT !.at = "decide", !.case = c, !.what = decision, !.saw = link = c])

Outcome(decision) == CASE decision = "REMOVE_AND_WARN" -> "ACTIONED"
                       [] decision = "NO_ACTION" -> "DISMISSED"
                       [] decision = "ESCALATE_GUARD" -> "ESCALATED"

Decided(p) ==
  LET c == h[p].case
      answer == IF h[p].what = "NO_ACTION" THEN "DISMISSED" ELSE "ACTIONED"
  IN  /\ h[p].at = "decide"
      /\ removed' = (removed \/ h[p].what = "REMOVE_AND_WARN")
      /\ report' = [r \in Reports |-> IF r \in Of(c)
                                        THEN [report[r] EXCEPT !.state = answer, !.late = FALSE,
                                                                  !.reviewed = TRUE]
                                        ELSE report[r]]
      /\ item' = IF h[p].saw THEN "RESOLVED" ELSE item
      /\ case' = [case EXCEPT ![c] = [@ EXCEPT !.state = Outcome(h[p].what), !.decision = h[p].what,
                                               !.dated = TRUE]]
      /\ GoTo(p, IF h[p].what = "REMOVE_AND_WARN" THEN "enforce" ELSE "tell")
      /\ UNCHANGED <<link, cost, appeal, asked, closed, crossed>>

Enforce(p) ==
  /\ h[p].at = "enforce"
  /\ cost' = cost \cup {h[p].case}
  /\ GoTo(p, "tell")
  /\ UNCHANGED <<removed, case, report, queue, appeal, asked, closed, crossed>>

(* Everybody who reported it and was not told: told, then marked as told.  *)
UntoldAll(c) == Of(c)                                             \* a mutant
Untold(c) == {r \in Of(c) : report[r].told = 0}

Tell(p) ==
  /\ h[p].at = "tell"
  /\ h' = [h EXCEPT ![p].at = "mark", ![p].who = Untold(h[p].case)]
  /\ UNCHANGED <<removed, case, report, queue, cost, appeal, asked, closed, crossed>>

(* The reviewer decided without a notice.                                  *)
Silent(p) ==
  /\ h[p].at = "tell"
  /\ Rest(p)
  /\ UNCHANGED <<removed, case, report, queue, cost, appeal, asked, closed, crossed>>

MarkTold(p) ==
  /\ h[p].at = "mark"
  /\ report' = [r \in Reports |-> IF r \in h[p].who /\ report[r].told < 2
                                    THEN [report[r] EXCEPT !.told = @ + 1] ELSE report[r]]
  /\ Rest(p)
  /\ UNCHANGED <<removed, case, queue, cost, appeal, asked, closed, crossed>>

Reopen(p, c) ==
  /\ case[c].state \in {"ACTIONED", "DISMISSED"} /\ case[c].dated
  /\ Ask(p, [Idle EXCEPT !.at = "reopen", !.case = c])

Reopened(p) ==
  LET c == h[p].case
  IN  /\ h[p].at = "reopen"
      /\ case' = IF Refused(c) THEN case
                 ELSE [case EXCEPT ![c] = [state |-> "IN_REVIEW", decision |-> "none",
                                           dated |-> FALSE, again |-> TRUE]]
      /\ Rest(p)
      /\ UNCHANGED <<removed, report, queue, cost, appeal, asked, closed, crossed>>

-----------------------------------------------------------------------------
(* The content page: it answers what is open, the reports aside, and puts  *)
(* back what staff removed.                                                *)
Page(p, what) ==
  /\ removed = (what = "restore")
  /\ Ask(p, [Idle EXCEPT !.at = "page", !.what = what])

PageRemoved(p) ==
  /\ h[p].at = "page" /\ h[p].what = "remove"
  /\ removed' = TRUE
  /\ item' = IF item = "none" THEN item ELSE "RESOLVED"
  /\ case' = [c \in Cases |-> IF c \in Live
                THEN [case[c] EXCEPT !.state = "ACTIONED", !.decision = "REMOVE_CONTENT", !.dated = TRUE]
                ELSE case[c]]
  /\ closed' = closed \cup Live
  /\ Rest(p)
  /\ UNCHANGED <<report, link, cost, appeal, asked, crossed>>

PageRestored(p) ==
  /\ h[p].at = "page" /\ h[p].what = "restore"
  /\ removed' = FALSE
  /\ Rest(p)
  /\ UNCHANGED <<case, report, queue, cost, appeal, asked, closed, crossed>>

-----------------------------------------------------------------------------
(* One appeal: logged, decided, and what an overturned one undoes.         *)
Log(p, c) ==
  /\ appeal.state = "none" /\ case[c].state \in {"ACTIONED", "ESCALATED"}
  /\ Ask(p, [Idle EXCEPT !.at = "log", !.case = c])

Logged(p) ==
  /\ h[p].at = "log"
  /\ appeal' = IF appeal.state = "none" THEN [of |-> h[p].case, state |-> "OPEN"] ELSE appeal
  /\ Rest(p)
  /\ UNCHANGED <<removed, case, report, queue, cost, asked, closed, crossed>>

Hear(p, outcome) ==
  /\ appeal.state = "OPEN"
  /\ Ask(p, [Idle EXCEPT !.at = "hear", !.case = appeal.of, !.what = outcome])

Heard(p) ==
  /\ h[p].at = "hear"
  /\ appeal' = [appeal EXCEPT !.state = h[p].what]
  /\ IF h[p].what = "OVERTURNED" THEN GoTo(p, "undo") ELSE Rest(p)
  /\ UNCHANGED <<removed, case, report, queue, cost, asked, closed, crossed>>

UndoCase(p) ==
  LET c == h[p].case
  IN  /\ h[p].at = "undo"
      /\ removed' = (removed /\ case[c].decision \notin {"REMOVE_CONTENT", "REMOVE_AND_WARN"})
      /\ case' = [case EXCEPT ![c].state = "DISMISSED", ![c].decision = "NO_ACTION"]
      /\ closed' = closed \cup {c}
      /\ GoTo(p, "revoke")
      /\ UNCHANGED <<report, queue, cost, appeal, asked, crossed>>

RevokeStrikes(p) ==
  /\ h[p].at = "revoke"
  /\ cost' = cost \ {h[p].case}
  /\ Rest(p)
  /\ UNCHANGED <<removed, case, report, queue, appeal, asked, closed, crossed>>

-----------------------------------------------------------------------------
Member(p) == (\E m \in Members : File(p, m)) \/ Intake(p) \/ Filed(p) \/ Open(p) \/ LostTheCaseRace(p)
Reviewer(p) ==
  \/ \E c \in Cases, state \in {"OPEN", "IN_REVIEW"} : Handle(p, c, state)
  \/ \E c \in Cases, d \in {"REMOVE_AND_WARN", "NO_ACTION", "ESCALATE_GUARD"} : Decide(p, c, d)
  \/ \E c \in Cases : Reopen(p, c)
  \/ Handled(p) \/ Decided(p) \/ Enforce(p) \/ Tell(p) \/ Silent(p) \/ MarkTold(p) \/ Reopened(p)
ContentPage(p) ==
  (\E what \in {"remove", "restore"} : Page(p, what)) \/ PageRemoved(p) \/ PageRestored(p)
Appeals(p) ==
  \/ \E c \in Cases : Log(p, c)
  \/ \E outcome \in {"UPHELD", "OVERTURNED"} : Hear(p, outcome)
  \/ Logged(p) \/ Heard(p) \/ UndoCase(p) \/ RevokeStrikes(p)

Next == \E p \in Procs : Member(p) \/ Reviewer(p) \/ ContentPage(p) \/ Appeals(p) \/ Abandon(p)

Spec == Init /\ [][Next]_vars

-----------------------------------------------------------------------------
(* Types of the tables and of what the handlers hold.                      *)
Step == {"idle", "look", "file", "handle", "decide", "enforce", "tell", "mark", "reopen", "page",
         "log", "hear", "undo", "revoke"}
CaseState == {"none", "OPEN", "IN_REVIEW", "ACTIONED", "DISMISSED", "ESCALATED"}
Decision == {"REMOVE_AND_WARN", "NO_ACTION", "ESCALATE_GUARD"}
What == {"none", "join", "settle", "late", "open", "remove", "restore"}
          \cup {"OPEN", "IN_REVIEW"} \cup Decision \cup {"UPHELD", "OVERTURNED"}
Handler == [at : Step, by : Members \cup {"nobody"}, case : Cases \cup {0}, what : What,
            saw : BOOLEAN, retry : BOOLEAN, who : SUBSET Reports]
Case == [state : CaseState, decision : {"none", "REMOVE_CONTENT"} \cup Decision,
         dated : BOOLEAN, again : BOOLEAN]
Report == [by : Members \cup {"nobody"}, case : Cases \cup {0}, late : BOOLEAN, reviewed : BOOLEAN,
           state : {"none", "RECEIVED", "ACTIONED", "DISMISSED"}, told : 0..2]

TypeOK ==
  /\ removed \in BOOLEAN /\ closed \subseteq Cases \cup {0} /\ crossed \in BOOLEAN
  /\ case \in [Cases -> Case] /\ report \in [Reports -> Report]
  /\ item \in {"none", "PENDING", "RESOLVED"} /\ link \in Cases \cup {0}
  /\ cost \subseteq Cases \cup {0} /\ asked \in 0..MaxAsked
  /\ appeal \in [of : Cases \cup {0}, state : {"none", "OPEN", "UPHELD", "OVERTURNED"}]
  /\ h \in [Procs -> Handler]
  /\ \A p \in Procs : /\ h[p].at = "handle" => h[p].what \in {"OPEN", "IN_REVIEW"}
                      /\ h[p].at = "decide" => h[p].what \in Decision
                      /\ h[p].at = "hear" => h[p].what \in {"UPHELD", "OVERTURNED"}

(* One case per target: however intake, claims and reopenings overlap.     *)
OneLiveCase == Cardinality(Live) <= 1

(* "It either joins the open case or is answered from the decided one"     *)
(* (ReportCaseService): one handler after another, an unanswered report    *)
(* has a live case, which the queue leads to or a reopening has brought    *)
(* back; or it is a late one, known to be left.  The cases the content     *)
(* page or an appeal closed are the exception: their reports are not.      *)
NoReportLost ==
  \A r \in Reports :
    report[r].state = "RECEIVED" /\ ~crossed =>
      \/ report[r].late
      \/ report[r].case \in closed
      \/ /\ report[r].case \in Live
         /\ (item = "PENDING" /\ link = report[r].case) \/ case[report[r].case].again

(* "Everyone who reported it is told the outcome, once" (notifyReporters): *)
(* when a decision's notices have gone out every reporter of its case has  *)
(* been told, whichever decision told him, nobody has been told twice, and *)
(* none before his report was answered: also when the case was reopened    *)
(* and is decided again.  Of handlers one after another; a decision may go *)
(* without notices, and then it tells nobody.                              *)
TellsOnce ==
  ~crossed' =>
    /\ \A r \in Reports : /\ report'[r].told <= 1
                          /\ report'[r].told = 1 => report'[r].state # "RECEIVED"
    /\ \A p \in Procs : MarkTold(p) => \A r \in Of(h[p].case) : report'[r].told = 1
ToldOnce == [][TellsOnce]_vars

(* "the reporter is told the outcome by 7.3's notification" (report, of    *)
(* one answered from a case that was already decided): when nobody is at   *)
(* work and the others who reported the case have been told, so is he.     *)
SettledIsTold ==
  \A r, s \in Reports :
    /\ h = [p \in Procs |-> Idle] /\ ~crossed
    /\ report[r].state = "ACTIONED" /\ ~report[r].reviewed
    /\ report[s].case = report[r].case /\ report[s].by # report[r].by /\ report[s].told > 0
    => report[r].told > 0

(* "A case decision reversed: the content comes back, and so does whatever *)
(* it cost the member" (undoCase): one handler after another, when an      *)
(* overturned case had taken the content down and cost a strike.           *)
OverturnedIsUndone ==
  \A p \in Procs : h[p].at = "revoke" /\ h[p].case \in cost /\ ~crossed => ~removed
=============================================================================
