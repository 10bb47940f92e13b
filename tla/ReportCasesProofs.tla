-------------------------- MODULE ReportCasesProofs --------------------------
(***************************************************************************)
(* What holds of the reports about one piece of content for every number   *)
(* of handlers, members, cases and reports: types, that one case is live   *)
(* however intake, claims, reopenings and decisions overlap, and, of       *)
(* handlers one after another, that no report is lost and nobody who       *)
(* reported is told twice.                                                 *)
(*                                                                         *)
(* One live case is inductive once it is said of elements instead of a     *)
(* cardinality: an action that makes a case live writes that case alone,   *)
(* past the unique index, and every other one only ends cases.  The last   *)
(* two need what a handler that is alone can rely on (Serial): the case it *)
(* joins or decides is live, whom it tells is answered and not told yet.   *)
(***************************************************************************)
EXTENDS ReportCases, FiniteSetTheorems, TLAPS

(* No two cases are live.                                                  *)
Unique == \A c, d \in Live : c = d

IInv == TypeOK /\ Unique

-----------------------------------------------------------------------------
(* The placeholders are of the types they stand for.                       *)
LEMMA PlaceholderTypes == NoCase \in Case /\ NoReport \in Report /\ Idle \in Handler
BY DEF NoCase, NoReport, Idle, Case, CaseState, Decision, Report, Handler, Step, What

(* What a handler does next is of the types, and its request was checked.  *)
Fits(doing) ==
  /\ doing \in Handler
  /\ doing.at = "handle" => doing.what \in {"OPEN", "IN_REVIEW"}
  /\ doing.at = "decide" => doing.what \in Decision
  /\ doing.at = "hear" => doing.what \in {"UPHELD", "OVERTURNED"}

HandlersFit == h \in [Procs -> Handler] /\ \A p \in Procs : Fits(h[p])

(* In a state of the types every handler fits.                             *)
LEMMA TypesFit == TypeOK => HandlersFit
BY DEF TypeOK, HandlersFit, Fits

(* A handler that goes on with what fits leaves all fitting.               *)
LEMMA GoOnFits ==
  ASSUME HandlersFit, NEW p \in Procs, NEW now, Fits(now), h' = [h EXCEPT ![p] = now]
  PROVE  HandlersFit'
<1>1. now \in Handler
  BY DEF Fits
<1>2. h' \in [Procs -> Handler]
  BY <1>1 DEF HandlersFit
<1>3. \A q \in Procs : h'[q] = IF q = p THEN now ELSE h[q]
  BY DEF HandlersFit
<1>4. \A q \in Procs : Fits(h'[q])
  BY <1>3 DEF HandlersFit
<1> QED
  BY <1>2, <1>4 DEF HandlersFit, Fits

(* So does one that is done.                                               *)
LEMMA RestFits ==
  ASSUME HandlersFit, NEW p \in Procs, Rest(p)
  PROVE  HandlersFit'
<1>1. Fits(Idle)
  BY PlaceholderTypes DEF Fits, Idle
<1> QED
  BY <1>1, GoOnFits DEF Rest

(* So does one whose next step asks nothing of its request.                *)
LEMMA GoToFits ==
  ASSUME HandlersFit, NEW p \in Procs, NEW step \in Step \ {"handle", "decide", "hear"}, GoTo(p, step)
  PROVE  HandlersFit'
<1> DEFINE now == [h[p] EXCEPT !.at = step]
<1>1. now \in Handler /\ now.at = step
  BY DEF HandlersFit, Handler
<1>2. Fits(now)
  BY <1>1 DEF Fits
<1>3. h' = [h EXCEPT ![p] = now]
  BY DEF GoTo
<1> HIDE DEF now
<1> QED
  BY <1>2, <1>3, GoOnFits

(* A handler that begins keeps every type.                                 *)
LEMMA AskTypes ==
  ASSUME TypeOK, NEW p \in Procs, NEW doing, Fits(doing), Ask(p, doing)
  PROVE  TypeOK'
<1>1. asked' \in 0..MaxAsked
  BY ConstantsAssumption DEF TypeOK, Ask
<1>2. HandlersFit'
  BY TypesFit, GoOnFits DEF Ask
<1>3. crossed' \in BOOLEAN
  BY DEF TypeOK, Ask
<1>4. UNCHANGED <<removed, case, report, item, link, cost, appeal, closed>>
  BY DEF Ask, queue
<1> QED
  BY <1>1, <1>2, <1>3, <1>4 DEF TypeOK, HandlersFit, Fits

(* One case was written: the index kept any other live one out.            *)
LEMMA WriteUnique ==
  ASSUME TypeOK, Unique, NEW c, NEW new \in Case, case' = [case EXCEPT ![c] = new],
         new.state \in {"OPEN", "IN_REVIEW"} => ~Refused(c)
  PROVE  Unique'
<1>1. \A d \in Cases : case'[d] = IF d = c THEN new ELSE case[d]
  BY DEF TypeOK
<1> QED
  BY <1>1 DEF Unique, Live, Refused

(* Cases only ended.                                                       *)
LEMMA FewerUnique ==
  ASSUME Unique, Live' \subseteq Live
  PROVE  Unique'
BY DEF Unique

-----------------------------------------------------------------------------
(* Every step keeps the types and the one live case.  What begins a        *)
(* handler writes no table.                                                *)
LEMMA BeginStep ==
  ASSUME IInv, NEW p \in Procs, NEW doing, Fits(doing), Ask(p, doing)
  PROVE  IInv'
<1>1. TypeOK'
  BY AskTypes DEF IInv
<1>2. Live' = Live
  BY DEF Ask, Live
<1> QED
  BY <1>1, <1>2 DEF IInv, Unique

(* A member who reports.                                                   *)
LEMMA MemberBegins ==
  ASSUME IInv, NEW p \in Procs, NEW m \in Members, File(p, m)
  PROVE  IInv'
<1>1. Fits([Idle EXCEPT !.at = "look", !.by = m, !.saw = removed])
  BY DEF IInv, TypeOK, Fits, Idle, Handler, Step, What
<1> QED
  BY <1>1, BeginStep DEF File

(* A reviewer who claims, reopens or decides.                              *)
LEMMA ReviewerBegins ==
  ASSUME IInv, NEW p \in Procs, NEW c \in Cases,
         \/ \E state \in {"OPEN", "IN_REVIEW"} : Handle(p, c, state)
         \/ \E d \in {"REMOVE_AND_WARN", "NO_ACTION", "ESCALATE_GUARD"} : Decide(p, c, d)
         \/ Reopen(p, c)
  PROVE  IInv'
<1>1. ASSUME NEW state \in {"OPEN", "IN_REVIEW"}, Handle(p, c, state) PROVE IInv'
  <2>1. Fits([Idle EXCEPT !.at = "handle", !.case = c, !.what = state])
    BY DEF Fits, Idle, Handler, Step, What
  <2> QED
    BY <1>1, <2>1, BeginStep DEF Handle
<1>2. ASSUME NEW d \in Decision, Decide(p, c, d) PROVE IInv'
  <2>1. Fits([Idle EXCEPT !.at = "decide", !.case = c, !.what = d, !.saw = link = c])
    BY DEF Fits, Idle, Handler, Step, What, Decision
  <2> QED
    BY <1>2, <2>1, BeginStep DEF Decide
<1>3. ASSUME Reopen(p, c) PROVE IInv'
  <2>1. Fits([Idle EXCEPT !.at = "reopen", !.case = c])
    BY DEF Fits, Idle, Handler, Step, What
  <2> QED
    BY <1>3, <2>1, BeginStep DEF Reopen
<1> QED
  BY <1>1, <1>2, <1>3 DEF Decision

(* The content page, the log and the hearing of an appeal.                 *)
LEMMA OthersBegin ==
  ASSUME IInv, NEW p \in Procs,
         \/ \E what \in {"remove", "restore"} : Page(p, what)
         \/ \E c \in Cases : Log(p, c)
         \/ \E outcome \in {"UPHELD", "OVERTURNED"} : Hear(p, outcome)
  PROVE  IInv'
<1>1. ASSUME NEW what \in {"remove", "restore"}, Page(p, what) PROVE IInv'
  <2>1. Fits([Idle EXCEPT !.at = "page", !.what = what])
    BY DEF Fits, Idle, Handler, Step, What
  <2> QED
    BY <1>1, <2>1, BeginStep DEF Page
<1>2. ASSUME NEW c \in Cases, Log(p, c) PROVE IInv'
  <2>1. Fits([Idle EXCEPT !.at = "log", !.case = c])
    BY DEF Fits, Idle, Handler, Step, What
  <2> QED
    BY <1>2, <2>1, BeginStep DEF Log
<1>3. ASSUME NEW outcome \in {"UPHELD", "OVERTURNED"}, Hear(p, outcome) PROVE IInv'
  <2>1. Fits([Idle EXCEPT !.at = "hear", !.case = appeal.of, !.what = outcome])
    BY DEF IInv, TypeOK, Fits, Idle, Handler, Step, What
  <2> QED
    BY <1>3, <2>1, BeginStep DEF Hear
<1> QED
  BY <1>1, <1>2, <1>3

(* Steps that leave every case alone and move one handler on.              *)
LEMMA QuietStep ==
  ASSUME IInv, HandlersFit', UNCHANGED <<case, asked, closed>>,
         crossed' \in BOOLEAN, removed' \in BOOLEAN, report' \in [Reports -> Report],
         item' \in {"none", "PENDING", "RESOLVED"}, link' \in Cases \cup {0},
         cost' \subseteq Cases \cup {0},
         appeal' \in [of : Cases \cup {0}, state : {"none", "OPEN", "UPHELD", "OVERTURNED"}]
  PROVE  IInv'
<1>1. TypeOK'
  BY DEF IInv, TypeOK, HandlersFit, Fits
<1>2. Live' = Live
  BY DEF Live
<1> QED
  BY <1>1, <1>2 DEF IInv, Unique

(* A member's report: looking for its case, joining one, losing the race.  *)
LEMMA PlaceType ==
  ASSUME TypeOK, NEW m, NEW saw, NEW afresh
  PROVE  /\ Place(m, saw, afresh)[1] \in What
         /\ Place(m, saw, afresh)[2] \in Cases \cup {0}
<1>1. Live # {} => (CHOOSE c \in Live : TRUE) \in Cases
  BY DEF Live
<1>2. Latest # 0 /\ case[Latest].state \in {"ACTIONED", "DISMISSED"} => Latest \in Cases \cup {0}
  <2>1. {c \in Cases : case[c].state # "none"} \in SUBSET Cases
    OBVIOUS
  <2>2. IsFiniteSet(Cases) /\ Cardinality(Cases) = MaxCases
    BY FS_Interval, ConstantsAssumption DEF Cases
  <2>3. Latest \in Nat /\ Latest <= MaxCases
    BY <2>1, <2>2, FS_Subset, FS_CardinalityType DEF Latest
  <2> QED
    BY <2>3, ConstantsAssumption DEF Cases
<1> QED
  BY <1>1, <1>2 DEF Place, What

(* Intake chooses where the report goes.                                   *)
LEMMA IntakeStep ==
  ASSUME IInv, NEW p \in Procs, Intake(p)
  PROVE  IInv'
<1>1. PICK afresh \in BOOLEAN :
        h' = [h EXCEPT ![p].at = "file", ![p].what = Place(h[p].by, h[p].saw, afresh)[1],
                       ![p].case = Place(h[p].by, h[p].saw, afresh)[2]]
  BY DEF Intake
<1> DEFINE place == Place(h[p].by, h[p].saw, afresh)
           now == [h[p] EXCEPT !.at = "file", !.what = place[1], !.case = place[2]]
<1>2. place[1] \in What /\ place[2] \in Cases \cup {0}
  BY PlaceType DEF IInv
<1> HIDE DEF place
<1>3. h[p] \in Handler
  BY DEF IInv, TypeOK
<1>4. Fits(now)
  BY <1>2, <1>3 DEF Fits, Handler, Step
<1>5. h' = [h EXCEPT ![p] = now]
  BY <1>1 DEF place
<1> HIDE DEF now
<1>6. HandlersFit'
  BY <1>4, <1>5, TypesFit, GoOnFits DEF IInv
<1> QED
  BY <1>6, QuietStep DEF IInv, TypeOK, Intake, queue

(* The report is filed on the case found.                                  *)
LEMMA FiledStep ==
  ASSUME IInv, NEW p \in Procs, Filed(p)
  PROVE  IInv'
<1>1. HandlersFit'
  BY TypesFit, RestFits DEF IInv, Filed
<1>2. h[p].by \in Members \cup {"nobody"} /\ h[p].case \in Cases \cup {0}
  BY DEF IInv, TypeOK, Handler
<1>3. report' \in [Reports -> Report]
  BY <1>2, PlaceholderTypes DEF IInv, TypeOK, Filed, Write, Report
<1>4. item' \in {"none", "PENDING", "RESOLVED"} /\ link' \in Cases \cup {0}
  BY <1>2 DEF IInv, TypeOK, Filed, Attach, queue
<1> QED
  BY <1>1, <1>3, <1>4, QuietStep DEF IInv, TypeOK, Filed

(* The unique index refused the case: once more from the start.            *)
LEMMA LostStep ==
  ASSUME IInv, NEW p \in Procs, LostTheCaseRace(p)
  PROVE  IInv'
<1> DEFINE now == IF h[p].retry THEN Idle
                  ELSE [h[p] EXCEPT !.at = "look", !.what = "none", !.retry = TRUE]
<1>1. h[p] \in Handler
  BY DEF IInv, TypeOK
<1>2. Fits(now)
  BY <1>1, PlaceholderTypes DEF Fits, Idle, Handler, Step, What
<1>3. h' = [h EXCEPT ![p] = now]
  BY DEF LostTheCaseRace
<1> HIDE DEF now
<1>4. HandlersFit'
  BY <1>2, <1>3, TypesFit, GoOnFits DEF IInv
<1> QED
  BY <1>4, QuietStep DEF IInv, TypeOK, LostTheCaseRace, queue

(* The steps of staff and of an appeal that leave every case alone.        *)
LEMMA QuietHandlers ==
  ASSUME IInv, NEW p \in Procs,
         \/ Enforce(p) \/ Tell(p) \/ Silent(p) \/ MarkTold(p) \/ PageRestored(p) \/ Logged(p)
         \/ Heard(p) \/ RevokeStrikes(p) \/ Abandon(p)
  PROVE  IInv'
<1> USE TypesFit DEF IInv, queue
<1>1. h[p] \in Handler
  BY DEF TypeOK
<1>2. h[p].case \in Cases \cup {0}
  BY <1>1 DEF Handler
<1>3. CASE Enforce(p)
  BY <1>2, <1>3, GoToFits, QuietStep DEF TypeOK, Enforce, Step
<1>4. CASE Tell(p)
  <2> DEFINE now == [h[p] EXCEPT !.at = "mark", !.who = Untold(h[p].case)]
  <2>1. Untold(h[p].case) \in SUBSET Reports
    BY DEF Untold, Of
  <2>2. Fits(now)
    BY <1>1, <2>1 DEF Fits, Handler, Step
  <2>3. h' = [h EXCEPT ![p] = now]
    BY <1>4 DEF Tell
  <2> HIDE DEF now
  <2>4. HandlersFit'
    BY <2>2, <2>3, GoOnFits
  <2> QED
    BY <1>4, <2>4, QuietStep DEF TypeOK, Tell
<1>5. CASE MarkTold(p)
  <2>1. report' \in [Reports -> Report]
    BY <1>5 DEF TypeOK, MarkTold, Report
  <2> QED
    BY <1>5, <2>1, RestFits, QuietStep DEF TypeOK, MarkTold
<1>6. CASE PageRestored(p)
  BY <1>6, RestFits, QuietStep DEF TypeOK, PageRestored
<1>7. CASE Logged(p)
  BY <1>2, <1>7, RestFits, QuietStep DEF TypeOK, Logged
<1>8. CASE Heard(p)
  BY <1>8, GoToFits, RestFits, QuietStep DEF TypeOK, Heard, Step
<1>9. CASE RevokeStrikes(p)
  BY <1>9, RestFits, QuietStep DEF TypeOK, RevokeStrikes
<1>10. CASE Abandon(p)
  BY <1>10, RestFits, QuietStep DEF TypeOK, Abandon
<1>11. CASE Silent(p)
  BY <1>11, RestFits, QuietStep DEF TypeOK, Silent
<1> QED
  BY <1>3, <1>4, <1>5, <1>6, <1>7, <1>8, <1>9, <1>10, <1>11

(* The steps that write a case.                                            *)
LEMMA CaseStep ==
  ASSUME IInv, HandlersFit', Unique', UNCHANGED <<appeal, asked, cost, crossed>>,
         case' \in [Cases -> Case], removed' \in BOOLEAN, report' \in [Reports -> Report],
         item' \in {"none", "PENDING", "RESOLVED"}, link' \in Cases \cup {0},
         closed' \subseteq Cases \cup {0}
  PROVE  IInv'
BY DEF IInv, TypeOK, HandlersFit, Fits

(* A new case is opened, past the index.                                   *)
LEMMA OpenStep ==
  ASSUME IInv, NEW p \in Procs, Open(p)
  PROVE  IInv'
<1>1. HandlersFit'
  BY TypesFit, RestFits DEF IInv, Open
<1>2. h[p].by \in Members \cup {"nobody"}
  BY DEF IInv, TypeOK, Handler
<1>3. PICK new \in Cases : /\ ~Refused(new)
                          /\ case' = [case EXCEPT ![new].state = "OPEN"]
                          /\ Write(p, new, "RECEIVED", FALSE) /\ Attach(new)
  BY DEF Open
<1>4. report' \in [Reports -> Report]
  BY <1>2, <1>3, PlaceholderTypes DEF IInv, TypeOK, Write, Report
<1> DEFINE opened == [case[new] EXCEPT !.state = "OPEN"]
<1>5. opened \in Case /\ case' = [case EXCEPT ![new] = opened]
  <2>1. case[new] \in Case
    BY <1>3 DEF IInv, TypeOK
  <2> QED
    BY <1>3, <2>1 DEF Case, CaseState
<1> HIDE DEF opened
<1>6. case' \in [Cases -> Case]
  BY <1>5 DEF IInv, TypeOK
<1>7. Unique'
  <2>1. TypeOK /\ Unique /\ ~Refused(new)
    BY <1>3 DEF IInv
  <2> QED
    BY <1>5, <2>1, WriteUnique
<1> QED
  BY <1>1, <1>3, <1>4, <1>6, <1>7, CaseStep DEF IInv, TypeOK, Open, Attach

(* A claim, or its release, writes the case by id, past the index.         *)
LEMMA HandledStep ==
  ASSUME IInv, NEW p \in Procs, Handled(p)
  PROVE  IInv'
<1> DEFINE c == h[p].case
           handled == [case[c] EXCEPT !.state = h[p].what]
<1>1. HandlersFit'
  BY TypesFit, RestFits DEF IInv, Handled
<1>2. h[p].what \in {"OPEN", "IN_REVIEW"}
  BY DEF IInv, TypeOK, Handled
<1>3. CASE Refused(c) \/ c \notin Cases
  <2>1. case' = case
    BY <1>3 DEF Handled, IInv, TypeOK
  <2>2. Unique'
    BY <2>1 DEF IInv, Unique, Live
  <2> QED
    BY <1>1, <2>1, <2>2, CaseStep DEF IInv, TypeOK, Handled, queue
<1>4. CASE ~Refused(c) /\ c \in Cases
  <2>0. case[c] \in Case
    BY <1>4 DEF IInv, TypeOK
  <2>1. handled \in Case /\ case' = [case EXCEPT ![c] = handled]
    BY <1>2, <1>4, <2>0 DEF Case, CaseState, Handled
  <2> HIDE DEF handled
  <2>2. Unique' /\ case' \in [Cases -> Case]
    BY <1>4, <2>1, WriteUnique DEF IInv, TypeOK
  <2> QED
    BY <1>1, <2>2, CaseStep DEF IInv, TypeOK, Handled, queue
<1> QED
  BY <1>3, <1>4

(* A reopening likewise.                                                   *)
LEMMA ReopenedStep ==
  ASSUME IInv, NEW p \in Procs, Reopened(p)
  PROVE  IInv'
<1> DEFINE c == h[p].case
           again == [state |-> "IN_REVIEW", decision |-> "none", dated |-> FALSE, again |-> TRUE]
<1>1. HandlersFit'
  BY TypesFit, RestFits DEF IInv, Reopened
<1>2. again \in Case
  BY DEF Case, CaseState
<1>3. CASE Refused(c)
  <2>1. case' = case
    BY <1>3 DEF Reopened
  <2>2. Unique'
    BY <2>1 DEF IInv, Unique, Live
  <2> QED
    BY <1>1, <2>1, <2>2, CaseStep DEF IInv, TypeOK, Reopened, queue
<1>4. CASE ~Refused(c)
  <2>1. case' = [case EXCEPT ![c] = again]
    BY <1>4 DEF Reopened
  <2> HIDE DEF again
  <2>2. Unique' /\ case' \in [Cases -> Case]
    BY <1>2, <1>4, <2>1, WriteUnique DEF IInv, TypeOK
  <2> QED
    BY <1>1, <2>2, CaseStep DEF IInv, TypeOK, Reopened, queue
<1> QED
  BY <1>3, <1>4

(* A decision ends the case.                                               *)
LEMMA DecidedStep ==
  ASSUME IInv, NEW p \in Procs, Decided(p)
  PROVE  IInv'
<1> DEFINE c == h[p].case
           decided == [case[c] EXCEPT !.state = Outcome(h[p].what), !.decision = h[p].what,
                                      !.dated = TRUE]
<1>1. HandlersFit'
  BY TypesFit, GoToFits DEF IInv, Decided, Step
<1>2. h[p].what \in Decision
  BY DEF IInv, TypeOK, Decided
<1>3. Outcome(h[p].what) \in {"ACTIONED", "DISMISSED", "ESCALATED"}
  BY <1>2 DEF Outcome, Decision
<1>4. report' \in [Reports -> Report]
  <2>1. PICK answer \in {"DISMISSED", "ACTIONED"} :
          report' = [r \in Reports |-> IF r \in Of(h[p].case)
                                          THEN [report[r] EXCEPT !.state = answer, !.late = FALSE,
                                                                 !.reviewed = TRUE]
                                          ELSE report[r]]
    BY DEF Decided
  <2>2. \A r \in Reports : report[r] \in Report
    BY DEF IInv, TypeOK
  <2>3. \A r \in Reports : [report[r] EXCEPT !.state = answer, !.late = FALSE, !.reviewed = TRUE] \in Report
    BY <2>2 DEF Report
  <2> QED
    BY <2>1, <2>2, <2>3
<1>5. Unique' /\ case' \in [Cases -> Case]
  <2>1. CASE c \in Cases
    <3>1. decided \in Case /\ decided.state \notin {"OPEN", "IN_REVIEW"}
      <4>1. case[c] \in Case
        BY <2>1 DEF IInv, TypeOK
      <4> QED
        BY <1>2, <1>3, <4>1 DEF Case, CaseState
    <3>2. case' = [case EXCEPT ![c] = decided]
      BY DEF Decided
    <3> HIDE DEF decided
    <3> QED
      BY <3>1, <3>2, WriteUnique DEF IInv, TypeOK
  <2>2. CASE c \notin Cases
    <3>1. case' = case
      BY <2>2 DEF Decided, IInv, TypeOK
    <3> QED
      BY <3>1 DEF IInv, TypeOK, Unique, Live
  <2> QED
    BY <2>1, <2>2
<1> QED
  BY <1>1, <1>4, <1>5, CaseStep DEF IInv, TypeOK, Decided

(* An overturned appeal dismisses the case.                                *)
LEMMA UndoCaseStep ==
  ASSUME IInv, NEW p \in Procs, UndoCase(p)
  PROVE  IInv'
<1> DEFINE c == h[p].case
           undone == [case[c] EXCEPT !.state = "DISMISSED", !.decision = "NO_ACTION"]
<1>1. HandlersFit'
  BY TypesFit, GoToFits DEF IInv, UndoCase, Step
<1>2. c \in Cases \cup {0}
  BY DEF IInv, TypeOK, Handler
<1>3. Unique' /\ case' \in [Cases -> Case]
  <2>1. CASE c \in Cases
    <3>1. undone \in Case /\ undone.state \notin {"OPEN", "IN_REVIEW"}
      <4>1. case[c] \in Case
        BY <2>1 DEF IInv, TypeOK
      <4> QED
        BY <4>1 DEF Case, CaseState, Decision
    <3>2. case' = [case EXCEPT ![c] = undone]
      BY DEF UndoCase
    <3> HIDE DEF undone
    <3> QED
      BY <3>1, <3>2, WriteUnique DEF IInv, TypeOK
  <2>2. CASE c \notin Cases
    <3>1. case' = case
      BY <2>2 DEF UndoCase, IInv, TypeOK
    <3> QED
      BY <3>1 DEF IInv, TypeOK, Unique, Live
  <2> QED
    BY <2>1, <2>2
<1> QED
  BY <1>1, <1>2, <1>3, CaseStep DEF IInv, TypeOK, UndoCase, queue

(* The content page ends every live case.                                  *)
LEMMA PageRemovedStep ==
  ASSUME IInv, NEW p \in Procs, PageRemoved(p)
  PROVE  IInv'
<1>1. HandlersFit'
  BY TypesFit, RestFits DEF IInv, PageRemoved
<1> DEFINE ended(c) == [case[c] EXCEPT !.state = "ACTIONED", !.decision = "REMOVE_CONTENT",
                                       !.dated = TRUE]
<1>2. case' \in [Cases -> Case] /\ Live' = {}
  <2>1. case' = [c \in Cases |-> IF c \in Live THEN ended(c) ELSE case[c]]
    BY DEF PageRemoved
  <2>2. \A c \in Cases : case[c] \in Case
    BY DEF IInv, TypeOK
  <2>3. \A c \in Cases : ended(c) \in Case /\ ended(c).state = "ACTIONED"
    BY <2>2 DEF Case, CaseState
  <2> HIDE DEF ended
  <2> QED
    BY <2>1, <2>2, <2>3 DEF Live
<1>3. Unique'
  BY <1>2 DEF Unique
<1>4. Live \subseteq Cases
  BY DEF Live
<1> QED
  BY <1>1, <1>2, <1>3, <1>4, CaseStep DEF IInv, TypeOK, PageRemoved

(* Every step keeps the invariant.                                         *)
LEMMA InvariantStep == IInv /\ [Next]_vars => IInv'
<1> SUFFICES ASSUME IInv, [Next]_vars PROVE IInv'
  OBVIOUS
<1>1. CASE UNCHANGED vars
  BY <1>1 DEF IInv, TypeOK, Unique, Live, vars, queue
<1>2. ASSUME NEW p \in Procs, Member(p) PROVE IInv'
  BY <1>2, MemberBegins, IntakeStep, FiledStep, OpenStep, LostStep DEF Member
<1>3. ASSUME NEW p \in Procs, Reviewer(p) PROVE IInv'
  BY <1>3, ReviewerBegins, HandledStep, DecidedStep, ReopenedStep, QuietHandlers DEF Reviewer
<1>4. ASSUME NEW p \in Procs, ContentPage(p) PROVE IInv'
  BY <1>4, OthersBegin, PageRemovedStep, QuietHandlers DEF ContentPage
<1>5. ASSUME NEW p \in Procs, Appeals(p) PROVE IInv'
  BY <1>5, OthersBegin, UndoCaseStep, QuietHandlers DEF Appeals
<1>6. ASSUME NEW p \in Procs, Abandon(p) PROVE IInv'
  BY <1>6, QuietHandlers
<1> QED
  BY <1>1, <1>2, <1>3, <1>4, <1>5, <1>6 DEF Next

(* The invariant holds at first.                                           *)
LEMMA InvariantInit == Init => IInv
<1> SUFFICES ASSUME Init PROVE IInv
  OBVIOUS
<1>1. \A p \in Procs : h[p].at = "idle"
  BY DEF Init, Idle
<1>2. TypeOK
  <2>1. case \in [Cases -> Case] /\ report \in [Reports -> Report] /\ h \in [Procs -> Handler]
    BY PlaceholderTypes DEF Init
  <2>2. /\ removed \in BOOLEAN /\ crossed \in BOOLEAN /\ closed = {} /\ cost = {}
        /\ item = "none" /\ link = 0 /\ asked = 0
    BY DEF Init
  <2>3. appeal \in [of : Cases \cup {0}, state : {"none", "OPEN", "UPHELD", "OVERTURNED"}]
    BY DEF Init
  <2>4. MaxAsked \in Nat
    BY ConstantsAssumption
  <2> QED
    BY <1>1, <2>1, <2>2, <2>3, <2>4 DEF TypeOK
<1>3. Live = {}
  BY DEF Init, Live, NoCase
<1> QED
  BY <1>2, <1>3 DEF IInv, Unique

(* Tables and handlers keep their types.                                   *)
THEOREM TypeCorrect == Spec => []TypeOK
<1>1. IInv => TypeOK
  BY DEF IInv
<1> QED
  BY <1>1, InvariantInit, InvariantStep, PTL DEF Spec

(* One case is live per target, however many handlers overlap.             *)
THEOREM AlwaysOneLiveCase == Spec => []OneLiveCase
<1>1. IInv => OneLiveCase
  <2> SUFFICES ASSUME IInv PROVE Cardinality(Live) <= 1
    BY DEF OneLiveCase
  <2>1. CASE Live = {}
    BY <2>1, FS_EmptySet
  <2>2. CASE Live # {}
    <3>1. PICK c : Live = {c}
      BY <2>2 DEF IInv, Unique
    <3> QED
      BY <3>1, FS_Singleton
  <2> QED
    BY <2>1, <2>2
<1> QED
  BY <1>1, InvariantInit, InvariantStep, PTL DEF Spec

-----------------------------------------------------------------------------
(* One handler after another: that no report is lost, and nobody is told   *)
(* twice.  Both are of runs in which no handler overlaps another, so that  *)
(* what a handler read is still so when it writes: a case it joins or      *)
(* decides is live, and whom it tells has been answered and not told yet.  *)
Alone == \A p, q \in Procs : h[p] # Idle /\ h[q] # Idle => p = q

AsRead(p) ==
  /\ (h[p].at = "file" /\ h[p].what = "join") \/ h[p].at = "decide" => h[p].case \in Live
  /\ h[p].at \in {"enforce", "tell"} => \A r \in Of(h[p].case) : report[r].state # "RECEIVED"
  /\ h[p].at = "mark" =>
       /\ \A r \in h[p].who : report[r].told = 0 /\ report[r].state # "RECEIVED"
       /\ \A r \in Of(h[p].case) : report[r].told = 0 => r \in h[p].who

Led(r) ==
  \/ report[r].late
  \/ report[r].case \in closed
  \/ /\ report[r].case \in Live
     /\ (item = "PENDING" /\ link = report[r].case) \/ case[report[r].case].again

Kept == \A r \in Reports : report[r].state = "RECEIVED" => Led(r)

Told == \A r \in Reports : /\ report[r].told <= 1
                           /\ report[r].told = 1 => report[r].state # "RECEIVED"

Serial == ~crossed => Alone /\ (\A p \in Procs : AsRead(p)) /\ Kept /\ Told

(* A handler goes on; every other rests, and has read nothing.             *)
LEMMA GoesOn ==
  ASSUME TypeOK, Serial, NEW p \in Procs, h[p] # Idle, NEW now, h' = [h EXCEPT ![p] = now],
         crossed' = crossed, ~crossed => AsRead(p)' /\ Kept' /\ Told'
  PROVE  Serial'
<1> SUFFICES ASSUME ~crossed PROVE Alone' /\ \A q \in Procs : AsRead(q)'
  BY DEF Serial
<1>1. \A q \in Procs \ {p} : h'[q] = Idle
  BY DEF Serial, Alone, TypeOK
<1>2. \A q \in Procs \ {p} : AsRead(q)'
  BY <1>1 DEF AsRead, Idle
<1> QED
  BY <1>1, <1>2 DEF Alone

(* A handler that is done holds nothing.                                   *)
LEMMA IsDone ==
  ASSUME TypeOK, Serial, NEW p \in Procs, h[p] # Idle, Rest(p), crossed' = crossed,
         ~crossed => Kept' /\ Told'
  PROVE  Serial'
<1>1. h'[p] = Idle
  BY DEF Rest, TypeOK
<1>2. AsRead(p)'
  BY <1>1 DEF AsRead, Idle
<1> QED
  BY <1>2, GoesOn DEF Rest

(* A handler begins, and of what it read only a decision keeps the case.   *)
LEMMA Begins ==
  ASSUME TypeOK, Serial, NEW p \in Procs, NEW doing, Ask(p, doing),
         doing.at \in {"look", "handle", "decide", "reopen", "page", "log", "hear"},
         doing.at = "decide" => doing.case \in Live
  PROVE  Serial'
<1> SUFFICES ASSUME ~crossed' PROVE (Alone /\ (\A q \in Procs : AsRead(q)) /\ Kept /\ Told)'
  BY DEF Serial
<1>1. /\ \A q \in Procs \ {p} : h[q] = Idle
      /\ UNCHANGED <<case, report, item, link, closed>> /\ h' = [h EXCEPT ![p] = doing] /\ ~crossed
  BY DEF Ask, queue
<1>2. h'[p] = doing /\ \A q \in Procs \ {p} : h'[q] = Idle
  BY <1>1 DEF TypeOK
<1>3. Alone'
  BY <1>2 DEF Alone
<1>4. \A q \in Procs : AsRead(q)'
  BY <1>1, <1>2 DEF AsRead, Live, Idle
<1>5. Kept' /\ Told'
  BY <1>1 DEF Serial, Kept, Led, Live, Told
<1> QED
  BY <1>3, <1>4, <1>5

(* Every request.                                                          *)
LEMMA SerialRequest ==
  ASSUME TypeOK, Serial, NEW p \in Procs,
         \/ \E m \in Members : File(p, m)
         \/ \E c \in Cases, state \in {"OPEN", "IN_REVIEW"} : Handle(p, c, state)
         \/ \E c \in Cases, d \in {"REMOVE_AND_WARN", "NO_ACTION", "ESCALATE_GUARD"} : Decide(p, c, d)
         \/ \E c \in Cases : Reopen(p, c) \/ Log(p, c)
         \/ \E what \in {"remove", "restore"} : Page(p, what)
         \/ \E outcome \in {"UPHELD", "OVERTURNED"} : Hear(p, outcome)
  PROVE  Serial'
<1>1. ASSUME NEW m \in Members, File(p, m) PROVE Serial'
  <2> DEFINE doing == [Idle EXCEPT !.at = "look", !.by = m, !.saw = removed]
  <2>1. doing.at = "look" /\ Ask(p, doing)
    BY <1>1 DEF File, Idle
  <2> HIDE DEF doing
  <2> QED
    BY <2>1, Begins
<1>2. ASSUME NEW c \in Cases, NEW state, Handle(p, c, state) PROVE Serial'
  <2> DEFINE doing == [Idle EXCEPT !.at = "handle", !.case = c, !.what = state]
  <2>1. doing.at = "handle" /\ Ask(p, doing)
    BY <1>2 DEF Handle, Idle
  <2> HIDE DEF doing
  <2> QED
    BY <2>1, Begins
<1>3. ASSUME NEW c \in Cases, NEW d, Decide(p, c, d) PROVE Serial'
  <2> DEFINE doing == [Idle EXCEPT !.at = "decide", !.case = c, !.what = d, !.saw = link = c]
  <2>1. doing.at = "decide" /\ doing.case \in Live /\ Ask(p, doing)
    BY <1>3 DEF Decide, Idle
  <2> HIDE DEF doing
  <2> QED
    BY <2>1, Begins
<1>4. ASSUME NEW c \in Cases, Reopen(p, c) PROVE Serial'
  <2> DEFINE doing == [Idle EXCEPT !.at = "reopen", !.case = c]
  <2>1. doing.at = "reopen" /\ Ask(p, doing)
    BY <1>4 DEF Reopen, Idle
  <2> HIDE DEF doing
  <2> QED
    BY <2>1, Begins
<1>5. ASSUME NEW c \in Cases, Log(p, c) PROVE Serial'
  <2> DEFINE doing == [Idle EXCEPT !.at = "log", !.case = c]
  <2>1. doing.at = "log" /\ Ask(p, doing)
    BY <1>5 DEF Log, Idle
  <2> HIDE DEF doing
  <2> QED
    BY <2>1, Begins
<1>6. ASSUME NEW what, Page(p, what) PROVE Serial'
  <2> DEFINE doing == [Idle EXCEPT !.at = "page", !.what = what]
  <2>1. doing.at = "page" /\ Ask(p, doing)
    BY <1>6 DEF Page, Idle
  <2> HIDE DEF doing
  <2> QED
    BY <2>1, Begins
<1>7. ASSUME NEW outcome, Hear(p, outcome) PROVE Serial'
  <2> DEFINE doing == [Idle EXCEPT !.at = "hear", !.case = appeal.of, !.what = outcome]
  <2>1. doing.at = "hear" /\ Ask(p, doing)
    BY <1>7 DEF Hear, Idle
  <2> HIDE DEF doing
  <2> QED
    BY <2>1, Begins
<1> QED
  BY <1>1, <1>2, <1>3, <1>4, <1>5, <1>6, <1>7

(* Neither reports, cases nor the queue item are written.                  *)
LEMMA NothingLost ==
  ASSUME UNCHANGED <<case, report, item, link, closed>>
  PROVE  (Kept => Kept') /\ (Told => Told')
BY DEF Kept, Led, Live, Told

(* Intake reads the live case, or that there is none.                      *)
LEMMA SerialIntake ==
  ASSUME TypeOK, Serial, NEW p \in Procs, Intake(p)
  PROVE  Serial'
<1>1. PICK afresh \in BOOLEAN :
        h' = [h EXCEPT ![p].at = "file", ![p].what = Place(h[p].by, h[p].saw, afresh)[1],
                       ![p].case = Place(h[p].by, h[p].saw, afresh)[2]]
  BY DEF Intake
<1> DEFINE place == Place(h[p].by, h[p].saw, afresh)
           now == [h[p] EXCEPT !.at = "file", !.what = place[1], !.case = place[2]]
<1>2. place[1] = "join" => place[2] \in Live
  BY DEF Place
<1> HIDE DEF place
<1>3. h' = [h EXCEPT ![p] = now]
  BY <1>1 DEF place
<1>4. h[p] \in Handler /\ h[p] # Idle
  BY DEF TypeOK, Intake, Idle
<1>5. now.at = "file" /\ now.what = place[1] /\ now.case = place[2]
  BY <1>4 DEF Handler
<1> HIDE DEF now
<1>6. h'[p] = now
  BY <1>3 DEF TypeOK
<1>7. UNCHANGED <<case, report, item, link, closed, crossed>>
  BY DEF Intake, queue
<1>8. AsRead(p)'
  BY <1>2, <1>5, <1>6, <1>7 DEF AsRead, Live
<1> QED
  BY <1>3, <1>4, <1>7, <1>8, NothingLost, GoesOn DEF Serial

(* A report is written: one with a live case leads to it from the queue.   *)
LEMMA ReportWritten ==
  ASSUME TypeOK, Kept, Told, NEW p \in Procs, NEW c, NEW state \in {"RECEIVED", "ACTIONED"},
         NEW late \in BOOLEAN, Write(p, c, state, late), NewReport \in Reports, closed' = closed,
         \A r \in Reports : Led(r) /\ report[r].state = "RECEIVED" /\ r # NewReport => Led(r)',
         state = "RECEIVED" /\ ~late => c \in Live' /\ item' = "PENDING" /\ link' = c
  PROVE  Kept' /\ Told'
<1> DEFINE new == [NoReport EXCEPT !.by = h[p].by, !.case = c, !.state = state, !.late = late]
<1>1. new.case = c /\ new.state = state /\ new.late = late /\ new.told = 0
  BY DEF NoReport
<1>2. report' = [report EXCEPT ![NewReport] = new]
  BY DEF Write
<1> HIDE DEF new
<1>3. \A r \in Reports : report'[r] = IF r = NewReport THEN new ELSE report[r]
  BY <1>2 DEF TypeOK
<1>4. Told'
  BY <1>1, <1>3 DEF Told
<1>5. Kept'
  <2> SUFFICES ASSUME NEW r \in Reports, report'[r].state = "RECEIVED" PROVE Led(r)'
    BY DEF Kept
  <2>1. CASE r = NewReport
    BY <1>1, <1>3, <2>1 DEF Led
  <2>2. CASE r # NewReport
    BY <1>3, <2>2 DEF Kept
  <2> QED
    BY <2>1, <2>2
<1> QED
  BY <1>4, <1>5

(* A report joins its case, or is one of those that wait for none.         *)
LEMMA SerialFiled ==
  ASSUME TypeOK, Unique, Serial, NEW p \in Procs, Filed(p)
  PROVE  Serial'
<1>1. h[p] # Idle /\ Rest(p) /\ UNCHANGED <<case, closed, crossed>>
  BY DEF Filed, Idle
<1> SUFFICES ASSUME ~crossed PROVE Kept' /\ Told'
  BY <1>1, IsDone
<1> DEFINE c == h[p].case
           state == IF h[p].what = "settle" THEN "ACTIONED" ELSE "RECEIVED"
           late == h[p].what = "late"
<1>2. Kept /\ Told /\ AsRead(p)
  BY DEF Serial
<1>3. Write(p, c, state, late) /\ NewReport \in Reports
  BY DEF Filed
<1>4. state \in {"RECEIVED", "ACTIONED"} /\ late \in BOOLEAN
  OBVIOUS
<1>5. Live' = Live
  BY <1>1 DEF Live
<1>6. state = "RECEIVED" /\ ~late => c \in Live' /\ item' = "PENDING" /\ link' = c
  BY <1>2, <1>5 DEF Filed, Attach, AsRead
<1>7. \A r \in Reports : Led(r) /\ report[r].state = "RECEIVED" /\ r # NewReport => Led(r)'
  <2> SUFFICES ASSUME NEW r \in Reports, Led(r), r # NewReport PROVE Led(r)'
    OBVIOUS
  <2>1. report'[r] = report[r]
    BY <1>3 DEF Write
  <2>2. CASE h[p].what = "join"
    <3>1. c \in Live /\ item' = "PENDING" /\ link' = c
      BY <1>2, <2>2 DEF Filed, Attach, AsRead
    <3> QED
      BY <1>1, <1>5, <2>1, <3>1 DEF Led, Unique
  <2>3. CASE h[p].what # "join"
    BY <1>1, <1>5, <2>1, <2>3 DEF Led, Filed, queue
  <2> QED
    BY <2>2, <2>3
<1> HIDE DEF c, state, late
<1> QED
  BY <1>1, <1>2, <1>3, <1>4, <1>6, <1>7, ReportWritten

(* A case is opened for the report: it is the only live one.               *)
LEMMA SerialOpen ==
  ASSUME TypeOK, Serial, NEW p \in Procs, Open(p)
  PROVE  Serial'
<1>1. h[p] # Idle /\ Rest(p) /\ UNCHANGED <<closed, crossed>>
  BY DEF Open, Idle
<1> SUFFICES ASSUME ~crossed PROVE Kept' /\ Told'
  BY <1>1, IsDone
<1>2. PICK new \in Cases : /\ ~Refused(new)
                          /\ case' = [case EXCEPT ![new].state = "OPEN"]
                          /\ Write(p, new, "RECEIVED", FALSE) /\ Attach(new)
  BY DEF Open
<1>3. Kept /\ Told /\ NewReport \in Reports
  BY DEF Serial, Open
<1>4. new \in Live'
  <2>1. case[new] \in Case
    BY <1>2 DEF TypeOK
  <2> QED
    BY <1>2, <2>1 DEF Live, TypeOK, Case
<1>5. \A r \in Reports : Led(r) /\ report[r].state = "RECEIVED" /\ r # NewReport => Led(r)'
  <2> SUFFICES ASSUME NEW r \in Reports, Led(r), r # NewReport PROVE Led(r)'
    OBVIOUS
  <2>1. report'[r] = report[r]
    BY <1>2 DEF Write
  <2>2. report[r].case \in Live => report[r].case = new
    BY <1>2 DEF Refused
  <2> QED
    BY <1>1, <1>2, <1>4, <2>1, <2>2 DEF Led, Attach
<1> QED
  BY <1>1, <1>2, <1>3, <1>4, <1>5, ReportWritten DEF Attach

(* The unique index refused the case.                                      *)
LEMMA SerialLost ==
  ASSUME TypeOK, Serial, NEW p \in Procs, LostTheCaseRace(p)
  PROVE  Serial'
<1> DEFINE now == IF h[p].retry THEN Idle
                  ELSE [h[p] EXCEPT !.at = "look", !.what = "none", !.retry = TRUE]
<1>1. h[p] \in Handler /\ h[p] # Idle
  BY DEF TypeOK, LostTheCaseRace, Idle
<1>2. now.at \in {"idle", "look"}
  BY <1>1 DEF Idle, Handler
<1>3. h' = [h EXCEPT ![p] = now] /\ UNCHANGED <<case, report, item, link, closed, crossed>>
  BY DEF LostTheCaseRace, queue
<1> HIDE DEF now
<1>4. h'[p] = now
  BY <1>3 DEF TypeOK
<1>5. AsRead(p)'
  BY <1>2, <1>4 DEF AsRead
<1> QED
  BY <1>1, <1>3, <1>5, NothingLost, GoesOn DEF Serial

(* Staff or an appeal write one case.  A report it was about stays led to  *)
(* when the case stays live, and its being reopened is kept.               *)
LEMMA CaseWritten ==
  ASSUME TypeOK, Kept, Told, NEW c, NEW new \in Case, case' = [case EXCEPT ![c] = new], ~Refused(c),
         new.state \in {"OPEN", "IN_REVIEW"}, new.again = case[c].again \/ new.again,
         UNCHANGED <<report, item, link, closed>>
  PROVE  Kept' /\ Told'
<1>1. Told'
  BY DEF Told
<1>2. \A d \in Cases : case'[d] = IF d = c THEN new ELSE case[d]
  BY DEF TypeOK
<1>3. \A d \in Live : d = c /\ d \in Live'
  BY <1>2 DEF Refused, Live
<1>4. \A r \in Reports : Led(r) => Led(r)'
  <2> SUFFICES ASSUME NEW r \in Reports, Led(r) PROVE Led(r)'
    OBVIOUS
  <2>1. CASE report[r].case \in Live
    <3>1. report[r].case = c /\ c \in Live' /\ c \in Cases
      BY <1>3, <2>1 DEF Live
    <3>2. case[c].again => case'[c].again
      BY <1>2, <3>1
    <3> QED
      BY <3>1, <3>2 DEF Led
  <2>2. CASE report[r].case \notin Live
    BY <2>2 DEF Led
  <2> QED
    BY <2>1, <2>2
<1> QED
  BY <1>1, <1>4 DEF Kept

(* A claim or its release.                                                 *)
LEMMA SerialHandled ==
  ASSUME TypeOK, Serial, NEW p \in Procs, Handled(p)
  PROVE  Serial'
<1>1. h[p] # Idle /\ Rest(p) /\ UNCHANGED <<report, item, link, closed, crossed>>
  BY DEF Handled, Idle, queue
<1> SUFFICES ASSUME ~crossed PROVE Kept' /\ Told'
  BY <1>1, IsDone
<1> DEFINE c == h[p].case
           handled == [case[c] EXCEPT !.state = h[p].what]
<1>2. Kept /\ Told /\ h[p].what \in {"OPEN", "IN_REVIEW"}
  BY DEF Serial, Handled, TypeOK
<1>3. CASE Refused(c) \/ c \notin Cases
  <2>1. case' = case
    BY <1>3 DEF Handled, TypeOK
  <2> QED
    BY <1>1, <1>2, <2>1, NothingLost
<1>4. CASE ~Refused(c) /\ c \in Cases
  <2>1. case[c] \in Case
    BY <1>4 DEF TypeOK
  <2>2. /\ handled \in Case /\ handled.state \in {"OPEN", "IN_REVIEW"} /\ handled.again = case[c].again
        /\ case' = [case EXCEPT ![c] = handled]
    BY <1>2, <1>4, <2>1 DEF Case, CaseState, Handled
  <2> HIDE DEF handled
  <2> QED
    BY <1>1, <1>2, <1>4, <2>2, CaseWritten
<1> QED
  BY <1>3, <1>4

(* A reopening: the case, and with it its reports, is back.                *)
LEMMA SerialReopened ==
  ASSUME TypeOK, Serial, NEW p \in Procs, Reopened(p)
  PROVE  Serial'
<1>1. h[p] # Idle /\ Rest(p) /\ UNCHANGED <<report, item, link, closed, crossed>>
  BY DEF Reopened, Idle, queue
<1> SUFFICES ASSUME ~crossed PROVE Kept' /\ Told'
  BY <1>1, IsDone
<1> DEFINE c == h[p].case
           again == [state |-> "IN_REVIEW", decision |-> "none", dated |-> FALSE, again |-> TRUE]
<1>2. Kept /\ Told
  BY DEF Serial
<1>3. CASE Refused(c)
  BY <1>1, <1>2, <1>3, NothingLost DEF Reopened
<1>4. CASE ~Refused(c)
  <2>1. again \in Case /\ again.state = "IN_REVIEW" /\ again.again /\ case' = [case EXCEPT ![c] = again]
    BY <1>4 DEF Case, CaseState, Reopened
  <2> HIDE DEF again
  <2> QED
    BY <1>1, <1>2, <1>4, <2>1, CaseWritten
<1> QED
  BY <1>3, <1>4

(* A decision answers every report of the case, and there is no other live *)
(* one.                                                                    *)
LEMMA SerialDecided ==
  ASSUME TypeOK, Unique, Serial, NEW p \in Procs, Decided(p)
  PROVE  Serial'
<1> DEFINE c == h[p].case
           step == IF h[p].what = "REMOVE_AND_WARN" THEN "enforce" ELSE "tell"
           now == [h[p] EXCEPT !.at = step]
<1>1. PICK answer \in {"DISMISSED", "ACTIONED"} :
        report' = [r \in Reports |-> IF r \in Of(c)
                                        THEN [report[r] EXCEPT !.state = answer, !.late = FALSE,
                                                               !.reviewed = TRUE]
                                        ELSE report[r]]
  BY DEF Decided
<1>0. h[p] # Idle
  <2>1. h[p].at = "decide"
    BY DEF Decided
  <2> QED
    BY <2>1 DEF Idle
<1>2. h[p] \in Handler
  BY DEF TypeOK
<1>3. now.at = step /\ now.case = c
  BY <1>2 DEF Handler
<1>4. h' = [h EXCEPT ![p] = now] /\ UNCHANGED <<closed, crossed>>
  BY DEF Decided, GoTo
<1> HIDE DEF now
<1>5. \A r \in Reports : /\ report'[r].case = report[r].case /\ report'[r].told = report[r].told
                         /\ r \in Of(c) => report'[r].state # "RECEIVED"
                         /\ r \notin Of(c) => report'[r] = report[r]
  <2> SUFFICES ASSUME NEW r \in Reports
               PROVE  /\ report'[r].case = report[r].case /\ report'[r].told = report[r].told
                      /\ r \in Of(c) => report'[r].state # "RECEIVED"
                      /\ r \notin Of(c) => report'[r] = report[r]
    OBVIOUS
  <2>1. report[r] \in Report
    BY DEF TypeOK
  <2> QED
    BY <1>1, <2>1 DEF Report
<1>6. \A r \in Reports : report'[r].case = c => report'[r].state # "RECEIVED"
  BY <1>5 DEF Of
<1>7. h'[p] = now
  BY <1>4 DEF TypeOK
<1>8. AsRead(p)'
  BY <1>3, <1>6, <1>7 DEF AsRead, Of
<1>9. ASSUME ~crossed PROVE Kept' /\ Told'
  <2>1. Kept /\ Told /\ c \in Live
    BY <1>9 DEF Serial, AsRead, Decided
  <2>2. Told'
    BY <1>5, <2>1 DEF Told
  <2>3. Kept'
    <3> SUFFICES ASSUME NEW r \in Reports, report'[r].state = "RECEIVED" PROVE Led(r)'
      BY DEF Kept
    <3>1. r \notin Of(c) /\ report'[r] = report[r] /\ report[r].case # c
      BY <1>5 DEF Of
    <3>2. report[r].late \/ report[r].case \in closed
      BY <2>1, <3>1 DEF Kept, Led, Unique
    <3> QED
      BY <1>4, <3>1, <3>2 DEF Led
  <2> QED
    BY <2>2, <2>3
<1> QED
  BY <1>0, <1>4, <1>8, <1>9, GoesOn

(* The strike, and the notifications that follow: whom it tells has been   *)
(* answered and not been told, and is told once.                           *)
LEMMA SerialFollowUp ==
  ASSUME TypeOK, Serial, NEW p \in Procs, Enforce(p) \/ Tell(p) \/ MarkTold(p)
  PROVE  Serial'
<1>0. h[p] # Idle
  BY DEF Enforce, Tell, MarkTold, Idle
<1>1. h[p] \in Handler
  BY DEF TypeOK
<1>2. CASE Enforce(p)
  <2> DEFINE now == [h[p] EXCEPT !.at = "tell"]
  <2>1. now.at = "tell" /\ now.case = h[p].case
    BY <1>1 DEF Handler
  <2>2. h' = [h EXCEPT ![p] = now] /\ UNCHANGED <<case, report, item, link, closed, crossed>>
    BY <1>2 DEF Enforce, GoTo, queue
  <2> HIDE DEF now
  <2>3. h'[p] = now
    BY <2>2 DEF TypeOK
  <2>4. ASSUME ~crossed PROVE AsRead(p)'
    BY <1>2, <2>1, <2>2, <2>3, <2>4 DEF Serial, AsRead, Enforce, Of
  <2> QED
    BY <1>0, <2>2, <2>4, NothingLost, GoesOn DEF Serial
<1>3. CASE Tell(p)
  <2> DEFINE now == [h[p] EXCEPT !.at = "mark", !.who = Untold(h[p].case)]
  <2>1. now.at = "mark" /\ now.who = Untold(h[p].case) /\ now.case = h[p].case
    BY <1>1 DEF Handler
  <2>2. h' = [h EXCEPT ![p] = now] /\ UNCHANGED <<case, report, item, link, closed, crossed>>
    BY <1>3 DEF Tell, queue
  <2> HIDE DEF now
  <2>3. h'[p] = now
    BY <2>2 DEF TypeOK
  <2>4. ASSUME ~crossed PROVE AsRead(p)'
    <3>1. \A r \in Of(h[p].case) : report[r].state # "RECEIVED"
      BY <1>3, <2>4 DEF Serial, AsRead, Tell
    <3>2. h'[p].at = "mark" /\ h'[p].who = Untold(h[p].case) /\ h'[p].case = h[p].case
      BY <2>1, <2>3
    <3>3. Of(h[p].case)' = Of(h[p].case)
      BY <2>2, <3>2 DEF Of
    <3> QED
      BY <2>2, <3>1, <3>2, <3>3 DEF AsRead, Untold
  <2> QED
    BY <1>0, <2>2, <2>4, NothingLost, GoesOn DEF Serial
<1>4. CASE MarkTold(p)
  <2>1. Rest(p) /\ UNCHANGED <<case, item, link, closed, crossed>>
    BY <1>4 DEF MarkTold, queue
  <2>2. \A r \in Reports : /\ report'[r].state = report[r].state /\ report'[r].case = report[r].case
                           /\ report'[r].late = report[r].late
                           /\ report'[r].told = IF r \in h[p].who /\ report[r].told < 2
                                                  THEN report[r].told + 1 ELSE report[r].told
    <3> SUFFICES ASSUME NEW r \in Reports
                 PROVE  /\ report'[r].state = report[r].state /\ report'[r].case = report[r].case
                        /\ report'[r].late = report[r].late
                        /\ report'[r].told = IF r \in h[p].who /\ report[r].told < 2
                                               THEN report[r].told + 1 ELSE report[r].told
      OBVIOUS
    <3>1. report[r] \in Report
      BY DEF TypeOK
    <3> QED
      BY <1>4, <3>1 DEF MarkTold, Report
  <2>3. ASSUME ~crossed PROVE Kept' /\ Told'
    <3>1. Kept /\ Told /\ \A r \in h[p].who : report[r].told = 0 /\ report[r].state # "RECEIVED"
      BY <1>4, <2>3 DEF Serial, AsRead, MarkTold
    <3>2. Kept'
      BY <2>1, <2>2, <3>1 DEF Kept, Led, Live
    <3>3. Told'
      <4> SUFFICES ASSUME NEW r \in Reports
                   PROVE  /\ report'[r].told <= 1
                          /\ report'[r].told = 1 => report'[r].state # "RECEIVED"
        BY DEF Told
      <4>1. report[r] \in Report
        BY DEF TypeOK
      <4> QED
        BY <2>2, <3>1, <4>1 DEF Told, Report
    <3> QED
      BY <3>2, <3>3
  <2> QED
    BY <1>0, <2>1, <2>3, IsDone
<1> QED
  BY <1>2, <1>3, <1>4

(* The content page closes what it answers, and an overturned appeal its   *)
(* case.                                                                   *)
LEMMA SerialCloses ==
  ASSUME TypeOK, Serial, NEW p \in Procs, PageRemoved(p) \/ UndoCase(p)
  PROVE  Serial'
<1>0. h[p] # Idle
  <2>1. h[p].at \in {"page", "undo"}
    BY DEF PageRemoved, UndoCase
  <2> QED
    BY <2>1 DEF Idle
<1>1. UNCHANGED <<report, crossed>> /\ closed \subseteq closed'
  BY DEF PageRemoved, UndoCase
<1>2. ASSUME ~crossed, NEW r \in Reports, Led(r) PROVE Led(r)'
  <2>1. CASE PageRemoved(p)
    BY <1>1, <1>2, <2>1 DEF PageRemoved, Led
  <2>2. CASE UndoCase(p)
    <3>1. UNCHANGED <<item, link>> /\ h[p].case \in closed'
      BY <2>2 DEF UndoCase, queue
    <3>2. \A d \in Cases : d # h[p].case => case'[d] = case[d]
      BY <2>2 DEF UndoCase, TypeOK
    <3>3. \A d \in Cases : d # h[p].case /\ d \in Live => d \in Live'
      BY <3>2 DEF Live
    <3> QED
      BY <1>1, <1>2, <3>1, <3>2, <3>3 DEF Led, Live
  <2> QED
    BY <2>1, <2>2
<1>3. ~crossed => Kept' /\ Told'
  BY <1>1, <1>2 DEF Serial, Kept, Told
<1>4. CASE PageRemoved(p)
  BY <1>0, <1>1, <1>3, <1>4, IsDone DEF PageRemoved
<1>5. CASE UndoCase(p)
  <2> DEFINE now == [h[p] EXCEPT !.at = "revoke"]
  <2>1. h[p] \in Handler
    BY DEF TypeOK
  <2>2. now.at = "revoke" /\ h' = [h EXCEPT ![p] = now]
    BY <1>5, <2>1 DEF UndoCase, GoTo, Handler
  <2> HIDE DEF now
  <2>3. h'[p] = now
    BY <2>2 DEF TypeOK
  <2>4. AsRead(p)'
    BY <2>2, <2>3 DEF AsRead
  <2> QED
    BY <1>0, <1>1, <1>3, <2>2, <2>4, GoesOn
<1> QED
  BY <1>4, <1>5

(* The steps that write neither a report nor a case nor the queue item.    *)
LEMMA SerialAside ==
  ASSUME TypeOK, Serial, NEW p \in Procs,
         Silent(p) \/ PageRestored(p) \/ Logged(p) \/ Heard(p) \/ RevokeStrikes(p) \/ Abandon(p)
  PROVE  Serial'
<1>0. h[p] # Idle
  BY DEF Silent, PageRestored, Logged, Heard, RevokeStrikes, Abandon, Idle
<1>1. CASE Abandon(p)
  BY <1>1 DEF Abandon, Serial
<1>2. CASE Silent(p) \/ PageRestored(p) \/ Logged(p) \/ RevokeStrikes(p) \/ (Heard(p) /\ Rest(p))
  <2>1. Rest(p) /\ UNCHANGED <<case, report, item, link, closed, crossed>>
    BY <1>2 DEF Silent, PageRestored, Logged, RevokeStrikes, Heard, queue
  <2> QED
    BY <1>0, <2>1, NothingLost, IsDone DEF Serial
<1>3. CASE Heard(p) /\ GoTo(p, "undo")
  <2> DEFINE now == [h[p] EXCEPT !.at = "undo"]
  <2>1. h[p] \in Handler
    BY DEF TypeOK
  <2>2. now.at = "undo" /\ h' = [h EXCEPT ![p] = now]
    BY <1>3, <2>1 DEF GoTo, Handler
  <2> HIDE DEF now
  <2>3. h'[p] = now /\ UNCHANGED <<case, report, item, link, closed, crossed>>
    BY <1>3, <2>2 DEF TypeOK, Heard, queue
  <2>4. AsRead(p)'
    BY <2>2, <2>3 DEF AsRead
  <2> QED
    BY <1>0, <2>2, <2>3, <2>4, NothingLost, GoesOn DEF Serial
<1> QED
  BY <1>1, <1>2, <1>3 DEF Heard

(* Every step keeps what one handler after another can rely on.            *)
LEMMA SerialStep == IInv /\ Serial /\ [Next]_vars => Serial'
<1> SUFFICES ASSUME IInv, Serial, [Next]_vars PROVE Serial'
  OBVIOUS
<1> USE DEF IInv
<1>1. CASE UNCHANGED vars
  <2>1. UNCHANGED <<case, report, item, link, closed, crossed, h>>
    BY <1>1 DEF vars, queue
  <2>2. (\A p \in Procs : AsRead(p)) /\ Alone => ((\A p \in Procs : AsRead(p)) /\ Alone)'
    BY <2>1 DEF AsRead, Alone, Live, Of
  <2> QED
    BY <2>1, <2>2, NothingLost DEF Serial
<1>2. ASSUME NEW p \in Procs, Member(p) PROVE Serial'
  BY <1>2, SerialRequest, SerialIntake, SerialFiled, SerialOpen, SerialLost DEF Member
<1>3. ASSUME NEW p \in Procs, Reviewer(p) PROVE Serial'
  BY <1>3, SerialRequest, SerialHandled, SerialDecided, SerialReopened, SerialFollowUp, SerialAside
    DEF Reviewer
<1>4. ASSUME NEW p \in Procs, ContentPage(p) PROVE Serial'
  BY <1>4, SerialRequest, SerialCloses, SerialAside DEF ContentPage
<1>5. ASSUME NEW p \in Procs, Appeals(p) PROVE Serial'
  BY <1>5, SerialRequest, SerialCloses, SerialAside DEF Appeals
<1> QED
  BY <1>1, <1>2, <1>3, <1>4, <1>5, SerialAside DEF Next

(* At first there is nothing to lose.                                      *)
LEMMA SerialInit == Init => Serial
<1> SUFFICES ASSUME Init PROVE Serial
  OBVIOUS
<1>1. \A p \in Procs : h[p] = Idle
  BY DEF Init
<1>2. Alone /\ \A p \in Procs : AsRead(p)
  BY <1>1 DEF Alone, AsRead, Idle
<1>3. \A r \in Reports : report[r].state = "none" /\ report[r].told = 0
  BY DEF Init, NoReport
<1> QED
  BY <1>2, <1>3 DEF Serial, Kept, Told

(* One handler after another, an unanswered report has a live case that is *)
(* led to, or is known to be left; the cases the content page or an appeal *)
(* closed are the exception.                                               *)
THEOREM AlwaysNoReportLost == Spec => []NoReportLost
<1>1. Serial => NoReportLost
  BY DEF Serial, Kept, Led, NoReportLost
<1> QED
  BY <1>1, InvariantInit, InvariantStep, SerialInit, SerialStep, PTL DEF Spec

(* When the notices of a decision go out they reach whoever was not told.  *)
LEMMA NoticesReach ==
  ASSUME TypeOK, Serial, ~crossed, NEW p \in Procs, MarkTold(p), NEW r \in Of(h[p].case)
  PROVE  report'[r].told = 1
<1>1. /\ Told /\ h[p].at = "mark"
      /\ \A s \in h[p].who : report[s].told = 0
      /\ report[r].told = 0 => r \in h[p].who
  BY DEF Serial, AsRead, MarkTold
<1>2. r \in Reports /\ report[r] \in Report
  BY DEF Of, TypeOK
<1>3. report'[r].told = IF r \in h[p].who /\ report[r].told < 2
                          THEN report[r].told + 1 ELSE report[r].told
  BY <1>2 DEF MarkTold, Report
<1>4. report[r].told \in {0, 1}
  BY <1>1, <1>2 DEF Told, Report
<1> QED
  BY <1>1, <1>3, <1>4

(* One handler after another, a decision's notices reach every reporter of *)
(* its case who was not told, nobody is told twice, and none of an outcome *)
(* before there is one.                                                    *)
THEOREM AlwaysToldOnce == Spec => ToldOnce
<1>1. IInv /\ Serial /\ Serial' /\ [Next]_vars => [TellsOnce]_vars
  <2> SUFFICES ASSUME IInv, Serial, Serial', Next, ~crossed'
               PROVE  TellsOnce
    BY DEF TellsOnce
  <2>1. Told'
    BY DEF Serial
  <2>2. ASSUME NEW p \in Procs, MarkTold(p), NEW r \in Of(h[p].case) PROVE report'[r].told = 1
    <3>1. TypeOK /\ ~crossed
      BY <2>2 DEF IInv, MarkTold
    <3> QED
      BY <2>2, <3>1, NoticesReach
  <2> QED
    BY <2>1, <2>2 DEF Told, TellsOnce
<1> QED
  BY <1>1, InvariantInit, InvariantStep, SerialInit, SerialStep, PTL DEF Spec, ToldOnce
=============================================================================
