-------------------------------- MODULE Deals --------------------------------
(***************************************************************************)
(* One deal: two people tick off the steps of an agreement, with the       *)
(* amount recorded when it is paid, and staff settle a problem either of   *)
(* them flags.                                                             *)
(*                                                                         *)
(*   platform/deals/services/deal.service.ts                               *)
(*   admin/services/admin-dispute.service.ts, resolveProblem               *)
(*   prisma/models/deals.prisma                                            *)
(*                                                                         *)
(* A call is one HTTP handler in flight; each side may have several (two   *)
(* devices, a retry).  No row is locked and no update is guarded by what   *)
(* was checked: a handler reads, checks what it read, and writes.  load()  *)
(* is two SELECTs, the deal and then its steps, and READ COMMITTED gives   *)
(* each the state of its own moment; where the steps matter (markSteps,    *)
(* correctAmount) they are read in a step of their own.                    *)
(***************************************************************************)
EXTENDS DealSpine

CONSTANTS
  Calls,         \* handlers that can be in flight at once
  Amounts,       \* the prices people agree on, in pence
  Deposits,      \* the deposits they agree on, 0 for none
  Figures        \* the sums they say they paid, or correct that to

ASSUME ConstantsAssumption ==
  /\ Amounts \subseteq Nat \ {0} /\ Amounts # {}
  /\ Deposits \subseteq Nat /\ 0 \in Deposits
  /\ Figures \subseteq Nat

VARIABLES
  track,         \* what the thread is about: goods or work
  row,           \* the Deal row
  step,          \* its DealStep rows by stage; at most one each (the unique index)
  call,          \* what each handler in flight is doing, and what it has read
  late,          \* history: handlers a mark made since they decided should have stopped
  crossed        \* history: a replacement of terms and a marking have overlapped

vars == <<track, row, step, call, late, crossed>>

DepositLeavesABalance(terms) == terms.deposit < terms.amount
Offerable == [amount : Amounts, timing : Timing, deposit : Deposits]
Terms == {terms \in Offerable : DepositLeavesABalance(terms)}
SomeTerms == CHOOSE terms \in Terms : TRUE

Row == [status : {"ABSENT", "OPEN", "CANCELLED"}, terms : Terms, proposedByRole : Role,
        isAgreedByBoth : BOOLEAN, problem : {"NONE", "OPEN", "RESOLVED"}]

NoDeal == [status |-> "ABSENT", terms |-> SomeTerms, proposedByRole |-> "PAYER",
           isAgreedByBoth |-> FALSE, problem |-> "NONE"]

(* A step: who marked it ("NOBODY" yet) and the figure it carries.         *)
Tick == [by : Role \cup {"NOBODY"}, amount : Nat]
Unmarked == [by |-> "NOBODY", amount |-> 0]

At == {"idle", "mark.check", "mark.write", "correct.check", "correct.write", "flag.write",
       "replace.write", "cancel.write", "resolve.write"}

(* What markSteps uses of the deal row it read.                            *)
Seen == [terms : Terms, proposedByRole : Role, isAgreedByBoth : BOOLEAN]
SeenIn(deal) == [terms |-> deal.terms, proposedByRole |-> deal.proposedByRole,
                 isAgreedByBoth |-> deal.isAgreedByBoth]

(* A handler's local state.  saw: the deal row it read; asked, amount: the *)
(* stages it marks (or the one it corrects) and the figure; terms: the     *)
(* replacement.                                                            *)
CallRecord == [at : At, role : Role, saw : Seen, asked : SUBSET Stage, amount : Nat,
               terms : Terms]

Idle == [at |-> "idle", role |-> "PAYER", saw |-> SeenIn(NoDeal), asked |-> {}, amount |-> 0,
         terms |-> SomeTerms]

-----------------------------------------------------------------------------
Begin(c, rec) == call[c].at = "idle" /\ call' = [call EXCEPT ![c] = rec]
End(c) == call' = [call EXCEPT ![c] = Idle]
Forget(c) == late' = late \ {c}

Marked == {stage \in Stage : step[stage].by # "NOBODY"}

IsOpen(deal) == deal.status = "OPEN"

Frozen(stage) == CONFIRMS[stage] \in Marked

Marking(c) == call[c].at \in {"mark.check", "mark.write"}

(* These marks forbid what the handler has decided on and has yet to write.*)
Forbidden(c, asked) ==
  \/ call[c].at \in {"replace.write", "cancel.write"} /\ "AGREED" \in asked
  \/ call[c].at = "correct.write" /\ \E stage \in call[c].asked : CONFIRMS[stage] \in asked

ExpectedAmountReversed(terms, stage) ==                           \* a mutant
  IF stage = "DEPOSIT_PAID" THEN terms.deposit ELSE terms.deposit - terms.amount
ExpectedAmount(terms, stage) ==
  IF stage = "DEPOSIT_PAID" THEN terms.deposit ELSE terms.amount - terms.deposit

Init ==
  /\ track \in Track
  /\ row = NoDeal
  /\ step = [stage \in Stage |-> Unmarked]
  /\ call = [c \in Calls |-> Idle]
  /\ late = {}
  /\ crossed = FALSE

-----------------------------------------------------------------------------
(* Terms: proposing them, replacing them, withdrawing them.                *)

Propose(role) ==
  /\ row.status = "ABSENT"
  /\ \E terms \in Terms :
       row' = [NoDeal EXCEPT !.status = "OPEN", !.terms = terms, !.proposedByRole = role]
  /\ UNCHANGED <<track, step, call, late, crossed>>

Replaceable(deal) == IsOpen(deal) /\ ~deal.isAgreedByBoth

ReplaceLoad(c, role) ==
  /\ Replaceable(row)
  /\ \E terms \in Terms :
       Begin(c, [Idle EXCEPT !.at = "replace.write", !.role = role, !.terms = terms])
  /\ UNCHANGED <<track, row, step, late, crossed>>

(* Acceptance moves with the terms.                                        *)
ReplaceWrite(c) ==
  /\ call[c].at = "replace.write"
  /\ row' = [row EXCEPT !.terms = call[c].terms, !.proposedByRole = call[c].role]
  /\ End(c) /\ Forget(c)
  /\ crossed' = (crossed \/ c \in late \/ \E d \in Calls : Marking(d))
  /\ UNCHANGED <<track, step>>

Withdrawable(deal, role) ==
  IsOpen(deal) /\ ~deal.isAgreedByBoth /\ role = deal.proposedByRole

CancelLoad(c, role) ==
  /\ Withdrawable(row, role)
  /\ Begin(c, [Idle EXCEPT !.at = "cancel.write"])
  /\ UNCHANGED <<track, row, step, late, crossed>>

CancelWrite(c) ==
  /\ call[c].at = "cancel.write"
  /\ row' = [row EXCEPT !.status = "CANCELLED"]
  /\ End(c) /\ Forget(c)
  /\ UNCHANGED <<track, step, crossed>>

-----------------------------------------------------------------------------
(* Marking steps.                                                          *)

MarkLoad(c, role) ==
  /\ IsOpen(row)
  /\ Begin(c, [Idle EXCEPT !.at = "mark.check", !.role = role, !.saw = SeenIn(row)])
  /\ UNCHANGED <<track, row, step, late, crossed>>

Acceptable(deal, role) == role # deal.proposedByRole

(* assertMarkable, in spine order, each stage counting as reached for the  *)
(* next: what is asked and what is marked together leave no gap.           *)
MarkableAnyOrder(deal, role, asked) ==                            \* a mutant
  /\ "AGREED" \in asked => Acceptable(deal, role)
  /\ asked # {"AGREED"} => "AGREED" \in Marked \cup asked
Markable(deal, role, asked) ==
  /\ "AGREED" \in asked => Acceptable(deal, role)
  /\ \A stage \in asked \ {"AGREED"} :
       /\ deal.isAgreedByBoth \/ "AGREED" \in Marked \cup asked
       /\ Earlier(track, deal.terms, stage) \subseteq Marked \cup asked

(* The stages of the spine still open to this side: nobody ticks the       *)
(* other side's box.                                                       *)
Askable(deal, role) ==
  {stage \in InSpine(track, deal.terms) \ Marked : MayMark(stage, role)}

(* One payment in a call: the sum of the terms if no figure is given.      *)
FiguresFor(deal, asked) ==
  UNION {Figures \cup {ExpectedAmount(deal.terms, stage)} : stage \in asked \cap CARRIES_AMOUNT}

MarkCheck(c) ==
  LET deal == call[c].saw IN
  /\ call[c].at = "mark.check"
  /\ \E asked \in SUBSET Askable(deal, call[c].role) :
       /\ asked # {}
       /\ ~(CARRIES_AMOUNT \subseteq asked)
       /\ Markable(deal, call[c].role, asked)
       /\ \E amount \in IF asked \cap CARRIES_AMOUNT = {} THEN {0} ELSE FiguresFor(deal, asked) :
            call' = [call EXCEPT ![c].at = "mark.write", ![c].asked = asked,
                                 ![c].amount = amount, ![c].saw = Idle.saw]
  /\ UNCHANGED <<track, row, step, late, crossed>>

(* The unique index decides a double tap: the second is refused whole.     *)
AnyStages(asked) == asked \subseteq Stage                          \* a mutant
AllNew(asked) == asked \cap Marked = {}

MarkWrite(c) ==
  LET asked == call[c].asked IN
  /\ call[c].at = "mark.write"
  /\ AllNew(asked)
  /\ step' = [stage \in Stage |->
                IF stage \in asked
                  THEN [by |-> call[c].role,
                        amount |-> IF stage \in CARRIES_AMOUNT THEN call[c].amount ELSE 0]
                  ELSE step[stage]]
  /\ IF "AGREED" \in asked
       THEN row' = [row EXCEPT !.isAgreedByBoth = TRUE]
       ELSE UNCHANGED row
  /\ End(c)
  /\ late' = late \cup {d \in Calls : Forbidden(d, asked)}
  /\ UNCHANGED <<track, crossed>>

-----------------------------------------------------------------------------
(* Correcting a figure: the payer's own, until the other side confirms it. *)

CorrectLoad(c) ==
  /\ IsOpen(row)
  /\ Begin(c, [Idle EXCEPT !.at = "correct.check"])
  /\ UNCHANGED <<track, row, step, late, crossed>>

CorrectableUntilDone(stage) == stage \in Marked /\ "DONE" \notin Marked  \* a mutant
Correctable(stage) == stage \in Marked /\ ~Frozen(stage)

CorrectCheck(c) ==
  /\ call[c].at = "correct.check"
  /\ \E stage \in CARRIES_AMOUNT, amount \in Figures :
       /\ Correctable(stage)
       /\ call' = [call EXCEPT ![c].at = "correct.write", ![c].asked = {stage},
                               ![c].amount = amount]
  /\ UNCHANGED <<track, row, step, late, crossed>>

CorrectWrite(c) ==
  /\ call[c].at = "correct.write"
  /\ \E stage \in call[c].asked : step' = [step EXCEPT ![stage].amount = call[c].amount]
  /\ End(c) /\ Forget(c)
  /\ UNCHANGED <<track, row, crossed>>

-----------------------------------------------------------------------------
(* Problems: either side flags one, staff settle it.                       *)

FlagLoad(c) ==
  /\ IsOpen(row)
  /\ Begin(c, [Idle EXCEPT !.at = "flag.write"])
  /\ UNCHANGED <<track, row, step, late, crossed>>

(* A deal flagged again after staff settled it is open work again.         *)
Reopened(deal) == [deal EXCEPT !.problem = "OPEN"]

FlagWrite(c) ==
  /\ call[c].at = "flag.write"
  /\ row' = Reopened(row)
  /\ End(c)
  /\ UNCHANGED <<track, step, late, crossed>>

ResolveLoad(c) ==
  /\ row.problem = "OPEN"
  /\ Begin(c, [Idle EXCEPT !.at = "resolve.write"])
  /\ UNCHANGED <<track, row, step, late, crossed>>

ResolveWrite(c) ==
  /\ call[c].at = "resolve.write"
  /\ row' = [row EXCEPT !.problem = "RESOLVED"]
  /\ End(c)
  /\ UNCHANGED <<track, step, late, crossed>>

(* A refusal, a failure or a crash before the write.                       *)
Abandon(c) ==
  /\ call[c].at # "idle"
  /\ End(c) /\ Forget(c)
  /\ UNCHANGED <<track, row, step, crossed>>

-----------------------------------------------------------------------------
Settle(c) == \/ ReplaceWrite(c) \/ CancelWrite(c) \/ MarkCheck(c) \/ MarkWrite(c)
             \/ CorrectCheck(c) \/ CorrectWrite(c) \/ FlagWrite(c)
             \/ ResolveWrite(c) \/ Abandon(c)

Load(c) == \/ CorrectLoad(c) \/ FlagLoad(c) \/ ResolveLoad(c)
           \/ \E role \in Role :
                ReplaceLoad(c, role) \/ CancelLoad(c, role) \/ MarkLoad(c, role)

Next == \/ \E role \in Role : Propose(role)
        \/ \E c \in Calls : Load(c) \/ Settle(c)

Spec == Init /\ [][Next]_vars

-----------------------------------------------------------------------------
(* Types: the deal row, its steps and every handler's local state.         *)
TypeOK ==
  /\ track \in Track
  /\ row \in Row
  /\ step \in [Stage -> Tick]
  /\ call \in [Calls -> CallRecord]
  /\ late \subseteq Calls
  /\ crossed \in BOOLEAN

(* However the handlers of the two sides overlap, and even if the terms    *)
(* are replaced under them, the rows of DealStep are a record as DealRecord*)
(* describes it: it only grows, each box is ticked once and by the side it *)
(* belongs to, and never before what comes before it.                      *)
Record == INSTANCE DealRecord WITH ticked <- [stage \in Stage |-> step[stage].by]
KeepsARecord == Record!Spec

(* What DONE stands for: a deal that reads as done was agreed, paid and    *)
(* confirmed and fulfilled, with the payment marked by the payer and       *)
(* confirmed by the provider, and the AGREED flag the screens show agrees  *)
(* with the AGREED step.                                                   *)
DoneIsComplete ==
  /\ row.isAgreedByBoth <=> "AGREED" \in Marked
  /\ "DONE" \in Marked =>
       /\ {"AGREED", "PAID", "PAYMENT_CONFIRMED"} \subseteq Marked
       /\ \A i \in DOMAIN Fulfilment(track) : Fulfilment(track)[i] \in Marked
       /\ step["PAID"].by # step["PAYMENT_CONFIRMED"].by
  /\ "DEPOSIT_CONFIRMED" \in Marked => "DEPOSIT_PAID" \in Marked

(* The marked stages are a beginning of the spine of the deal's own terms, *)
(* "marks one or more stages, in spine order" (deal.service.ts), and who   *)
(* agreed is not who proposed.  Only a replacement of the terms that       *)
(* overlapped a marking, written while it was under way or decided before  *)
(* it was written, can have put a deal out of order.                       *)
InSpineOrder ==
  ~crossed =>
    /\ Marked \subseteq InSpine(track, row.terms)
    /\ \A stage \in Marked : Earlier(track, row.terms, stage) \subseteq Marked
    /\ "AGREED" \in Marked => step["AGREED"].by # row.proposedByRole

(* What both sides agreed stands: it is never withdrawn (deals.prisma) nor *)
(* its terms replaced, and "a confirmed figure is frozen" (correctAmount). *)
(* However the handlers overlap, the one exception is a handler that had   *)
(* decided before the very mark that forbids its write was made: AGREED    *)
(* for a replacement or a withdrawal, the confirmation of the figure for a *)
(* correction.                                                             *)
AgreementStands ==
  [][/\ row.isAgreedByBoth /\ [row' EXCEPT !.problem = row.problem] # row =>
          \E c \in late : ReplaceWrite(c) \/ CancelWrite(c)
     /\ \A stage \in CARRIES_AMOUNT : Frozen(stage) /\ step'[stage] # step[stage] =>
          \E c \in late : CorrectWrite(c)]_vars
=============================================================================
