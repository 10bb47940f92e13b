---------------------------- MODULE AccountsProofs ----------------------------
(***************************************************************************)
(* What holds of one member's sessions for every set of handlers, any      *)
(* number of devices and session ids, and any lifetime of a token: types,  *)
(* that a session which was ended is never refreshed, that whoever is on   *)
(* the revocation list stays out, and that the end of one suspension lets  *)
(* nobody in whom another keeps out.                                       *)
(*                                                                         *)
(* The invariant behind them: no two devices share an id (Distinct), so    *)
(* that ending the rows of an id ends all of them (EndedRowsDie); an id    *)
(* that a handler means to list was given out and is not given out again   *)
(* (BarredSeen, and Fits for the handlers); and an entry of the list has   *)
(* as long to go as the token it is there for (Outlasts).                  *)
(* For the last, that nothing decides about suspensions while the sweep is *)
(* under way, unless the two have crossed (SweepAlone).                    *)
(***************************************************************************)
EXTENDS Accounts, FiniteSetTheorems, WellFoundedInduction, TLAPS

Seen(i) == i \in ended \/ Known(i)

Place == {"idle", "limit", "evict", "create", "account", "rotate", "find", "end", "bar", "suspend",
          "change", "reactivate", "delete"}
Term == 0..Never
(* What a request is for: a device, a session, or a suspension.            *)
Number == Nat \cup {Newest(some) : some \in SUBSET Suspensions}
Handler == [at : Place, for : Number, term : Term, ids : SUBSET Sids, rows : BOOLEAN]

Fits(doing) ==
  /\ doing \in Handler
  /\ doing.at \in {"limit", "evict", "bar", "create"} => doing.for \in Devices
  /\ \A i \in doing.ids : Seen(i)

Handlers == h \in [Procs -> Handler] /\ \A p \in Procs : Fits(h[p])

Distinct == \A d, e \in Devices : row[d].id = row[e].id /\ row[d].id # 0 => d = e
ActiveHasId == \A d \in Devices : row[d].active => row[d].id # 0
EndedRowsDie == \A i \in ended, d \in Devices : row[d].id = i => ~row[d].active
BarredSeen == \A i \in barred : Seen(i)
Outlasts == \A i \in barred \ overtaken : token[i] <= list[i]

Sessions == Distinct /\ ActiveHasId /\ EndedRowsDie /\ BarredSeen /\ Outlasts
IInv == TypeOK /\ Handlers /\ Sessions

Row == [id : Sids \cup {0}, active : BOOLEAN, refresh : BOOLEAN]
Suspension == [at : {"none", "live", "lifted"}, left : 0..Never]

-----------------------------------------------------------------------------
(* The terms of a suspension are bounded by never.                         *)
LEMMA NeverType == Never \in Nat \ {0} /\ TERM \in 0..Never /\ JWT_ACCESS_EXPIRY \in Nat \ {0}
BY ConstantsAssumption DEF Never

(* What the handlers keep is of its type.                                  *)
LEMMA NumberType == Devices \cup Sids \cup Suspensions \cup {0} \subseteq Number
                    /\ Newest(InForce) \in Number /\ {0, TERM, Never} \subseteq Term
BY NeverType DEF Number, InForce, Term, Devices, Sids, Suspensions

(* A handler at rest fits.                                                 *)
LEMMA IdleFits == Fits(Idle)
BY NumberType DEF Fits, Idle, Handler, Place

(* One handler is replaced by what it does next; what was seen stays seen. *)
LEMMA HandlersStep ==
  ASSUME Handlers, NEW p \in Procs, NEW now, Fits(now), h' = [h EXCEPT ![p] = now],
         \A i \in Sids : Seen(i) => Seen(i)'
  PROVE  Handlers'
<1>1. now \in Handler
  BY DEF Fits
<1>2. \A q \in Procs : h'[q] = IF q = p THEN now ELSE h[q]
  BY DEF Handlers
<1>3. h' \in [Procs -> Handler] /\ \A q \in Procs : Fits(h'[q])
  BY <1>1, <1>2 DEF Handlers
<1>4. \A q \in Procs : h'[q].ids \subseteq Sids
  BY <1>3 DEF Handler
<1>5. \A q \in Procs : \A i \in h'[q].ids : Seen(i)'
  BY <1>3, <1>4 DEF Fits
<1> QED
  BY <1>3, <1>5 DEF Handlers, Fits

(* Nothing happens to a session.                                           *)
LEMMA QuietStep ==
  ASSUME IInv, Handlers', UNCHANGED <<row, token, list, ended, barred, overtaken>>,
         status' \in {"ACTIVE", "SUSPENDED"}, gone' \in BOOLEAN, susp' \in [Suspensions -> Suspension],
         crossed' \in BOOLEAN
  PROVE  IInv'
<1>1. TypeOK'
  BY DEF IInv, TypeOK, Suspension
<1>2. Sessions'
  BY DEF IInv, Sessions, Distinct, ActiveHasId, EndedRowsDie, BarredSeen, Outlasts, Seen, Known
<1> QED
  BY <1>1, <1>2 DEF IInv

(* What was seen of an id stays seen while rows and history stand.         *)
LEMMA SeenStays ==
  ASSUME ended' = ended, row' = row
  PROVE  \A i \in Sids : Seen(i) => Seen(i)'
BY DEF Seen, Known

(* A handler that is done, or goes on with no more ids to list.            *)
LEMMA RestFits ==
  ASSUME Handlers, NEW p \in Procs, Rest(p), \A i \in Sids : Seen(i) => Seen(i)'
  PROVE  Handlers'
BY IdleFits, HandlersStep DEF Rest

(* A handler that goes on to a step whose needs it has met.                *)
LEMMA GoToFits ==
  ASSUME Handlers, NEW p \in Procs, NEW step \in Place, GoTo(p, step),
         step \in {"limit", "evict", "bar", "create"} => h[p].at \in {"limit", "evict", "bar", "create"},
         \A i \in Sids : Seen(i) => Seen(i)'
  PROVE  Handlers'
<1> DEFINE now == [h[p] EXCEPT !.at = step]
<1>1. h[p] \in Handler /\ Fits(h[p])
  BY DEF Handlers
<1>2. Fits(now)
  BY <1>1 DEF Fits, Handler
<1>3. h' = [h EXCEPT ![p] = now]
  BY DEF GoTo
<1> HIDE DEF now
<1> QED
  BY <1>2, <1>3, HandlersStep

-----------------------------------------------------------------------------
(* Requests.                                                               *)
LEMMA AskStep ==
  ASSUME IInv, NEW p \in Procs, NEW doing, Fits(doing), Ask(p, doing), crossed' \in BOOLEAN
  PROVE  IInv'
<1>1. UNCHANGED <<status, gone, susp, row, token, list, ended, barred, overtaken>>
  BY DEF Ask, account, sessions
<1>2. Handlers'
  BY <1>1, SeenStays, HandlersStep DEF Ask, IInv
<1> QED
  BY <1>1, <1>2, QuietStep DEF IInv, TypeOK, Suspension

(* Whether deciding handlers crossed is a truth value.                     *)
LEMMA CrossingType ==
  ASSUME TypeOK, NEW p \in Procs, NEW doing, AskDeciding(p, doing)
  PROVE  crossed' \in BOOLEAN
BY DEF TypeOK, AskDeciding

(* A member's handler begins.                                              *)
LEMMA MemberAsks ==
  ASSUME IInv, NEW p \in Procs, Member(p)
  PROVE  IInv'
<1> USE DEF IInv
<1>1. ASSUME NEW d \in Devices, SignIn(p, d) PROVE IInv'
  <2>1. Fits([Idle EXCEPT !.at = "limit", !.for = d])
    BY NumberType DEF Fits, Idle, Handler, Place
  <2>2. Ask(p, [Idle EXCEPT !.at = "limit", !.for = d]) /\ crossed' \in BOOLEAN
    BY <1>1 DEF SignIn, TypeOK
  <2> QED
    BY <2>1, <2>2, AskStep
<1>2. ASSUME NEW i \in Sids, Refresh(p, i) PROVE IInv'
  <2>1. Fits([Idle EXCEPT !.at = "account", !.for = i])
    BY NumberType DEF Fits, Idle, Handler, Place
  <2>2. Ask(p, [Idle EXCEPT !.at = "account", !.for = i]) /\ crossed' \in BOOLEAN
    BY <1>2 DEF Refresh, TypeOK
  <2> QED
    BY <2>1, <2>2, AskStep
<1>3. ASSUME NEW i \in Sids \cup {0}, SignOut(p, i) PROVE IInv'
  <2>1. Fits([Idle EXCEPT !.at = "find", !.for = i])
    BY NumberType DEF Fits, Idle, Handler, Place
  <2>2. Ask(p, [Idle EXCEPT !.at = "find", !.for = i]) /\ crossed' \in BOOLEAN
    BY <1>3 DEF SignOut, TypeOK
  <2> QED
    BY <2>1, <2>2, AskStep
<1>4. ASSUME Delete(p) PROVE IInv'
  <2>1. Fits([Idle EXCEPT !.at = "delete"])
    BY NumberType DEF Fits, Idle, Handler, Place
  <2>2. Ask(p, [Idle EXCEPT !.at = "delete"]) /\ crossed' \in BOOLEAN
    BY <1>4, CrossingType DEF Delete, AskDeciding
  <2> QED
    BY <2>1, <2>2, AskStep
<1> QED
  BY <1>1, <1>2, <1>3, <1>4 DEF Member

(* A staff handler begins.                                                 *)
LEMMA StaffAsks ==
  ASSUME IInv, NEW p \in Procs, Staff(p)
  PROVE  IInv'
<1> USE DEF IInv
<1>1. ASSUME NEW term \in {TERM, Never}, Suspend(p, term) PROVE IInv'
  <2>1. Fits([Idle EXCEPT !.at = "suspend", !.term = term])
    BY NumberType DEF Fits, Idle, Handler, Place
  <2>2. Ask(p, [Idle EXCEPT !.at = "suspend", !.term = term]) /\ crossed' \in BOOLEAN
    BY <1>1, CrossingType DEF Suspend, AskDeciding
  <2> QED
    BY <2>1, <2>2, AskStep
<1>2. ASSUME NEW s \in Suspensions, NEW term \in {TERM, Never}, Change(p, s, term) PROVE IInv'
  <2>1. Fits([Idle EXCEPT !.at = "change", !.for = s, !.term = term])
    BY NumberType DEF Fits, Idle, Handler, Place
  <2>2. Ask(p, [Idle EXCEPT !.at = "change", !.for = s, !.term = term]) /\ crossed' \in BOOLEAN
    BY <1>2, CrossingType DEF Change, AskDeciding
  <2> QED
    BY <2>1, <2>2, AskStep
<1>3. ASSUME Reactivate(p) PROVE IInv'
  <2> DEFINE s == IF InForce = {} THEN 0 ELSE Newest(InForce)
  <2>0. s \in Number
    BY NumberType
  <2> HIDE DEF s
  <2>1. Fits([Idle EXCEPT !.at = "reactivate", !.for = s])
    BY NumberType, <2>0 DEF Fits, Idle, Handler, Place
  <2>2. Ask(p, [Idle EXCEPT !.at = "reactivate", !.for = s]) /\ crossed' \in BOOLEAN
    BY <1>3, CrossingType DEF Reactivate, AskDeciding, s
  <2> QED
    BY <2>1, <2>2, AskStep
<1> QED
  BY <1>1, <1>2, <1>3 DEF Staff

-----------------------------------------------------------------------------
(* There is an oldest device among the active ones.                        *)
LEMMA Oldest ==
  ASSUME NEW some \in SUBSET Devices, some # {}
  PROVE  \E d \in some : \A e \in some : d <= e
<1>1. some \subseteq Nat
  BY DEF Devices
<1>2. PICK d \in some : \A e \in some : ~(<<e, d>> \in OpToRel(<, Nat))
  BY <1>1, NatLessThanWellFounded, WFMin
<1>3. \A e \in some : ~(e < d)
  BY <1>1, <1>2 DEF OpToRel
<1> QED
  BY <1>1, <1>3

(* Steps that touch no session.                                            *)
LEMMA LimitStep ==
  ASSUME IInv, NEW p \in Procs, Limit(p)
  PROVE  IInv'
<1>1. h[p] \in Handler /\ Fits(h[p]) /\ h[p].for \in Devices
  BY DEF IInv, Handlers, Fits, Limit
<1>2. UNCHANGED <<status, gone, susp, row, token, list, ended, barred, overtaken, crossed>>
  BY DEF Limit, account, sessions, history
<1>3. Handlers'
  <2>1. CASE Cardinality(Active) >= MAX_ACTIVE_SESSIONS
    <3>1. Active # {}
      BY <2>1, FS_EmptySet, ConstantsAssumption
    <3>2. PICK d \in Active : h' = [h EXCEPT ![p].at = "evict", ![p].ids = {row[d].id}]
      BY <2>1, <3>1, Oldest DEF Limit, Active
    <3> DEFINE now == [h[p] EXCEPT !.at = "evict", !.ids = {row[d].id}]
    <3>3. row[d].id \in Sids /\ Seen(row[d].id)
      BY DEF IInv, TypeOK, Sessions, ActiveHasId, Active, Seen, Known
    <3>4. Fits(now)
      BY <1>1, <3>3 DEF Fits, Handler, Place
    <3>5. h' = [h EXCEPT ![p] = now]
      BY <3>2
    <3> HIDE DEF now
    <3> QED
      BY <1>2, <3>4, <3>5, SeenStays, HandlersStep DEF IInv
  <2>2. CASE ~(Cardinality(Active) >= MAX_ACTIVE_SESSIONS)
    BY <1>2, <2>2, SeenStays, GoToFits DEF Limit, IInv, Place
  <2> QED
    BY <2>1, <2>2
<1> QED
  BY <1>2, <1>3, QuietStep DEF IInv, TypeOK, Suspension

(* The ids to end are read.                                                *)
LEMMA FindStep ==
  ASSUME IInv, NEW p \in Procs, Find(p)
  PROVE  IInv'
<1> DEFINE found == {row[d].id : d \in {e \in Active : Meant(p, e)}}
           now == [h[p] EXCEPT !.at = "end", !.rows = TRUE, !.ids = found]
<1>1. h[p] \in Handler
  BY DEF IInv, Handlers
<1>2. UNCHANGED <<status, gone, susp, row, token, list, ended, barred, overtaken, crossed>>
  BY DEF Find, account, sessions, history
<1>3. \A i \in found : i \in Sids /\ Seen(i)
  BY DEF IInv, TypeOK, Meant, Active, Seen, Known
<1>4. h' = [h EXCEPT ![p] = now]
  BY DEF Find
<1>5. Fits(now)
  <2> HIDE DEF found
  <2> QED
    BY <1>1, <1>3 DEF Fits, Handler, Place
<1> HIDE DEF now
<1>6. Handlers'
  BY <1>2, <1>4, <1>5, SeenStays, HandlersStep DEF IInv
<1> QED
  BY <1>2, <1>6, QuietStep DEF IInv, TypeOK, Suspension

(* The writes to the account, which touch no session.                      *)
LEMMA OtherQuietSteps ==
  ASSUME IInv, NEW p \in Procs,
         LookAtAccount(p) \/ WriteSuspension(p) \/ WriteChange(p) \/ WriteReactivation(p) \/ Abandon(p)
  PROVE  IInv'
<1>1. UNCHANGED <<gone, row, token, list, ended, barred, overtaken, crossed>>
  BY DEF LookAtAccount, WriteSuspension, WriteChange, WriteReactivation, Abandon, account, sessions, history
<1>2. h[p] \in Handler /\ Fits(h[p])
  BY DEF IInv, Handlers
<1>3. Handlers'
  <2>1. CASE LookAtAccount(p)
    BY <1>1, <2>1, SeenStays, GoToFits, RestFits DEF LookAtAccount, IInv, Place
  <2>2. CASE WriteSuspension(p)
    <3>1. Fits([Idle EXCEPT !.at = "find"])
      BY NumberType DEF Fits, Idle, Handler, Place
    <3> QED
      BY <1>1, <2>2, <3>1, SeenStays, HandlersStep DEF WriteSuspension, IInv
  <2>3. CASE WriteChange(p) \/ WriteReactivation(p) \/ Abandon(p)
    BY <1>1, <2>3, SeenStays, RestFits DEF WriteChange, WriteReactivation, Abandon, IInv
  <2> QED
    BY <2>1, <2>2, <2>3
<1>4. susp' \in [Suspensions -> Suspension] /\ status' \in {"ACTIVE", "SUSPENDED"}
  <2>1. h[p].term \in 0..Never /\ 0 \in 0..Never
    BY <1>2, NeverType DEF Handler, Term
  <2>2. susp \in [Suspensions -> Suspension] /\ status \in {"ACTIVE", "SUSPENDED"}
    BY DEF IInv, TypeOK, Suspension
  <2>3. CASE WriteSuspension(p)
    <3>1. [at |-> "live", left |-> h[p].term] \in Suspension
      BY <2>1 DEF Suspension
    <3> QED
      BY <2>2, <2>3, <3>1 DEF WriteSuspension
  <2>4. CASE WriteChange(p)
    <3> DEFINE s == h[p].for
               left == IF susp[s].at = "live" THEN h[p].term ELSE susp[s].left
               new == [susp[s] EXCEPT !.left = left]
    <3>1. susp' = [susp EXCEPT ![s] = new] /\ status' = status
      BY <2>4 DEF WriteChange, account
    <3>2. s \in Suspensions => new \in Suspension
      BY <2>1, <2>2 DEF Suspension
    <3> HIDE DEF new
    <3> QED
      BY <2>2, <3>1, <3>2
  <2>5. CASE WriteReactivation(p)
    BY <2>1, <2>2, <2>5 DEF WriteReactivation, Lift, Suspension
  <2>6. CASE LookAtAccount(p) \/ Abandon(p)
    BY <2>2, <2>6 DEF LookAtAccount, Abandon, account
  <2> QED
    BY <2>3, <2>4, <2>5, <2>6
<1> QED
  BY <1>1, <1>3, <1>4, QuietStep DEF IInv, TypeOK

-----------------------------------------------------------------------------
(* Steps that end rows: those of an id are ended together.                 *)
LEMMA EndRowsSessions ==
  ASSUME TypeOK, Sessions, NEW match, EndRows(match), UNCHANGED <<token, list, barred, overtaken>>
  PROVE  /\ Sessions' /\ row' \in [Devices -> Row] /\ ended' \subseteq Sids
         /\ \A i \in Sids \cup {0} : Seen(i) => Seen(i)'
<1>1. /\ row \in [Devices -> Row]
      /\ \A d \in Devices : /\ row'[d].id = row[d].id
                            /\ row'[d].active => row[d].active
                            /\ match[d] => ~row'[d].active
  BY DEF TypeOK, EndRows, Row
<1>2. row' \in [Devices -> Row]
  BY DEF TypeOK, EndRows, Row
<1>3. /\ ended \subseteq ended'
      /\ \A i \in ended' \ ended : \E d \in Devices : match[d] /\ row[d].id = i /\ i # 0
  BY DEF EndRows
<1>4. ended' \subseteq Sids
  BY <1>1, <1>3 DEF TypeOK, Row
<1>5. \A i \in Sids \cup {0} : Seen(i) => Seen(i)'
  BY <1>1, <1>3 DEF Seen, Known
<1>6. EndedRowsDie'
  BY <1>1, <1>3 DEF Sessions, Distinct, EndedRowsDie
<1>7. Distinct' /\ ActiveHasId'
  BY <1>1 DEF Sessions, Distinct, ActiveHasId
<1>8. BarredSeen' /\ Outlasts'
  BY <1>5 DEF Sessions, BarredSeen, Outlasts, TypeOK
<1> QED
  BY <1>2, <1>4, <1>5, <1>6, <1>7, <1>8 DEF Sessions

(* Rows end.                                                               *)
LEMMA EndRowsStep ==
  ASSUME IInv, NEW match, EndRows(match), UNCHANGED <<susp, token, list, barred, overtaken, crossed>>,
         status' \in {"ACTIVE", "SUSPENDED"}, gone' \in BOOLEAN, Handlers'
  PROVE  IInv'
BY EndRowsSessions DEF IInv, TypeOK, Row

(* The three places that end rows: the limit, an ending, the deletion.     *)
LEMMA EndingSteps ==
  ASSUME IInv, NEW p \in Procs, Evict(p) \/ End(p) \/ Anonymise(p)
  PROVE  IInv'
<1>1. h[p] \in Handler /\ Fits(h[p]) /\ Fits(Idle)
  BY IdleFits DEF IInv, Handlers
<1>2. CASE Evict(p)
  <2> DEFINE match == [d \in Devices |-> row[d].id \in h[p].ids]
  <2>1. EndRows(match) /\ UNCHANGED <<status, gone, susp, token, list, barred, overtaken, crossed>>
    BY <1>2 DEF Evict, account
  <2> HIDE DEF match
  <2>2. \A i \in Sids : Seen(i) => Seen(i)'
    BY <2>1, EndRowsSessions DEF IInv
  <2>3. Handlers'
    BY <1>2, <2>2, GoToFits, RestFits DEF Evict, IInv, Place
  <2> QED
    BY <2>1, <2>3, EndRowsStep DEF IInv, TypeOK
<1>3. CASE End(p)
  <2> DEFINE match == [d \in Devices |-> Meant(p, d)]
             now == IF h[p].ids = {} THEN Idle ELSE [h[p] EXCEPT !.rows = FALSE]
  <2>1. EndRows(match) /\ UNCHANGED <<status, gone, susp, token, list, barred, overtaken, crossed>>
    BY <1>3 DEF End, account
  <2> HIDE DEF match
  <2>2. \A i \in Sids : Seen(i) => Seen(i)'
    BY <2>1, EndRowsSessions DEF IInv
  <2>3. Fits(now) /\ h' = [h EXCEPT ![p] = now]
    BY <1>1, <1>3 DEF End, Fits, Handler
  <2> HIDE DEF now
  <2>4. Handlers'
    BY <2>2, <2>3, HandlersStep DEF IInv
  <2> QED
    BY <2>1, <2>4, EndRowsStep DEF IInv, TypeOK
<1>4. CASE Anonymise(p)
  <2> DEFINE match == [d \in Devices |-> row[d].id # 0]
  <2>1. EndRows(match) /\ UNCHANGED <<susp, token, list, barred, overtaken, crossed>>
    BY <1>4 DEF Anonymise
  <2> HIDE DEF match
  <2>2. \A i \in Sids : Seen(i) => Seen(i)'
    BY <2>1, EndRowsSessions DEF IInv
  <2>3. Handlers'
    BY <1>4, <2>2, RestFits DEF Anonymise, IInv
  <2>4. gone' \in BOOLEAN
    BY <1>4, Zenon DEF Anonymise
  <2>5. status' \in {"ACTIVE", "SUSPENDED"}
    BY <1>4 DEF Anonymise
  <2> QED
    BY <2>1, <2>3, <2>4, <2>5, EndRowsStep
<1> QED
  BY <1>2, <1>3, <1>4

(* Rows ended by the device list or beside it.                             *)
LEMMA EjectStep ==
  ASSUME IInv, NEW ids, Eject(ids)
  PROVE  IInv'
<1> DEFINE match == [d \in Devices |-> row[d].id \in ids]
<1>1. EndRows(match) /\ UNCHANGED <<status, gone, susp, token, list, barred, overtaken, crossed, h>>
  BY DEF Eject, account
<1> HIDE DEF match
<1>2. \A i \in Sids : Seen(i) => Seen(i)'
  BY <1>1, EndRowsSessions DEF IInv
<1>3. Handlers'
  BY <1>1, <1>2 DEF IInv, Handlers, Fits, Handler
<1> QED
  BY <1>1, <1>3, EndRowsStep DEF IInv, TypeOK

-----------------------------------------------------------------------------
(* A new session has an id nobody had, so nobody was barred by it.         *)
LEMMA CreateStep ==
  ASSUME IInv, NEW p \in Procs, Create(p)
  PROVE  IInv'
<1> USE DEF IInv
<1>1. h[p].for \in Devices
  BY DEF Handlers, Fits, Create
<1>2. PICK i \in Sids :
        /\ i \notin ended /\ ~Known(i)
        /\ row' = [row EXCEPT ![h[p].for] = [id |-> i, active |-> TRUE, refresh |-> TRUE]]
        /\ token' = [token EXCEPT ![i] = JWT_ACCESS_EXPIRY]
        /\ ended' = ended \cup ({row[h[p].for].id} \ {0})
  BY DEF Create
<1>3. UNCHANGED <<status, gone, susp, list, barred, overtaken, crossed>> /\ Rest(p)
  BY DEF Create, account
<1>4. \A k \in Sids : k \in Nat \ {0}
  BY DEF Sids
<1>5. /\ row \in [Devices -> Row]
      /\ \A d \in Devices : row'[d] = IF d = h[p].for THEN [id |-> i, active |-> TRUE, refresh |-> TRUE]
                                       ELSE row[d]
  BY <1>2 DEF TypeOK, Row
<1>6. row' \in [Devices -> Row] /\ ended' \subseteq Sids
  BY <1>1, <1>2, <1>5 DEF TypeOK, Row
<1>7. \A k \in Sids : Seen(k) => Seen(k)'
  BY <1>1, <1>2, <1>4, <1>5 DEF Seen, Known
<1>8. token' \in [Sids -> 0..JWT_ACCESS_EXPIRY]
  BY <1>2, NeverType DEF TypeOK
<1>9. Distinct' /\ ActiveHasId'
  BY <1>1, <1>2, <1>4, <1>5 DEF Sessions, Distinct, ActiveHasId, Known
<1>10. EndedRowsDie'
  BY <1>1, <1>2, <1>5 DEF Sessions, Distinct, EndedRowsDie, Known
<1>11. i \notin barred
  BY <1>2 DEF Sessions, BarredSeen, Seen
<1>12. BarredSeen' /\ Outlasts'
  BY <1>2, <1>3, <1>7, <1>11 DEF Sessions, BarredSeen, Outlasts, TypeOK
<1>13. Handlers'
  BY <1>3, <1>7, RestFits
<1>14. TypeOK'
  BY <1>3, <1>6, <1>8 DEF TypeOK, Row
<1> QED
  BY <1>9, <1>10, <1>12, <1>13, <1>14 DEF Sessions

(* A refresh makes no row live; of a barred session, it has overtaken.     *)
LEMMA RotateStep ==
  ASSUME IInv, NEW p \in Procs, Rotate(p)
  PROVE  IInv'
<1> USE DEF IInv
<1> DEFINE i == h[p].for
<1>1. UNCHANGED <<status, gone, susp, list, ended, barred, crossed>> /\ Rest(p)
  BY DEF Rotate, account
<1>2. /\ row' \in [Devices -> Row]
      /\ \A d \in Devices : row'[d].id = row[d].id /\ row'[d].active = row[d].active
  <2>1. \A d \in Devices : row[d] \in Row
    BY DEF TypeOK, Row
  <2>2. \A r \in Row : /\ [r EXCEPT !.refresh = TRUE] \in Row
                       /\ [r EXCEPT !.refresh = TRUE].id = r.id
                       /\ [r EXCEPT !.refresh = TRUE].active = r.active
    BY DEF Row
  <2>3. row' = [d \in Devices |-> IF row[d].id = i THEN [row[d] EXCEPT !.refresh = TRUE] ELSE row[d]]
    BY DEF Rotate
  <2> QED
    BY <2>1, <2>2, <2>3
<1>3. \A k : Seen(k) <=> Seen(k)'
  BY <1>1, <1>2 DEF Seen, Known
<1>4. Distinct' /\ ActiveHasId' /\ EndedRowsDie' /\ BarredSeen'
  BY <1>1, <1>2, <1>3 DEF Sessions, Distinct, ActiveHasId, EndedRowsDie, BarredSeen
<1>5. overtaken \subseteq overtaken' /\ overtaken' \subseteq barred
  BY DEF TypeOK, Rotate
<1>6. \A k \in Sids \ overtaken' : k \in barred => token'[k] = token[k]
  BY DEF Rotate, TypeOK
<1>7. Outlasts'
  BY <1>1, <1>5, <1>6 DEF Sessions, Outlasts, TypeOK
<1>8. token' \in [Sids -> 0..JWT_ACCESS_EXPIRY]
  <2>1. JWT_ACCESS_EXPIRY \in 0..JWT_ACCESS_EXPIRY
    BY NeverType
  <2>2. token' = token \/ token' = [token EXCEPT ![i] = JWT_ACCESS_EXPIRY]
    BY DEF Rotate
  <2> QED
    BY <2>1, <2>2 DEF TypeOK
<1>9. Handlers'
  BY <1>1, <1>3, RestFits
<1>10. TypeOK'
  BY <1>1, <1>2, <1>5, <1>8 DEF TypeOK, Row
<1> QED
  BY <1>4, <1>7, <1>9, <1>10 DEF Sessions

(* An entry of the list lives as long as any token.                        *)
LEMMA BarStep ==
  ASSUME IInv, NEW p \in Procs, Bar(p)
  PROVE  IInv'
<1> USE DEF IInv
<1>1. h[p] \in Handler /\ Fits(h[p]) /\ Fits(Idle)
  BY IdleFits DEF Handlers
<1>2. PICK i \in h[p].ids :
        /\ list' = [list EXCEPT ![i] = Ttl] /\ barred' = barred \cup {i}
        /\ h' = [h EXCEPT ![p] =
                   IF h[p].ids # {i} \/ h[p].rows THEN [h[p] EXCEPT !.ids = @ \ {i}]
                   ELSE IF h[p].at = "bar" THEN [@ EXCEPT !.at = "create", !.ids = {}]
                   ELSE Idle]
  BY DEF Bar
<1>3. UNCHANGED <<status, gone, susp, row, token, ended, overtaken, crossed>>
  BY DEF Bar, account
<1>4. i \in Sids /\ Seen(i)
  BY <1>1 DEF Handler, Fits
<1>5. \A k : Seen(k) <=> Seen(k)'
  BY <1>3 DEF Seen, Known
<1> DEFINE fewer == [h[p] EXCEPT !.ids = @ \ {i}]
           done == [h[p] EXCEPT !.at = "create", !.ids = {}]
           now == IF h[p].ids # {i} \/ h[p].rows THEN fewer
                  ELSE IF h[p].at = "bar" THEN done ELSE Idle
<1>6. Fits(fewer)
  BY <1>1 DEF Fits, Handler
<1>7. h[p].at = "bar" => Fits(done)
  BY <1>1 DEF Fits, Handler, Place
<1>8. h' = [h EXCEPT ![p] = now]
  <2>1. CASE h[p].ids # {i} \/ h[p].rows
    <3>1. h' = [h EXCEPT ![p] = fewer]
      BY <1>2, <2>1
    <3> QED
      BY <2>1, <3>1
  <2>2. CASE ~(h[p].ids # {i} \/ h[p].rows) /\ h[p].at = "bar"
    BY <1>2, <2>2
  <2>3. CASE ~(h[p].ids # {i} \/ h[p].rows) /\ h[p].at # "bar"
    BY <1>2, <2>3
  <2> QED
    BY <2>1, <2>2, <2>3
<1> HIDE DEF fewer, done
<1>9. Fits(now)
  BY <1>1, <1>6, <1>7
<1> HIDE DEF now
<1>10. Handlers'
  BY <1>5, <1>8, <1>9, HandlersStep
<1>11. /\ list' \in [Sids -> 0..JWT_ACCESS_EXPIRY]
       /\ \A k \in Sids : list'[k] = IF k = i THEN JWT_ACCESS_EXPIRY ELSE list[k]
  <2>1. JWT_ACCESS_EXPIRY \in 0..JWT_ACCESS_EXPIRY
    BY NeverType
  <2>2. list' = [list EXCEPT ![i] = JWT_ACCESS_EXPIRY]
    BY <1>2 DEF Ttl
  <2> QED
    BY <2>1, <2>2 DEF TypeOK
<1>12. Outlasts'
  BY <1>2, <1>3, <1>4, <1>11, NeverType DEF Sessions, Outlasts, TypeOK
<1>13. BarredSeen' /\ Distinct' /\ ActiveHasId' /\ EndedRowsDie'
  BY <1>2, <1>3, <1>4, <1>5 DEF Sessions, BarredSeen, Distinct, ActiveHasId, EndedRowsDie
<1>14. TypeOK'
  BY <1>2, <1>3, <1>4, <1>11 DEF TypeOK
<1> QED
  BY <1>10, <1>12, <1>13, <1>14 DEF Sessions

-----------------------------------------------------------------------------
(* The sweep, and time.                                                    *)
LEMMA SweepSteps ==
  ASSUME IInv, Sweep \/ SweepFail
  PROVE  IInv'
<1> USE DEF IInv
<1>1. UNCHANGED <<gone, row, token, list, ended, barred, overtaken, h>>
  BY DEF Sweep, SweepList, SweepLook, SweepCommit, SweepFail, account, sessions, history
<1>2. Handlers'
  BY <1>1 DEF Handlers, Fits, Seen, Known
<1>3. crossed' \in BOOLEAN
  BY DEF Sweep, SweepList, SweepLook, SweepCommit, SweepFail, history, TypeOK
<1>4. status' \in {"ACTIVE", "SUSPENDED"} /\ susp' \in [Suspensions -> Suspension]
  <2>1. [at |-> "lifted", left |-> 0] \in Suspension
    BY NeverType DEF Suspension
  <2>2. susp \in [Suspensions -> Suspension] /\ status \in {"ACTIVE", "SUSPENDED"}
    BY DEF TypeOK, Suspension
  <2>3. CASE SweepCommit
    BY <2>1, <2>2, <2>3 DEF SweepCommit, Lift
  <2>4. CASE SweepList \/ SweepLook \/ SweepFail
    BY <2>2, <2>4 DEF SweepList, SweepLook, SweepFail, account
  <2> QED
    BY <2>3, <2>4 DEF Sweep
<1> QED
  BY <1>1, <1>2, <1>3, <1>4, QuietStep DEF TypeOK

(* Time passes: tokens and list entries grow old.                          *)
LEMMA TickStep ==
  ASSUME IInv, Tick
  PROVE  IInv'
<1> USE DEF IInv
<1>1. UNCHANGED <<status, gone, row, h, ended, barred, overtaken, crossed>>
  BY DEF Tick, account, history
<1>2. \A i \in Sids : token'[i] = Less(token[i]) /\ list'[i] = Less(list[i])
  BY DEF Tick
<1>3. \A i \in Sids : token[i] \in 0..JWT_ACCESS_EXPIRY /\ list[i] \in 0..JWT_ACCESS_EXPIRY
  BY DEF TypeOK
<1>4. token' \in [Sids -> 0..JWT_ACCESS_EXPIRY] /\ list' \in [Sids -> 0..JWT_ACCESS_EXPIRY]
  BY <1>3, NeverType DEF Tick, Less
<1>5. susp' \in [Suspensions -> Suspension]
  <2>1. \A s \in Suspensions : susp[s] \in Suspension /\ Less(susp[s].left) \in 0..Never
    <3>1. \A n \in 0..Never : Less(n) \in 0..Never
      BY NeverType DEF Less
    <3>2. \A s \in Suspensions : susp[s] \in Suspension /\ susp[s].left \in 0..Never
      BY DEF TypeOK, Suspension
    <3> QED
      BY <3>1, <3>2
  <2> QED
    BY <2>1 DEF Tick, Suspension
<1>6. Outlasts'
  BY <1>1, <1>2, <1>3, NeverType DEF Sessions, Outlasts, Less, TypeOK
<1>7. Sessions'
  BY <1>1, <1>6 DEF Sessions, Distinct, ActiveHasId, EndedRowsDie, BarredSeen, Seen, Known
<1>8. Handlers'
  BY <1>1 DEF Handlers, Fits, Seen, Known
<1>9. TypeOK'
  BY <1>1, <1>4, <1>5 DEF TypeOK, Suspension
<1> QED
  BY <1>7, <1>8, <1>9

(* Every step keeps the invariant.                                         *)
LEMMA InvariantStep == IInv /\ [Next]_vars => IInv'
<1> SUFFICES ASSUME IInv, [Next]_vars PROVE IInv'
  OBVIOUS
<1>1. CASE UNCHANGED vars
  <2>1. Handlers'
    BY <1>1 DEF IInv, vars, account, sessions, history, Handlers, Fits, Seen, Known
  <2> QED
    BY <1>1, <2>1, QuietStep DEF IInv, TypeOK, Suspension, vars
<1>2. ASSUME NEW p \in Procs, Step(p) PROVE IInv'
  BY <1>2, LimitStep, EndingSteps, CreateStep, OtherQuietSteps, RotateStep, FindStep, BarStep DEF Step
<1>3. CASE Next
  BY <1>2, <1>3, MemberAsks, StaffAsks, EjectStep, SweepSteps, TickStep DEF Next
<1> QED
  BY <1>1, <1>3

(* The invariant holds at first.                                           *)
LEMMA InvariantInit == Init => IInv
<1> SUFFICES ASSUME Init PROVE IInv
  OBVIOUS
<1>1. Handlers
  BY IdleFits DEF Init, Handlers, Fits
<1>2. \A d \in Devices : row[d].id = 0 /\ ~row[d].active /\ row[d] \in Row
  BY DEF Init, NoRow, Row
<1>3. gone \in BOOLEAN /\ crossed \in BOOLEAN
  BY Zenon DEF Init
<1>4. susp \in [Suspensions -> Suspension]
  BY NeverType DEF Init, NoSuspension, Suspension
<1>5. row \in [Devices -> Row]
  BY <1>2 DEF Init
<1>6. TypeOK
  BY <1>3, <1>4, <1>5, NeverType DEF Init, TypeOK, Suspension, Row
<1>7. Sessions
  BY <1>2 DEF Init, Sessions, Distinct, ActiveHasId, EndedRowsDie, BarredSeen, Outlasts
<1> QED
  BY <1>1, <1>6, <1>7 DEF IInv

(* The tables keep their types.                                            *)
THEOREM TypeCorrect == Spec => []TypeOK
<1>1. IInv => TypeOK
  BY DEF IInv
<1> QED
  BY <1>1, InvariantInit, InvariantStep, PTL DEF Spec

(* A session that was ended is not refreshed, in whatever order a refresh  *)
(* under way, a sign-in on the same device and the ending came.            *)
THEOREM EndedIsEnded == Spec => []EndedNeverRefreshes
<1>1. IInv => EndedNeverRefreshes
  BY DEF IInv, Sessions, EndedRowsDie, EndedNeverRefreshes, Refreshable, LiveRow
<1> QED
  BY <1>1, InvariantInit, InvariantStep, PTL DEF Spec

(* Whoever was put on the revocation list stays out, for every lifetime of *)
(* a token, unless a refresh under way overtook the sign-out.              *)
THEOREM SignedOutIsOut == Spec => []SignedOutStaysOut
<1>1. IInv => SignedOutStaysOut
  BY DEF IInv, TypeOK, Sessions, Outlasts, SignedOutStaysOut, Accepted
<1> QED
  BY <1>1, InvariantInit, InvariantStep, PTL DEF Spec

-----------------------------------------------------------------------------
(* The sweep against the decisions about suspensions.  While none overlaps *)
(* it, nothing can come into force between its look and its commit: what   *)
(* it found free to end is still the only one.                             *)
SweepType ==
  sweep \in [at : {"idle", "next", "commit"}, due : SUBSET Suspensions, of : Suspensions \cup {0},
             free : BOOLEAN]

SweepAlone ==
  ~crossed =>
    /\ sweep.at # "idle" => \A p \in Procs : ~Deciding(p)
    /\ sweep.at = "commit" /\ sweep.free => NothingElse(sweep.of)

EInv == SweepType /\ SweepAlone

(* No decision begins, no sweep goes on, and no more is in force.          *)
LEMMA NothingNew ==
  ASSUME EInv, sweep' = sweep, crossed' = crossed, InForce' \subseteq InForce,
         \A p \in Procs : Deciding(p)' => Deciding(p)
  PROVE  EInv'
BY DEF EInv, SweepType, SweepAlone, NothingElse

(* A handler's next step is none that decides.                             *)
LEMMA NoDecider ==
  ASSUME Handlers, NEW p \in Procs, NEW now, h' = [h EXCEPT ![p] = now],
         now.at \notin {"suspend", "change", "reactivate", "delete"}
  PROVE  \A q \in Procs : Deciding(q)' => Deciding(q)
BY DEF Handlers, Deciding

(* A request: one that decides while the sweep is under way crosses it.    *)
LEMMA ExpiryAsks ==
  ASSUME IInv, EInv, NEW p \in Procs, Member(p) \/ Staff(p)
  PROVE  EInv'
<1>1. sweep' = sweep /\ InForce' = InForce
  BY DEF Member, Staff, SignIn, Refresh, SignOut, Delete, Suspend, Change, Reactivate, AskDeciding, Ask, InForce
<1>2. ASSUME NEW doing, AskDeciding(p, doing) PROVE EInv'
  <2>1. crossed' = (crossed \/ Crossing(p))
    BY <1>2 DEF AskDeciding
  <2>2. sweep.at # "idle" => crossed'
    BY <2>1 DEF Crossing
  <2> QED
    BY <1>1, <2>1, <2>2 DEF EInv, SweepType, SweepAlone
<1>3. ASSUME NEW doing, Ask(p, doing), crossed' = crossed,
             doing.at \notin {"suspend", "change", "reactivate", "delete"}
      PROVE  EInv'
  <2>1. \A q \in Procs : Deciding(q)' => Deciding(q)
    BY <1>3, NoDecider DEF IInv, Ask
  <2> QED
    BY <1>1, <1>3, <2>1, NothingNew
<1>4. ASSUME NEW d \in Devices, SignIn(p, d) PROVE EInv'
  <2>1. [Idle EXCEPT !.at = "limit", !.for = d].at = "limit"
    BY DEF Idle
  <2> QED
    BY <1>3, <1>4, <2>1 DEF SignIn
<1>5. ASSUME NEW i \in Sids, Refresh(p, i) PROVE EInv'
  <2>1. [Idle EXCEPT !.at = "account", !.for = i].at = "account"
    BY DEF Idle
  <2> QED
    BY <1>3, <1>5, <2>1 DEF Refresh
<1>6. ASSUME NEW i \in Sids \cup {0}, SignOut(p, i) PROVE EInv'
  <2>1. [Idle EXCEPT !.at = "find", !.for = i].at = "find"
    BY DEF Idle
  <2> QED
    BY <1>3, <1>6, <2>1 DEF SignOut
<1>7. CASE Delete(p) \/ Staff(p)
  <2>1. \E doing : AskDeciding(p, doing)
    BY <1>7 DEF Delete, Staff, Suspend, Change, Reactivate
  <2> QED
    BY <1>2, <2>1
<1> QED
  BY <1>4, <1>5, <1>6, <1>7 DEF Member

(* A handler's step writes a suspension only where it has decided, which   *)
(* none does while the sweep is under way, and leaves it deciding nothing. *)
LEMMA ExpirySteps ==
  ASSUME IInv, EInv, NEW p \in Procs, Step(p)
  PROVE  EInv'
<1> USE DEF IInv
<1>1. sweep' = sweep /\ crossed' = crossed
  BY DEF Step, Limit, Evict, Create, LookAtAccount, Rotate, Find, End, Bar, WriteSuspension, WriteChange,
         WriteReactivation, Anonymise, Abandon, history
<1>2. PICK now : h' = [h EXCEPT ![p] = now] /\ now.at \notin {"suspend", "change", "reactivate", "delete"}
  <2>0. h[p] \in Handler /\ Idle.at = "idle"
    BY DEF Handlers, Idle
  <2> DEFINE GoesOn(now) == /\ h' = [h EXCEPT ![p] = now]
                            /\ now.at \notin {"suspend", "change", "reactivate", "delete"}
  <2>1. ASSUME NEW step \in Place \ {"suspend", "change", "reactivate", "delete"}, GoTo(p, step)
        PROVE  \E now : GoesOn(now)
    <3> DEFINE to == [h[p] EXCEPT !.at = step]
    <3>1. to.at = step
      BY <2>0 DEF Handler
    <3>2. h' = [h EXCEPT ![p] = to]
      BY <2>1 DEF GoTo
    <3> HIDE DEF to
    <3> QED
      BY <3>1, <3>2
  <2>2. ASSUME Rest(p) PROVE \E now : GoesOn(now)
    BY <2>0, <2>2 DEF Rest
  <2>3. CASE Limit(p)
    <3>1. CASE ~GoTo(p, "create")
      <4>1. PICK ids : h' = [h EXCEPT ![p].at = "evict", ![p].ids = ids]
        BY <2>3, <3>1 DEF Limit
      <4> DEFINE to == [h[p] EXCEPT !.at = "evict", !.ids = ids]
      <4>2. to.at = "evict" /\ h' = [h EXCEPT ![p] = to]
        BY <2>0, <4>1 DEF Handler
      <4> HIDE DEF to
      <4> QED
        BY <4>2
    <3> QED
      BY <2>1, <3>1 DEF Place
  <2>4. CASE Evict(p)
    BY <2>1, <2>2, <2>4 DEF Evict, Place
  <2>5. CASE Create(p) \/ Rotate(p) \/ WriteChange(p) \/ WriteReactivation(p) \/ Anonymise(p) \/ Abandon(p)
    BY <2>2, <2>5 DEF Create, Rotate, WriteChange, WriteReactivation, Anonymise, Abandon
  <2>6. CASE LookAtAccount(p)
    BY <2>1, <2>2, <2>6 DEF LookAtAccount, Place
  <2>7. CASE Find(p)
    <3>1. PICK ids : h' = [h EXCEPT ![p].at = "end", ![p].rows = TRUE, ![p].ids = ids]
      BY <2>7 DEF Find
    <3> DEFINE to == [h[p] EXCEPT !.at = "end", !.rows = TRUE, !.ids = ids]
    <3>2. to.at = "end" /\ h' = [h EXCEPT ![p] = to]
      BY <2>0, <3>1 DEF Handler
    <3> HIDE DEF to
    <3> QED
      BY <3>2
  <2>8. CASE End(p)
    <3> DEFINE to == IF h[p].ids = {} THEN Idle ELSE [h[p] EXCEPT !.rows = FALSE]
    <3>1. to.at \in {"idle", "end"} /\ h' = [h EXCEPT ![p] = to]
      BY <2>0, <2>8 DEF End, Handler
    <3> HIDE DEF to
    <3> QED
      BY <3>1
  <2>9. CASE Bar(p)
    <3>1. PICK i \in h[p].ids :
            h' = [h EXCEPT ![p] =
                    IF h[p].ids # {i} \/ h[p].rows THEN [h[p] EXCEPT !.ids = @ \ {i}]
                    ELSE IF h[p].at = "bar" THEN [@ EXCEPT !.at = "create", !.ids = {}]
                    ELSE Idle]
      BY <2>9 DEF Bar
    <3> DEFINE fewer == [h[p] EXCEPT !.ids = @ \ {i}]
               done == [h[p] EXCEPT !.at = "create", !.ids = {}]
    <3>2. fewer.at = h[p].at /\ done.at = "create" /\ h[p].at \in {"end", "bar"}
      BY <2>0, <2>9 DEF Handler, Bar
    <3>3. h' = [h EXCEPT ![p] = fewer] \/ h' = [h EXCEPT ![p] = done] \/ h' = [h EXCEPT ![p] = Idle]
      BY <3>1
    <3> HIDE DEF fewer, done
    <3> QED
      BY <2>0, <3>2, <3>3
  <2>10. CASE WriteSuspension(p)
    <3>1. [Idle EXCEPT !.at = "find"].at = "find"
      BY DEF Idle
    <3> QED
      BY <2>10, <3>1 DEF WriteSuspension
  <2> QED
    BY <2>3, <2>4, <2>5, <2>6, <2>7, <2>8, <2>9, <2>10 DEF Step
<1>3. \A q \in Procs : Deciding(q)' => Deciding(q)
  BY <1>2, NoDecider
<1>4. CASE Deciding(p)
  BY <1>1, <1>3, <1>4 DEF EInv, SweepType, SweepAlone
<1>5. CASE ~Deciding(p)
  <2>1. susp' = susp
    BY <1>5 DEF Deciding, Step, Limit, Evict, Create, LookAtAccount, Rotate, Find, End, Bar, WriteSuspension,
                WriteChange, WriteReactivation, Anonymise, Abandon
  <2>2. InForce' = InForce
    BY <2>1 DEF InForce
  <2> QED
    BY <1>1, <1>3, <2>2, NothingNew
<1> QED
  BY <1>4, <1>5

(* The sweep's own steps: what it finds free it has just looked at.        *)
LEMMA ExpirySweeps ==
  ASSUME EInv, Sweep \/ SweepFail
  PROVE  EInv'
<1>1. h' = h
  BY DEF Sweep, SweepList, SweepLook, SweepCommit, SweepFail
<1>2. \A p \in Procs : Deciding(p)' <=> Deciding(p)
  BY <1>1 DEF Deciding
<1>3. CASE SweepList
  <2>1. sweep' = [AtRest EXCEPT !.at = "next", !.due = Due] /\ Due \subseteq Suspensions
    BY <1>3 DEF SweepList, Due
  <2>2. SweepType' /\ sweep'.at = "next"
    BY <2>1 DEF SweepType, AtRest
  <2>3. ~crossed' => \A p \in Procs : ~Deciding(p)
    BY <1>3 DEF SweepList
  <2> QED
    BY <1>2, <2>2, <2>3 DEF EInv, SweepAlone
<1>4. CASE SweepLook
  <2>1. PICK s \in sweep.due :
          sweep' = [sweep EXCEPT !.at = "commit", !.of = s, !.free = NothingElse(s)]
    BY <1>4 DEF SweepLook
  <2>2. s \in Suspensions /\ NothingElse(s) \in BOOLEAN
    BY DEF EInv, SweepType, NothingElse
  <2>3. SweepType' /\ sweep'.of = s /\ (sweep'.free => NothingElse(s))
    BY <2>1, <2>2 DEF EInv, SweepType
  <2>4. UNCHANGED <<susp, crossed>> /\ sweep.at = "next"
    BY <1>4 DEF SweepLook, history
  <2>5. NothingElse(s)' <=> NothingElse(s)
    BY <2>4 DEF NothingElse, InForce
  <2> QED
    BY <1>2, <2>3, <2>4, <2>5 DEF EInv, SweepAlone
<1>5. CASE SweepCommit \/ SweepFail
  <2>1. sweep' = Swept /\ crossed' = crossed /\ sweep.at = "commit"
    BY <1>5 DEF SweepCommit, SweepFail, history
  <2>2. SweepType' /\ sweep'.at # "commit"
    BY <2>1 DEF EInv, SweepType, Swept, AtRest
  <2> QED
    BY <1>2, <2>1, <2>2 DEF EInv, SweepAlone
<1> QED
  BY <1>3, <1>4, <1>5 DEF Sweep

(* Time only ends suspensions.                                             *)
LEMMA ExpiryTick ==
  ASSUME TypeOK, EInv, Tick
  PROVE  EInv'
<1>1. UNCHANGED <<h, sweep, crossed>>
  BY DEF Tick, history
<1>2. InForce' \subseteq InForce
  <2> SUFFICES ASSUME NEW s \in Suspensions, susp'[s].at = "live", susp'[s].left > 0
               PROVE  susp[s].at = "live" /\ susp[s].left > 0
    BY DEF InForce
  <2>1. susp[s] \in Suspension
    BY DEF TypeOK, Suspension
  <2>2. susp'[s] = susp[s] \/ susp'[s] = [susp[s] EXCEPT !.left = Less(@)]
    BY DEF Tick
  <2> QED
    BY <2>1, <2>2, NeverType DEF Suspension, Less
<1>3. \A p \in Procs : Deciding(p)' => Deciding(p)
  BY <1>1 DEF Deciding
<1> QED
  BY <1>1, <1>2, <1>3, NothingNew

(* Every step keeps the sweep's invariant.                                 *)
LEMMA ExpiryStep == IInv /\ EInv /\ [Next]_vars => EInv'
<1> SUFFICES ASSUME IInv, EInv, [Next]_vars PROVE EInv'
  OBVIOUS
<1>1. CASE UNCHANGED vars \/ \E ids \in SUBSET Sids : Eject(ids)
  <2>1. UNCHANGED <<susp, h, sweep, crossed>>
    BY <1>1 DEF vars, Eject, history
  <2>2. InForce' = InForce /\ \A p \in Procs : Deciding(p)' => Deciding(p)
    BY <2>1 DEF InForce, Deciding
  <2> QED
    BY <2>1, <2>2, NothingNew
<1> QED
  BY <1>1, ExpiryAsks, ExpirySteps, ExpirySweeps, ExpiryTick DEF Next, IInv

(* The sweep lets nobody in whom another suspension keeps out, unless      *)
(* decisions overlap.                                                      *)
THEOREM ExpiryIsHarmless == Spec => ExpiryUndoesNothing
<1>1. Init => EInv
  BY DEF Init, AtRest, EInv, SweepType, SweepAlone
<1>2. IInv /\ EInv /\ [Next]_vars =>
        [sweep.at = "commit" /\ status = "SUSPENDED" /\ status' = "ACTIVE" /\ ~crossed
           => InForce \ {sweep.of} = {}]_vars
  <2> SUFFICES ASSUME IInv, EInv, Next, sweep.at = "commit", status = "SUSPENDED", status' = "ACTIVE", ~crossed
               PROVE  InForce \ {sweep.of} = {}
    BY DEF vars, account
  <2>1. \A p \in Procs : ~Deciding(p)
    BY DEF EInv, SweepAlone
  <2>2. ASSUME NEW p \in Procs, WriteReactivation(p) PROVE FALSE
    BY <2>1, <2>2 DEF WriteReactivation, Deciding
  <2>3. SweepCommit
    BY <2>2 DEF Next, Member, Staff, Step, Sweep, SignIn, Refresh, SignOut, Delete, Suspend, Change, Reactivate,
                AskDeciding, Ask, Limit, Evict, Create, LookAtAccount, Rotate, Find, End, Bar, WriteSuspension,
                WriteChange, Anonymise, Abandon, SweepList, SweepLook, SweepFail, Tick, Eject, account
  <2> QED
    BY <2>3 DEF SweepCommit, EInv, SweepAlone, NothingElse
<1> QED
  BY <1>1, <1>2, InvariantInit, InvariantStep, ExpiryStep, PTL DEF Spec, ExpiryUndoesNothing
=============================================================================
