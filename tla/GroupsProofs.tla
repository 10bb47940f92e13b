---------------------------- MODULE GroupsProofs ----------------------------
(***************************************************************************)
(* What holds of a group for every number of handlers and users: types,    *)
(* that the rows, the thread and the counter agree, and that a removal is  *)
(* final until an invitation.                                              *)
(*                                                                         *)
(* A handler writes on what it read.  As long as no two handlers about one *)
(* member overlap, what it read of his membership still stands when it     *)
(* writes: every write to a membership is by a handler about that member.  *)
(* However they overlap, a handler that has not been left behind by the    *)
(* removal of its member has read that removal (HasRead).                  *)
(***************************************************************************)
EXTENDS Groups, FiniteSetTheorems, TLAPS

(* A handler of the types that has something it may write.                 *)
Fits(doing) ==
  /\ doing \in Handler
  /\ doing.at = "join" => doing.what \in {"MEMBER", "PENDING"}
  /\ doing.at = "decide" => doing.what \in {"MEMBER", "REJECTED"}
  /\ doing.at = "update" => doing.what \in Policy

(* No two handlers are about one member.                                   *)
Busy(p) == h[p].at # "idle"
Alone == \A p, q \in Procs : p # q /\ Busy(p) /\ Busy(q) => h[p].of # h[q].of

(* What a handler read of its member is still so.                          *)
Outside == {"NONE", "REMOVED", "REJECTED"}
Fresh(p) ==
  LET u == h[p].of
  IN  /\ h[p].at = "join" => state[u] \in Outside /\ (state[u] = "REMOVED" => h[p].invited)
      /\ h[p].at = "leave" => state[u] \notin {"NONE", "REMOVED"}
      /\ h[p].at \in {"leave", "remove"} => (h[p].counted <=> u \in Members)
      /\ h[p].at = "decide" => state[u] = "PENDING"

Serial == Alone /\ \A p \in Procs : Fresh(p)
Books == thread = Members /\ memberCount = Cardinality(Members)

(* Of a member who is removed, a handler not left behind has read it: it   *)
(* may only be an invited one's return, a removal, or nothing to his row.  *)
HasRead(p) ==
  state[h[p].of] = "REMOVED" =>
    h[p].at \notin {"leave", "decide"} /\ (h[p].at = "join" => h[p].invited)

IInv ==
  /\ TypeOK /\ \A p \in Procs : Fits(h[p])
  /\ invited \subseteq welcome
  /\ \A p \in Procs \ late : HasRead(p)
  /\ ~crossed /\ ~deleted => Serial /\ Books

-----------------------------------------------------------------------------
(* A handler at rest fits.                                                 *)
LEMMA IdleFits == Fits(Idle) /\ Idle.at = "idle"
BY ConstantsAssumption DEF Fits, Idle, Handler

(* The handlers after one of them was replaced.                            *)
LEMMA HandlersStep ==
  ASSUME IInv, NEW p \in Procs, NEW now, Fits(now), h' = [h EXCEPT ![p] = now]
  PROVE  /\ h' \in [Procs -> Handler] /\ \A q \in Procs : Fits(h'[q])
         /\ \A q \in Procs : h'[q] = IF q = p THEN now ELSE h[q]
<1>1. \A q \in Procs : h'[q] = IF q = p THEN now ELSE h[q]
  BY DEF IInv, TypeOK
<1>2. h' \in [Procs -> Handler]
  BY DEF IInv, TypeOK, Fits
<1> QED
  BY <1>1, <1>2 DEF IInv

(* A handler begins: it has just read what it keeps.                       *)
LEMMA BeginStep ==
  ASSUME IInv, NEW p \in Procs, NEW doing, Fits(doing), Ask(p, doing),
         LET u == doing.of
         IN  /\ doing.at = "join" => state[u] \in Outside /\ (state[u] = "REMOVED" => doing.invited)
             /\ doing.at = "leave" => state[u] \notin {"NONE", "REMOVED"}
             /\ doing.at \in {"leave", "remove"} => (doing.counted <=> u \in Members)
             /\ doing.at = "decide" => state[u] = "PENDING"
  PROVE  IInv'
<1>1. h' = [h EXCEPT ![p] = doing]
  BY DEF Ask
<1>2. UNCHANGED <<state, invited, thread, memberCount, joinPolicy, deleted, welcome, late>>
  BY DEF Ask, books, group
<1>3. \A q \in Procs : h'[q] = IF q = p THEN doing ELSE h[q]
  BY <1>1, HandlersStep
<1>4. TypeOK' /\ \A q \in Procs : Fits(h'[q])
  <2>1. asked' \in 0..MaxAsked /\ crossed' \in BOOLEAN
    BY ConstantsAssumption DEF Ask, IInv, TypeOK
  <2> QED
    BY <1>1, <1>2, <2>1, HandlersStep DEF IInv, TypeOK
<1>5. ASSUME ~crossed', ~deleted' PROVE Serial' /\ Books'
  <2>1. ~crossed /\ \A q \in Procs \ {p} : h[q].at # "idle" => h[q].of # doing.of
    BY <1>5, IdleFits DEF Ask
  <2>2. Serial /\ Books
    BY <1>2, <1>5, <2>1 DEF IInv
  <2>3. Alone'
    BY <1>3, <2>1, <2>2 DEF Alone, Serial, Busy
  <2>4. Members' = Members
    BY <1>2 DEF Members
  <2>5. \A q \in Procs : Fresh(q)'
    BY <1>2, <1>3, <2>2, <2>4 DEF Fresh, Serial
  <2> QED
    BY <1>2, <2>2, <2>3, <2>4, <2>5 DEF Serial, Books
<1>6. \A q \in Procs \ late' : HasRead(q)'
  BY <1>2, <1>3 DEF IInv, HasRead
<1> QED
  BY <1>2, <1>4, <1>5, <1>6 DEF IInv

(* Every request begins a handler so.                                      *)
LEMMA RequestStep ==
  ASSUME IInv, NEW p \in Procs, Request(p)
  PROVE  IInv'
<1>1. ASSUME NEW u \in Users, Join(p, u) PROVE IInv'
  <2> DEFINE known == u \in invited
             doing == [Idle EXCEPT !.at = "join", !.of = u, !.invited = known,
                         !.what = IF joinPolicy = "OPEN" \/ u \in invited THEN "MEMBER" ELSE "PENDING"]
  <2>0. known \in BOOLEAN
    OBVIOUS
  <2>3. state[u] \in Outside /\ (state[u] = "REMOVED" => known) /\ Ask(p, doing)
    BY <1>1 DEF Join, Outside
  <2> HIDE DEF known
  <2>1. Fits(doing)
    BY <2>0, ConstantsAssumption DEF Fits, Idle, Handler, Standing
  <2>2. doing.at = "join" /\ doing.of = u /\ doing.invited = known
    BY DEF Idle
  <2> HIDE DEF doing
  <2> QED
    BY <2>0, <2>1, <2>2, <2>3, BeginStep
<1>2. ASSUME NEW u \in Users, Leave(p, u) PROVE IInv'
  <2> DEFINE in == Counted(u)
             doing == [Idle EXCEPT !.at = "leave", !.of = u, !.counted = in]
  <2>0. in \in BOOLEAN /\ (in <=> u \in Members)
    BY DEF Counted
  <2>3. state[u] \notin {"NONE", "REMOVED"} /\ Ask(p, doing)
    BY <1>2 DEF Leave
  <2> HIDE DEF in
  <2>1. Fits(doing)
    BY <2>0, ConstantsAssumption DEF Fits, Idle, Handler
  <2>2. doing.at = "leave" /\ doing.of = u /\ doing.counted = in
    BY DEF Idle
  <2> HIDE DEF doing
  <2> QED
    BY <2>0, <2>1, <2>2, <2>3, BeginStep
<1>3. ASSUME NEW u \in Users, RemoveMember(p, u) PROVE IInv'
  <2> DEFINE in == Counted(u)
             doing == [Idle EXCEPT !.at = "remove", !.of = u, !.counted = in]
  <2>0. in \in BOOLEAN /\ (in <=> u \in Members)
    BY DEF Counted
  <2>3. Ask(p, doing)
    BY <1>3 DEF RemoveMember
  <2> HIDE DEF in
  <2>1. Fits(doing)
    BY <2>0, ConstantsAssumption DEF Fits, Idle, Handler
  <2>2. doing.at = "remove" /\ doing.of = u /\ doing.counted = in
    BY DEF Idle
  <2> HIDE DEF doing
  <2> QED
    BY <2>0, <2>1, <2>2, <2>3, BeginStep
<1>4. ASSUME NEW u \in Users, NEW d \in {"MEMBER", "REJECTED"}, DecideJoinRequest(p, u, d) PROVE IInv'
  <2> DEFINE doing == [Idle EXCEPT !.at = "decide", !.of = u, !.what = d]
  <2>1. Fits(doing)
    BY DEF Fits, Idle, Handler, Standing
  <2>2. doing.at = "decide" /\ doing.of = u
    BY DEF Idle
  <2>3. state[u] = "PENDING" /\ Ask(p, doing)
    BY <1>4 DEF DecideJoinRequest
  <2> HIDE DEF doing
  <2> QED
    BY <2>1, <2>2, <2>3, BeginStep
<1>5. ASSUME NEW u \in Users, NEW at \in {"decline", "invite"},
             Ask(p, [Idle EXCEPT !.at = at, !.of = u]) PROVE IInv'
  <2> DEFINE doing == [Idle EXCEPT !.at = at, !.of = u]
  <2>1. Fits(doing) /\ doing.at = at
    BY DEF Fits, Idle, Handler
  <2>2. Ask(p, doing)
    BY <1>5
  <2> HIDE DEF doing
  <2> QED
    BY <2>1, <2>2, BeginStep
<1>6. ASSUME NEW policy \in Policy, NEW at \in {"update", "delete"},
             \/ at = "update" /\ Ask(p, [Idle EXCEPT !.at = at, !.what = policy])
             \/ at = "delete" /\ Ask(p, [Idle EXCEPT !.at = at]) PROVE IInv'
  <2> DEFINE doing == IF at = "update" THEN [Idle EXCEPT !.at = at, !.what = policy]
                                       ELSE [Idle EXCEPT !.at = at]
  <2>1. Fits(doing) /\ doing.at = at
    BY ConstantsAssumption DEF Fits, Idle, Handler
  <2>2. Ask(p, doing)
    BY <1>6
  <2> HIDE DEF doing
  <2> QED
    BY <2>1, <2>2, BeginStep
<1> QED
  BY <1>1, <1>2, <1>3, <1>4, <1>5, <1>6 DEF Request, Decline, Invite, Update, Remove, Policy

-----------------------------------------------------------------------------
(* A handler writes the membership of the member it is about, and rests:   *)
(* what the others read of theirs still stands.                            *)
LEMMA OthersFresh ==
  ASSUME IInv, Serial, NEW p \in Procs, Busy(p), Rest(p), state' \in [Users -> Standing],
         \A u \in Users \ {h[p].of} : state'[u] = state[u]
  PROVE  Serial'
<1>1. \A q \in Procs : h'[q] = IF q = p THEN Idle ELSE h[q]
  BY IdleFits, HandlersStep DEF Rest
<1>2. \A q \in Procs : h'[q].at # "idle" => q # p /\ h'[q] = h[q] /\ h[q].of \in Users /\ h[q].of # h[p].of
  BY <1>1, IdleFits DEF Serial, Alone, Busy, IInv, TypeOK, Handler
<1>3. Alone'
  BY <1>2 DEF Serial, Alone, Busy
<1>4. \A q \in Procs : h'[q].at # "idle" => Fresh(q)'
  <2> TAKE q \in Procs
  <2> HAVE h'[q].at # "idle"
  <2>1. h'[q] = h[q] /\ state'[h[q].of] = state[h[q].of] /\ h[q].of \in Users
    BY <1>2
  <2>2. (h[q].of \in Members)' <=> h[q].of \in Members
    BY <2>1 DEF Members
  <2> QED
    BY <2>1, <2>2 DEF Serial, Fresh
<1>5. \A q \in Procs : h'[q].at = "idle" => Fresh(q)'
  BY DEF Fresh
<1> QED
  BY <1>3, <1>4, <1>5 DEF Serial

(* The counter follows the rows when one member enters or leaves.          *)
LEMMA Counting ==
  ASSUME IInv, NEW u \in Users, NEW to \in Standing, state' = [state EXCEPT ![u] = to]
  PROVE  /\ to = "MEMBER" =>
              /\ Members' = Members \cup {u}
              /\ u \notin Members => Cardinality(Members') = Cardinality(Members) + 1
         /\ to \notin {"MEMBER", "ADMIN"} =>
              /\ Members' = Members \ {u}
              /\ u \in Members => Cardinality(Members') = Cardinality(Members) - 1
<1>1. \A v \in Users : state'[v] = IF v = u THEN to ELSE state[v]
  BY DEF IInv, TypeOK
<1>2. IsFiniteSet(Members)
  BY ConstantsAssumption, FS_Subset DEF Members
<1>3. to = "MEMBER" => Members' = Members \cup {u}
  BY <1>1 DEF Members
<1>4. to \notin {"MEMBER", "ADMIN"} => Members' = Members \ {u}
  BY <1>1 DEF Members
<1>5. u \notin Members => Cardinality(Members \cup {u}) = Cardinality(Members) + 1
  BY <1>2, FS_AddElement
<1>6. u \in Members => Cardinality(Members \ {u}) = Cardinality(Members) - 1
  BY <1>2, FS_RemoveElement
<1> QED
  BY <1>3, <1>4, <1>5, <1>6

(* What a write must show: it is of the types, sets the standing of its    *)
(* member, and keeps the books with the rows.                              *)
LEMMA CommitStep ==
  ASSUME IInv, NEW p \in Procs, Busy(p), Rest(p), state' \in [Users -> Standing],
         \A u \in Users \ {h[p].of} : state'[u] = state[u],
         invited' \subseteq welcome', welcome' \subseteq Users, thread' \subseteq Users,
         memberCount' \in Int, joinPolicy' \in Policy, UNCHANGED <<deleted, asked, crossed>>,
         LET u == h[p].of IN state'[u] = "REMOVED" /\ state[u] # "REMOVED" =>
                               h[p].at = "remove" /\ state[u] # "NONE",
         Serial /\ Books => Books'
  PROVE  IInv'
<1>1. late' \subseteq Procs
  BY DEF Rest, Overtaken, IInv, TypeOK
<1>2. TypeOK' /\ \A q \in Procs : Fits(h'[q])
  BY <1>1, IdleFits, HandlersStep DEF Rest, IInv, TypeOK
<1>3. ASSUME NEW q \in Procs \ late' PROVE HasRead(q)'
  <2>1. h'[q] = IF q = p THEN Idle ELSE h[q]
    BY IdleFits, HandlersStep DEF Rest
  <2>2. CASE h'[q].at = "idle"
    BY <2>2 DEF HasRead
  <2>3. CASE h'[q].at # "idle"
    <3>1. q # p /\ h'[q] = h[q] /\ h[q].at # "idle" /\ h[q].of \in Users /\ h[p].of \in Users
      BY <2>1, <2>3, IdleFits DEF IInv, TypeOK, Handler
    <3>2. q \notin late /\ q \notin Overtaken(p)
      BY <1>3, <3>1 DEF Rest
    <3>3. HasRead(q)
      BY <3>2 DEF IInv
    <3>4. state'[h[q].of] = "REMOVED" => state[h[q].of] = "REMOVED"
      BY <3>1, <3>2 DEF Overtaken
    <3> QED
      BY <3>1, <3>3, <3>4 DEF HasRead
  <2> QED
    BY <2>2, <2>3
<1> QED
  BY <1>2, <1>3, OthersFresh DEF IInv

(* A join, a departure, a decision or a removal is written.                *)
LEMMA StandingStep ==
  ASSUME IInv, NEW p \in Procs,
         Joined(p) \/ Left(p) \/ DecidedJoinRequest(p) \/ RemovedMember(p)
  PROVE  IInv'
<1> DEFINE u == h[p].of
<1>1. u \in Users /\ h[p] \in Handler /\ h[p].counted \in BOOLEAN /\ Fits(h[p])
  BY DEF IInv, TypeOK, Handler
<1>2. /\ Busy(p) /\ Rest(p) /\ UNCHANGED <<joinPolicy, deleted, asked, crossed>>
      /\ invited' \subseteq invited /\ welcome' \subseteq welcome
      /\ welcome' # welcome => welcome' = welcome \ {u} /\ invited' = invited \ {u}
  BY DEF Joined, Left, DecidedJoinRequest, RemovedMember, Withdraw, Busy, group
<1>3. invited' \subseteq welcome' /\ welcome' \subseteq Users
  BY <1>2 DEF IInv, TypeOK
<1>0. \A to \in Standing : Set(u, to) => state'[u] = to
  BY <1>1 DEF Set, IInv, TypeOK
<1>4. CASE UNCHANGED <<state, thread, memberCount>>
  <2>1. Books => Books'
    BY <1>4 DEF Books, Members
  <2> QED
    BY <1>2, <1>3, <1>4, <2>1, CommitStep DEF IInv, TypeOK
<1>5. ASSUME NEW to \in Standing, Set(u, to),
             \/ to = "MEMBER" /\ Enter(u)
             \/ to \notin {"MEMBER", "ADMIN"} /\ Exit(u)
             \/ to \notin {"MEMBER", "ADMIN"} /\ UNCHANGED books,
             to = "REMOVED" => h[p].at = "remove" /\ state[u] # "NONE",
             Serial => /\ to = "MEMBER" => u \notin Members
                       /\ to \notin {"MEMBER", "ADMIN"} => (Exit(u) /\ u \in Members) \/ (UNCHANGED books /\ u \notin Members)
      PROVE  IInv'
  <2>1. state' = [state EXCEPT ![u] = to]
    BY <1>5 DEF Set
  <2>2. state' \in [Users -> Standing] /\ \A v \in Users \ {u} : state'[v] = state[v]
    BY <1>1, <2>1 DEF IInv, TypeOK
  <2>3. thread' \subseteq Users /\ memberCount' \in Int
    BY <1>1, <1>5 DEF Enter, Exit, books, IInv, TypeOK
  <2>4. Serial /\ Books => Books'
    <3> SUFFICES ASSUME Serial, Books PROVE Books'
      OBVIOUS
    <3>1. CASE to = "MEMBER"
      <4>1. Enter(u) /\ u \notin Members
        BY <1>5, <3>1
      <4> QED
        BY <1>1, <2>1, <3>1, <4>1, Counting DEF Books, Enter
    <3>2. CASE to \notin {"MEMBER", "ADMIN"} /\ Exit(u) /\ u \in Members
      BY <1>1, <2>1, <3>2, Counting DEF Books, Exit
    <3>3. CASE to \notin {"MEMBER", "ADMIN"} /\ UNCHANGED books /\ u \notin Members
      <4>1. Members' = Members
        <5>1. Members' = Members \ {u}
          BY <1>1, <2>1, <3>3, Counting
        <5> QED
          BY <3>3, <5>1
      <4> QED
        BY <3>3, <4>1 DEF Books, books
    <3> QED
      BY <1>5, <3>1, <3>2, <3>3
  <2> QED
    BY <1>0, <1>2, <1>3, <1>5, <2>2, <2>3, <2>4, CommitStep DEF IInv, TypeOK
<1>6. ASSUME Set(u, "MEMBER"), Enter(u), Serial => u \notin Members PROVE IInv'
  BY <1>1, <1>5, <1>6 DEF Standing
<1>7. ASSUME NEW to \in Standing \ {"MEMBER", "ADMIN"}, Set(u, to), NEW out \in BOOLEAN,
             to = "REMOVED" => h[p].at = "remove" /\ state[u] # "NONE",
             IF out THEN Exit(u) ELSE UNCHANGED books, Serial => (out <=> u \in Members)
      PROVE  IInv'
  BY <1>1, <1>5, <1>7
<1>8. CASE Joined(p)
  <2>1. Serial => u \notin Members
    BY <1>8 DEF Serial, Fresh, Joined, Members, Outside
  <2>2. h[p].what \in {"MEMBER", "PENDING"}
    BY <1>1, <1>8 DEF Fits, Joined
  <2>3. CASE h[p].what = "MEMBER"
    BY <1>4, <1>6, <1>8, <2>1, <2>3 DEF Joined, books
  <2>4. CASE h[p].what = "PENDING"
    BY <1>4, <1>7, <1>8, <2>1, <2>4 DEF Joined, books, Standing
  <2> QED
    BY <2>2, <2>3, <2>4
<1>9. CASE Left(p)
  <2>1. Serial => (h[p].counted <=> u \in Members)
    BY <1>9 DEF Serial, Fresh, Left
  <2> QED
    BY <1>1, <1>4, <1>7, <1>9, <2>1 DEF Left, books, Standing
<1>10. CASE DecidedJoinRequest(p)
  <2>1. Serial => u \notin Members
    BY <1>10 DEF Serial, Fresh, DecidedJoinRequest, Members
  <2>2. h[p].what \in {"MEMBER", "REJECTED"}
    BY <1>1, <1>10 DEF Fits, DecidedJoinRequest
  <2>3. CASE h[p].what = "MEMBER"
    BY <1>4, <1>6, <1>10, <2>1, <2>3 DEF DecidedJoinRequest, books
  <2>4. CASE h[p].what = "REJECTED"
    BY <1>4, <1>7, <1>10, <2>1, <2>4 DEF DecidedJoinRequest, books, Standing
  <2> QED
    BY <2>2, <2>3, <2>4
<1>11. CASE RemovedMember(p)
  <2>1. Serial => (h[p].counted <=> u \in Members)
    BY <1>11 DEF Serial, Fresh, RemovedMember
  <2> QED
    BY <1>1, <1>4, <1>7, <1>11, <2>1 DEF RemovedMember, books, Standing
<1> QED
  BY <1>8, <1>9, <1>10, <1>11

(* The writes that touch no membership, and the end of the group.          *)
LEMMA OtherCommits ==
  ASSUME IInv, NEW p \in Procs,
         Declined(p) \/ Invited(p) \/ Updated(p) \/ RemovedGroup(p)
  PROVE  IInv'
<1>1. h[p] \in Handler /\ h[p].of \in Users /\ Fits(h[p])
  BY DEF IInv, TypeOK, Handler
<1>2. CASE Declined(p) \/ Invited(p) \/ Updated(p)
  <2>1. /\ Busy(p) /\ Rest(p)
        /\ UNCHANGED <<state, thread, memberCount, deleted, asked, crossed>>
    BY <1>2 DEF Declined, Invited, Updated, Busy, books, group
  <2>2. invited' \subseteq welcome' /\ welcome' \subseteq Users /\ joinPolicy' \in Policy
    BY <1>1, <1>2 DEF Declined, Invited, Updated, group, Fits, IInv, TypeOK
  <2>3. Books => Books'
    BY <2>1 DEF Books, Members
  <2> QED
    BY <2>1, <2>2, <2>3, CommitStep DEF IInv, TypeOK
<1>3. CASE RemovedGroup(p)
  <2>1. TypeOK' /\ \A q \in Procs : Fits(h'[q])
    <3>1. late' \subseteq Procs
      BY <1>3 DEF RemovedGroup, Rest, Overtaken, IInv, TypeOK
    <3> QED
      BY <1>3, <3>1, IdleFits, HandlersStep DEF RemovedGroup, Rest, IInv, TypeOK, Standing
  <2>2. \A u \in Users : state'[u] # "REMOVED"
    BY <1>3 DEF RemovedGroup
  <2>3. \A q \in Procs : HasRead(q)'
    BY <2>1, <2>2 DEF HasRead, TypeOK, Handler
  <2> QED
    BY <1>3, <2>1, <2>3 DEF RemovedGroup, IInv
<1> QED
  BY <1>2, <1>3

-----------------------------------------------------------------------------
(* The invariant holds at first.                                           *)
LEMMA InvariantInit == Init => IInv
<1> SUFFICES ASSUME Init PROVE IInv
  OBVIOUS
<1>1. TypeOK
  <2>1. /\ state \in [Users -> Standing] /\ joinPolicy \in Policy /\ asked \in 0..MaxAsked
        /\ invited \subseteq Users /\ thread \subseteq Users /\ welcome \subseteq Users
        /\ memberCount \in Int
    BY ConstantsAssumption DEF Init, Standing, Policy
  <2>2. deleted \in BOOLEAN /\ crossed \in BOOLEAN
    BY Zenon DEF Init
  <2>3. h \in [Procs -> Handler] /\ late \subseteq Procs
    BY IdleFits DEF Init, Fits
  <2> QED
    BY <2>1, <2>2, <2>3 DEF TypeOK
<1>2. \A p \in Procs : Fits(h[p]) /\ h[p].at = "idle"
  BY IdleFits DEF Init
<1>3. Members = {Creator}
  BY ConstantsAssumption DEF Init, Members
<1>4. Cardinality({Creator}) = 1
  BY FS_Singleton
<1> QED
  BY <1>1, <1>2, <1>3, <1>4 DEF Init, IInv, HasRead, Serial, Alone, Busy, Fresh, Books

(* Every step keeps it.                                                    *)
LEMMA InvariantStep == IInv /\ [Next]_vars => IInv'
<1>1. ASSUME IInv, UNCHANGED vars PROVE IInv'
  BY <1>1 DEF vars, IInv, TypeOK, Fits, HasRead, Serial, Alone, Busy, Fresh, Books, Members, books, group
<1> QED
  BY <1>1, RequestStep, StandingStep, OtherCommits DEF Next, Commit

(* TypeOK: every row, handler and counter is what the schema allows.       *)
THEOREM TypeCorrect == Spec => []TypeOK
<1>1. IInv => TypeOK
  BY DEF IInv
<1> QED
  BY <1>1, InvariantInit, InvariantStep, PTL DEF Spec

(* BooksAgree: "membership of a group and participation in its thread are  *)
(* one thing said twice" (addToThread), and the counter says it again.     *)
THEOREM BooksAlwaysAgree == Spec => []BooksAgree
<1>1. IInv => BooksAgree
  BY DEF IInv, BooksAgree, Books
<1> QED
  BY <1>1, InvariantInit, InvariantStep, PTL DEF Spec

(* RemovalIsFinal: a removal ends by an invitation given after it, or by   *)
(* the write of a handler that had read before it, and by nothing else     *)
(* (join), however handlers overlap.                                       *)
THEOREM RemovedIsOut == Spec => RemovalIsFinal
<1>1. IInv /\ [Next]_vars => [StaysOut]_vars
  <2> SUFFICES ASSUME IInv, Next, NEW u \in Users, state[u] = "REMOVED", state'[u] # "REMOVED", ~deleted'
               PROVE  u \in welcome \/ \E p \in late : h[p].of = u /\ h'[p] = Idle
    BY Zenon DEF StaysOut
  <2>1. state' # state
    OBVIOUS
  <2>2. PICK p \in Procs : Request(p) \/ Commit(p)
    BY DEF Next
  <2>3. ~Request(p)
    BY <2>1 DEF Request, Ask, Join, Leave, Decline, DecideJoinRequest, RemoveMember, Invite, Update, Remove
  <2>4. Joined(p) \/ Left(p) \/ DecidedJoinRequest(p) \/ RemovedMember(p)
    BY <2>1, <2>2, <2>3 DEF Commit, Declined, Invited, Updated, RemovedGroup
  <2>5. h[p].of = u /\ h'[p] = Idle
    BY <2>4 DEF Joined, Left, DecidedJoinRequest, RemovedMember, Set, Rest, IInv, TypeOK
  <2>6. CASE p \in late
    BY <2>5, <2>6
  <2>7. CASE p \notin late
    <3>1. h[p].at \notin {"leave", "decide"} /\ (h[p].at = "join" => h[p].invited)
      BY <2>5, <2>7 DEF IInv, HasRead
    <3>2. Joined(p)
      BY <2>4, <2>5, <3>1 DEF Left, DecidedJoinRequest, RemovedMember, Set, IInv, TypeOK
    <3>3. h[p].invited /\ h[p].at = "join"
      BY <3>1, <3>2 DEF Joined
    <3>4. u \in invited
      BY <2>1, <2>5, <3>2, <3>3 DEF Joined
    <3> QED
      BY <3>4 DEF IInv
  <2> QED
    BY <2>6, <2>7
<1> QED
  BY <1>1, InvariantInit, InvariantStep, PTL DEF Spec, RemovalIsFinal
=============================================================================
