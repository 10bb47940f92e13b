------------------------------- MODULE Groups -------------------------------
(***************************************************************************)
(* One community group: who is in it, who asked, who was invited, and the  *)
(* two other places that say who is in it, its thread and its counter.     *)
(*                                                                         *)
(*   platform/community/services/group.service.ts                          *)
(*                                                                         *)
(* A handler is what it reads, then its transaction, which is one step and *)
(* repeats none of the checks: what was read is kept in the handler.  No   *)
(* operation makes a member an admin, so the creator is the only one.      *)
(***************************************************************************)
EXTENDS Integers, FiniteSets

CONSTANTS
  Procs,       \* handlers that may be under way at once
  Users, Creator,
  MaxAsked     \* bound: requests

ASSUME ConstantsAssumption ==
  Creator \in Users /\ IsFiniteSet(Users) /\ MaxAsked \in Nat

VARIABLES
  state,       \* GroupMembership.state of each user, NONE without a row
  invited,     \* users with an invitation
  thread,      \* participants of the group's conversation
  memberCount, joinPolicy, deleted,
  h,           \* what each handler is doing, and what it has read
  asked,
  welcome,     \* history: users invited since they were last removed
  late,        \* history: handlers whose member was removed since they read
  crossed      \* history: two handlers about one member have overlapped

vars == <<state, invited, thread, memberCount, joinPolicy, deleted, h, asked, welcome, late, crossed>>
books == <<thread, memberCount>>
group == <<joinPolicy, deleted>>

Idle == [at |-> "idle", of |-> Creator, counted |-> FALSE, invited |-> FALSE, what |-> "none"]

(* create: the creator is the first member, the first admin, and in the    *)
(* thread.                                                                 *)
Init ==
  /\ state = [u \in Users |-> IF u = Creator THEN "ADMIN" ELSE "NONE"]
  /\ invited = {} /\ thread = {Creator} /\ memberCount = 1
  /\ joinPolicy \in {"OPEN", "APPROVAL"} /\ deleted = FALSE
  /\ h = [p \in Procs |-> Idle]
  /\ asked = 0 /\ welcome = {} /\ late = {} /\ crossed = FALSE

-----------------------------------------------------------------------------
Members == {u \in Users : state[u] \in {"MEMBER", "ADMIN"}}
Admins == {u \in Users : state[u] = "ADMIN"}

CountedAlways(u) == state[u] # "NONE"                             \* a mutant
Counted(u) == u \in Members

Ask(p, doing) ==
  /\ h[p] = Idle /\ asked < MaxAsked /\ ~deleted
  /\ asked' = asked + 1
  /\ h' = [h EXCEPT ![p] = doing]
  /\ crossed' = (crossed \/ \E q \in Procs \ {p} : h[q] # Idle /\ h[q].of = doing.of)
  /\ UNCHANGED <<state, invited, books, group, welcome, late>>

(* A removal leaves behind whoever is about the same member.               *)
Overtaken(p) ==
  {q \in Procs : /\ h[p].at = "remove" /\ state[h[p].of] # "NONE"
                 /\ h[q].at # "idle" /\ h[q].of = h[p].of}

Rest(p) ==
  /\ h' = [h EXCEPT ![p] = Idle]
  /\ late' = (late \cup Overtaken(p)) \ {p}

Set(u, to) == state' = [state EXCEPT ![u] = to]

Enter(u) == thread' = thread \cup {u} /\ memberCount' = memberCount + 1
Exit(u) == thread' = thread \ {u} /\ memberCount' = memberCount - 1

-----------------------------------------------------------------------------
(* Joining, or accepting an invitation: straight in when it is open or he  *)
(* is invited, and otherwise a request.  Whoever is in, or waiting, stays  *)
(* where he stands, invited or not.                                        *)
Join(p, u) ==
  /\ state[u] \in {"NONE", "REMOVED", "REJECTED"}
  /\ state[u] = "REMOVED" => u \in invited
  /\ Ask(p, [Idle EXCEPT !.at = "join", !.of = u, !.invited = u \in invited,
               !.what = IF joinPolicy = "OPEN" \/ u \in invited THEN "MEMBER" ELSE "PENDING"])

(* The delete of an invitation that is gone throws, and undoes the rest.   *)
Joined(p) ==
  LET u == h[p].of
      throws == h[p].invited /\ u \notin invited
  IN  /\ h[p].at = "join"
      /\ Rest(p)
      /\ IF throws THEN UNCHANGED <<state, invited, books>>
         ELSE /\ Set(u, h[p].what)
              /\ invited' = IF h[p].invited THEN invited \ {u} ELSE invited
              /\ IF h[p].what = "MEMBER" THEN Enter(u) ELSE UNCHANGED books
      /\ UNCHANGED <<group, asked, welcome, crossed>>

(* The last admin does not walk out on anybody, as far as the counter and  *)
(* the rows tell.                                                          *)
Leave(p, u) ==
  /\ state[u] \notin {"NONE", "REMOVED"}
  /\ u \in Admins /\ memberCount > 1 => Admins \ {u} # {}
  /\ Ask(p, [Idle EXCEPT !.at = "leave", !.of = u, !.counted = Counted(u)])

Left(p) ==
  LET u == h[p].of
  IN  /\ h[p].at = "leave"
      /\ Rest(p)
      /\ IF state[u] = "NONE" THEN UNCHANGED <<state, books>>
         ELSE Set(u, "NONE") /\ IF h[p].counted THEN Exit(u) ELSE UNCHANGED books
      /\ UNCHANGED <<invited, group, asked, welcome, crossed>>

Decline(p, u) ==
  /\ u \in invited
  /\ Ask(p, [Idle EXCEPT !.at = "decline", !.of = u])

Declined(p) ==
  /\ h[p].at = "decline"
  /\ invited' = invited \ {h[p].of}
  /\ Rest(p)
  /\ UNCHANGED <<state, books, group, asked, welcome, crossed>>

-----------------------------------------------------------------------------
(* The admin.                                                              *)
DecideJoinRequest(p, u, decision) ==
  /\ Admins # {} /\ state[u] = "PENDING"
  /\ Ask(p, [Idle EXCEPT !.at = "decide", !.of = u, !.what = decision])

DecidedJoinRequest(p) ==
  LET u == h[p].of
  IN  /\ h[p].at = "decide"
      /\ Rest(p)
      /\ IF state[u] = "NONE" THEN UNCHANGED <<state, books>>
         ELSE /\ Set(u, h[p].what)
              /\ IF h[p].what = "MEMBER" THEN Enter(u) ELSE UNCHANGED books
      /\ UNCHANGED <<invited, group, asked, welcome, crossed>>

RemoveMember(p, u) ==
  /\ Admins \ {u} # {} /\ state[u] # "NONE"
  /\ Ask(p, [Idle EXCEPT !.at = "remove", !.of = u, !.counted = Counted(u)])

WithdrawNot(u) == IF u \in Users THEN invited ELSE {}              \* a mutant
Withdraw(u) == invited \ {u}

RemovedMember(p) ==
  LET u == h[p].of
  IN  /\ h[p].at = "remove"
      /\ Rest(p)
      /\ IF state[u] = "NONE" THEN UNCHANGED <<state, invited, books, welcome>>
         ELSE /\ Set(u, "REMOVED")
              /\ invited' = Withdraw(u)
              /\ welcome' = welcome \ {u}
              /\ IF h[p].counted THEN Exit(u) ELSE UNCHANGED books
      /\ UNCHANGED <<group, asked, crossed>>

Invite(p, u) ==
  /\ Admins # {} /\ u \notin Members
  /\ Ask(p, [Idle EXCEPT !.at = "invite", !.of = u])

Invited(p) ==
  /\ h[p].at = "invite"
  /\ invited' = invited \cup {h[p].of}
  /\ welcome' = welcome \cup {h[p].of}
  /\ Rest(p)
  /\ UNCHANGED <<state, books, group, asked, crossed>>

Update(p, policy) ==
  /\ Admins # {} /\ policy # joinPolicy
  /\ Ask(p, [Idle EXCEPT !.at = "update", !.what = policy])

Updated(p) ==
  /\ h[p].at = "update"
  /\ joinPolicy' = h[p].what
  /\ Rest(p)
  /\ UNCHANGED <<state, invited, books, deleted, asked, welcome, crossed>>

(* Deleting it takes the rows and the thread, and leaves the counter.      *)
Remove(p) == Admins # {} /\ Ask(p, [Idle EXCEPT !.at = "delete"])

RemovedGroup(p) ==
  /\ h[p].at = "delete"
  /\ deleted' = TRUE
  /\ state' = [u \in Users |-> "NONE"] /\ invited' = {} /\ thread' = {}
  /\ Rest(p)
  /\ UNCHANGED <<memberCount, joinPolicy, asked, welcome, crossed>>

-----------------------------------------------------------------------------
Request(p) ==
  \/ \E u \in Users : \/ Join(p, u) \/ Leave(p, u) \/ Decline(p, u)
                      \/ RemoveMember(p, u) \/ Invite(p, u)
  \/ \E u \in Users, d \in {"MEMBER", "REJECTED"} : DecideJoinRequest(p, u, d)
  \/ \E policy \in {"OPEN", "APPROVAL"} : Update(p, policy)
  \/ Remove(p)
Commit(p) ==
  \/ Joined(p) \/ Left(p) \/ Declined(p) \/ DecidedJoinRequest(p)
  \/ RemovedMember(p) \/ Invited(p) \/ Updated(p) \/ RemovedGroup(p)

Next == \E p \in Procs : Request(p) \/ Commit(p)

Spec == Init /\ [][Next]_vars

-----------------------------------------------------------------------------
Standing == {"NONE", "PENDING", "MEMBER", "ADMIN", "REMOVED", "REJECTED"}
Policy == {"OPEN", "APPROVAL"}
Handler ==
  [at : {"idle", "join", "leave", "decline", "decide", "remove", "invite", "update", "delete"},
   of : Users, counted : BOOLEAN, invited : BOOLEAN, what : {"none"} \cup Standing \cup Policy]

(* Types.                                                                  *)
TypeOK ==
  /\ state \in [Users -> Standing]
  /\ invited \subseteq Users /\ thread \subseteq Users /\ welcome \subseteq Users
  /\ late \subseteq Procs
  /\ memberCount \in Int /\ joinPolicy \in Policy
  /\ deleted \in BOOLEAN /\ crossed \in BOOLEAN /\ asked \in 0..MaxAsked
  /\ h \in [Procs -> Handler]

(* "Membership of a group and participation in its thread are one thing    *)
(* said twice" (addToThread), and the counter says it a third time: the    *)
(* three agree, through requests, approvals, removals and returns, and     *)
(* however handlers overlap that are about different members.              *)
BooksAgree ==
  ~crossed /\ ~deleted => thread = Members /\ memberCount = Cardinality(Members)

(* "Removal is final until an invitation" (join): one that was already     *)
(* there when he was removed does not let him back in, however handlers    *)
(* overlap.  Only an invitation given since ends his removal, or the write *)
(* of a handler about him that had read before he was removed: nothing     *)
(* reads his row again (a withdrawal deletes it, 829-830).                 *)
StaysOut ==
  \A u \in Users : state[u] = "REMOVED" /\ state'[u] # "REMOVED" /\ ~deleted' =>
    u \in welcome \/ \E p \in late : h[p].of = u /\ h'[p] = Idle
RemovalIsFinal == [][StaysOut]_vars
=============================================================================
