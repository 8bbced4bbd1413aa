---------------------------- MODULE PlatformProofs ----------------------------
(***************************************************************************)
(* Proofs about what the services and their users stand on.                *)
(*                                                                         *)
(* Identity, for any accounts, addresses, policies and number of requests: *)
(* a session lasts as long as it should and no longer, is ended by whom it *)
(* should, and nobody is locked out without a reason.                      *)
(*                                                                         *)
(* Schema, for any upgrades in any order with the roles: each role has the *)
(* rights that are documented, and what is stored stays.                   *)
(*                                                                         *)
(* Outbox, for any number of transactions, rows, drainers and faults and   *)
(* any size of a batch of rows: the stream has what was committed, all of  *)
(* it and in its order.                                                    *)
(*                                                                         *)
(* Batch, for any number of titles and faults and both transports: the     *)
(* exit code of the process is what the stream says of the run, and no     *)
(* failure passes unheard.                                                 *)
(***************************************************************************)
EXTENDS Identity, Schema, Outbox, Batch, NumberLemmas, FiniteSetTheorems, SequenceTheorems

------------------------------------------------------------------------------
(* Identity.                                                                 *)

EndingOps == {"logout", "change", "revoke_all", "disable", "reset"}

\* What a request is at, its session, and what authenticate has found of it.
RequestInv(r) ==
  LET q == requests[r] IN
    /\ q.at <= clock /\ q.there <= Len(sessions)
    /\ q.op # "login" => q.sid \in 1..q.there /\ sessions[q.sid].created <= q.at
    /\ q.step \in {"open", "log"} => q.op = "login"
    /\ q.step = "find" => q.op # "login"
    /\ q.step = "accept" =>
         /\ q.op \notin {"login", "logout"}
         /\ q.seen \in UsedAt(q.sid) /\ q.seen <= sessions[q.sid].seen
         /\ q.at < sessions[q.sid].created + Absolute /\ q.at < q.seen + Idle
    /\ q.step = "revoke" => q.op \in EndingOps
    /\ q.step = "done" => \A s \in 1..q.there : MayEnd(q, s) => sessions[s].revoked

\* What is recorded of the uses of a session is late by less than TouchEvery, and from
\* one use to the next it was never idle too long.
SessionInv(s) ==
  /\ sessions[s].created <= sessions[s].seen /\ sessions[s].seen <= clock
  /\ sessions[s].seen \in UsedAt(s)
  /\ \A t \in UsedAt(s) : t <= sessions[s].seen \/ t < sessions[s].seen + TouchEvery
  /\ \A x \in UsedAt(s) : \A y \in (sessions[s].created + 1)..x : \E t \in UsedAt(s) : t < y /\ y < t + Idle
  /\ \A r \in Uses(s) : requests[r].at < sessions[s].created + Absolute
  /\ sessions[s].revoked => \E r \in 1..Len(requests) : requests[r].step = "done" /\ MayEnd(requests[r], s)

\* The inductive invariant.
IdentityInv ==
  /\ IdentityTypeOK
  /\ \A r \in 1..Len(requests) : RequestInv(r)
  /\ \A s \in 1..Len(sessions) : SessionInv(s)
  /\ LockedForReason
------------------------------------------------------------------------------
(* Tables.                                                                  *)

Steps == {"lock", "verify", "open", "log", "find", "accept", "set", "revoke", "done", "refused", "denied"}

\* The lengths are numbers, the entries have their types.
LEMMA RowTypes ==
  ASSUME IdentityTypeOK
  PROVE  /\ Len(sessions) \in Nat /\ DOMAIN sessions = 1..Len(sessions)
         /\ Len(requests) \in Nat /\ DOMAIN requests = 1..Len(requests)
         /\ Len(logins) \in Nat /\ DOMAIN logins = 1..Len(logins)
         /\ \A s \in 1..Len(sessions) : sessions[s] \in Session
         /\ \A r \in 1..Len(requests) : requests[r] \in Request
         /\ \A i \in 1..Len(logins) : logins[i] \in LoginEvent
BY DEF IdentityTypeOK

LEMMA ClockBounds ==
  /\ Time \subseteq Nat /\ MaxTime \in Nat /\ 0 \in Time
  /\ Idle \in Nat /\ Idle > 0 /\ TouchEvery \in Nat /\ TouchEvery > 0 /\ Absolute \in Nat
  /\ MaxFailures \in Nat /\ MaxFailures > 0 /\ Window \in Nat
BY IdentityAssumption DEF Time

\* The times of a session and of a request are numbers.
LEMMA RequestTimes ==
  ASSUME IdentityTypeOK
  PROVE  /\ \A s \in 1..Len(sessions) : sessions[s].created \in Nat /\ sessions[s].seen \in Nat
         /\ \A r \in 1..Len(requests) : requests[r].at \in Nat /\ requests[r].seen \in Nat /\ requests[r].there \in Nat
         /\ \A i \in 1..Len(logins) : logins[i].at \in Nat
         /\ clock \in Nat
BY RowTypes, ClockBounds DEF Session, Request, LoginEvent, IdentityTypeOK

LEMMA TimesAfter ==
  ASSUME IdentityTypeOK'
  PROVE  /\ clock' \in Nat /\ Len(sessions') \in Nat /\ Len(requests') \in Nat
         /\ \A s \in 1..Len(sessions') : sessions'[s].created \in Nat /\ sessions'[s].seen \in Nat
         /\ \A d \in 1..Len(requests') : requests'[d].at \in Nat
<1>1. clock' \in Time /\ sessions' \in Seq(Session) /\ requests' \in Seq(Request)
  BY DEF IdentityTypeOK
<1>2. /\ \A s \in 1..Len(sessions') : sessions'[s] \in Session
      /\ \A d \in 1..Len(requests') : requests'[d] \in Request
  BY <1>1
<1>3. \A x \in Session : x.created \in Nat /\ x.seen \in Nat
  BY ClockBounds DEF Session
<1>4. \A x \in Request : x.at \in Nat
  BY ClockBounds DEF Request
<1>5. clock' \in Nat /\ Len(sessions') \in Nat /\ Len(requests') \in Nat
  BY <1>1, ClockBounds
<1> QED BY <1>2, <1>3, <1>4, <1>5

\* A request goes on to its next step.
Moves(r, q, new, step) ==
  /\ q = requests[r] /\ requests' = [requests EXCEPT ![r] = new]
  /\ new.op = q.op /\ new.user = q.user /\ new.ip = q.ip /\ new.sid = q.sid /\ new.at = q.at
  /\ new.there = q.there /\ new.step = step

LEMMA StepMoves ==
  ASSUME IdentityTypeOK, NEW r \in 1..Len(requests), NEW step \in Steps, Step(r, step)
  PROVE  \E q, new \in Request : Moves(r, q, new, step)
<1>1. PICK q \in Request : q = requests[r]
  BY RowTypes
<1> DEFINE new == [q EXCEPT !.step = step]
<1>2. new \in Request
  BY DEF Request, Steps
<1>3. requests' = [requests EXCEPT ![r] = new]
  BY <1>1 DEF Step
<1>4. /\ new.op = q.op /\ new.user = q.user /\ new.ip = q.ip /\ new.sid = q.sid /\ new.at = q.at
      /\ new.there = q.there /\ new.step = step
  BY DEF Request
<1> QED BY <1>1, <1>2, <1>3, <1>4 DEF Moves

LEMMA Moved ==
  ASSUME IdentityTypeOK, NEW r \in 1..Len(requests), NEW q, NEW new \in Request, NEW step, Moves(r, q, new, step)
  PROVE  /\ requests' \in Seq(Request) /\ Len(requests') = Len(requests) /\ requests'[r] = new
         /\ \A d \in 1..Len(requests) : d # r => requests'[d] = requests[d]
<1>1. requests \in Seq(Request) /\ requests' = [requests EXCEPT ![r] = new]
  BY DEF IdentityTypeOK, Moves
<1> QED BY <1>1

------------------------------------------------------------------------------
(* Uses of a session.                                                       *)

Authentic(q) == q.op \notin {"login", "logout", "check"} /\ q.step \notin {"find", "accept", "denied"}

LEMMA UsesAre ==
  ASSUME IdentityTypeOK, NEW s
  PROVE  Uses(s) = {r \in 1..Len(requests) : requests[r].sid = s /\ Authentic(requests[r])}
BY RowTypes DEF Uses, Authentic

LEMMA UsedAtIsNat ==
  ASSUME IdentityTypeOK, NEW s \in 1..Len(sessions)
  PROVE  UsedAt(s) \in SUBSET Nat
BY RequestTimes, RowTypes DEF UsedAt, Uses

\* When no request gets through authenticate, the uses are the same.
LEMMA SameUses ==
  ASSUME IdentityTypeOK, NEW r \in 1..Len(requests), NEW q, NEW new \in Request, NEW step, Moves(r, q, new, step),
         Authentic(new) <=> Authentic(q), NEW s
  PROVE  /\ Uses(s)' = Uses(s) /\ \A d \in Uses(s) : requests'[d].at = requests[d].at
         /\ sessions'[s].created = sessions[s].created => UsedAt(s)' = UsedAt(s)
<1>1. /\ Len(requests') = Len(requests) /\ requests'[r] = new /\ DOMAIN requests' = DOMAIN requests
      /\ \A d \in 1..Len(requests) : d # r => requests'[d] = requests[d]
  BY Moved DEF Moves
<1>2. new.sid = requests[r].sid /\ new.at = requests[r].at /\ q = requests[r] /\ DOMAIN requests = 1..Len(requests)
  BY RowTypes DEF Moves
<1>3. \A d \in DOMAIN requests : /\ requests'[d].at = requests[d].at /\ requests'[d].sid = requests[d].sid
                                 /\ Authentic(requests'[d]) <=> Authentic(requests[d])
  BY <1>1, <1>2
<1>4. Uses(s)' = Uses(s)
  BY <1>1, <1>3 DEF Uses, Authentic
<1>5. \A d \in Uses(s) : requests'[d].at = requests[d].at
  BY <1>3 DEF Uses
<1>6. ASSUME sessions'[s].created = sessions[s].created PROVE UsedAt(s)' = UsedAt(s)
  BY <1>4, <1>5, <1>6 DEF UsedAt
<1> QED BY <1>4, <1>5, <1>6

------------------------------------------------------------------------------
(* What stays.                                                              *)

\* Sessions keep their user and their begin, are seen later if at all, and do not come
\* back; a request that is answered does not change.
RowsKept ==
  /\ Len(sessions) <= Len(sessions')
  /\ \A s \in 1..Len(sessions) :
       /\ sessions'[s].user = sessions[s].user /\ sessions'[s].created = sessions[s].created
       /\ sessions[s].seen <= sessions'[s].seen
       /\ sessions[s].revoked => sessions'[s].revoked
  /\ Len(requests) <= Len(requests')
  /\ \A r \in 1..Len(requests) : requests[r].step = "done" => requests'[r] = requests[r]
  /\ clock <= clock'

\* Who may end a session does not change, nor who asks for it.
LEMMA MayEndStays ==
  ASSUME IdentityTypeOK, RowsKept, NEW q, NEW s \in 1..Len(sessions)
  PROVE  MayEnd(q, s)' <=> MayEnd(q, s)
BY DEF MayEnd, RowsKept

\* A request that does not change keeps what is known of it.
LEMMA RequestStays ==
  ASSUME IdentityInv, IdentityTypeOK', RowsKept, NEW d \in 1..Len(requests), requests'[d] = requests[d],
         \A s \in 1..Len(sessions) : UsedAt(s) \subseteq UsedAt(s)'
  PROVE  RequestInv(d)'
<1>1. PICK q \in Request : q = requests[d] /\ q = requests'[d]
  BY RowTypes DEF IdentityInv
<1>2. /\ q.at \in Nat /\ q.there \in Nat /\ clock \in Nat /\ clock' \in Nat
      /\ Len(sessions) \in Nat /\ Len(sessions') \in Nat
  BY <1>1, RequestTimes, TimesAfter, RowTypes DEF IdentityInv
<1>3. RequestInv(d)
  BY DEF IdentityInv
<1>4. q.at <= clock' /\ q.there <= Len(sessions') /\ q.there <= Len(sessions)
  BY <1>1, <1>2, <1>3 DEF RequestInv, RowsKept
<1>5. 1..q.there \subseteq 1..Len(sessions)
  BY <1>2, <1>4
<1>6. q.op # "login" => q.sid \in 1..q.there /\ sessions'[q.sid].created <= q.at
  BY <1>1, <1>3, <1>5 DEF RequestInv, RowsKept
<1>7. ASSUME q.step = "accept"
      PROVE  /\ q.seen \in UsedAt(q.sid)' /\ q.seen <= sessions'[q.sid].seen
             /\ q.at < sessions'[q.sid].created + Absolute /\ q.at < q.seen + Idle
  <2>1. PICK s \in 1..Len(sessions) : s = q.sid
    BY <1>1, <1>3, <1>5, <1>7 DEF RequestInv
  <2>2. /\ q.seen \in UsedAt(s) /\ q.seen <= sessions[s].seen
        /\ q.at < sessions[s].created + Absolute /\ q.at < q.seen + Idle
    BY <1>1, <1>3, <1>7, <2>1 DEF RequestInv
  <2>3. q.seen \in UsedAt(s)'
    BY <2>2
  <2>4. sessions'[s].created = sessions[s].created /\ sessions[s].seen <= sessions'[s].seen
    BY DEF RowsKept
  <2>5. q.seen \in Nat /\ sessions[s].seen \in Nat /\ sessions'[s].seen \in Nat
    <3>1. s \in 1..Len(sessions')
      BY <1>2 DEF RowsKept
    <3> QED BY <1>1, <3>1, RequestTimes, TimesAfter DEF IdentityInv
  <2>6. q.seen <= sessions'[s].seen
    BY <2>2, <2>4, <2>5
  <2> QED BY <2>1, <2>2, <2>3, <2>4, <2>6
<1>8. ASSUME q.step = "done", NEW s \in 1..q.there, MayEnd(q, s)' PROVE sessions'[s].revoked
  <2>1. s \in 1..Len(sessions) /\ MayEnd(q, s)
    BY <1>5, <1>8, MayEndStays DEF IdentityInv
  <2> QED BY <1>1, <1>3, <1>8, <2>1 DEF RequestInv, RowsKept
<1>9. q.step \in {"open", "log"} => q.op = "login"
  BY <1>1, <1>3 DEF RequestInv
<1>10. q.step = "find" => q.op # "login"
  BY <1>1, <1>3 DEF RequestInv
<1>11. q.step = "accept" => q.op \notin {"login", "logout"}
  BY <1>1, <1>3 DEF RequestInv
<1>12. q.step = "revoke" => q.op \in EndingOps
  BY <1>1, <1>3 DEF RequestInv
<1> QED BY <1>1, <1>4, <1>6, <1>7, <1>8, <1>9, <1>10, <1>11, <1>12 DEF RequestInv

\* A session keeps what is known of it when its uses are the same and it was not ended
\* for nothing.
LEMMA SessionUnused ==
  ASSUME IdentityInv, IdentityTypeOK', RowsKept, NEW s \in 1..Len(sessions), sessions'[s].seen = sessions[s].seen,
         UsedAt(s)' = UsedAt(s), Uses(s)' = Uses(s), \A d \in Uses(s) : requests'[d].at = requests[d].at,
         \/ sessions'[s].revoked = sessions[s].revoked
         \/ (\E d \in 1..Len(requests) : requests[d].step = "done" /\ MayEnd(requests[d], s))'
  PROVE  SessionInv(s)'
<1>1. /\ SessionInv(s) /\ clock \in Nat /\ clock' \in Nat /\ sessions[s].seen \in Nat
      /\ sessions'[s].created = sessions[s].created
  BY RequestTimes, TimesAfter DEF IdentityInv, RowsKept
<1>2. sessions[s].seen <= clock'
  BY <1>1 DEF SessionInv, RowsKept
<1>3. ASSUME sessions[s].revoked
      PROVE  (\E d \in 1..Len(requests) : requests[d].step = "done" /\ MayEnd(requests[d], s))'
  <2>1. PICK d \in 1..Len(requests) : requests[d].step = "done" /\ MayEnd(requests[d], s)
    BY <1>1, <1>3 DEF SessionInv
  <2>2. PICK q : q = requests[d]
    OBVIOUS
  <2>3. requests'[d] = q /\ d \in 1..Len(requests')
    BY <2>1, <2>2, RowTypes, TimesAfter DEF RowsKept, IdentityInv
  <2>4. MayEnd(q, s)'
    BY <2>1, <2>2, MayEndStays DEF IdentityInv
  <2> QED BY <2>1, <2>2, <2>3, <2>4 DEF MayEnd
<1>4. \A d \in Uses(s)' : requests'[d].at < sessions'[s].created + Absolute
  BY <1>1 DEF SessionInv
<1> QED BY <1>1, <1>2, <1>3, <1>4 DEF SessionInv

LEMMA SessionStays ==
  ASSUME IdentityInv, IdentityTypeOK', RowsKept, NEW s \in 1..Len(sessions), sessions'[s] = sessions[s],
         UsedAt(s)' = UsedAt(s), Uses(s)' = Uses(s), \A d \in Uses(s) : requests'[d].at = requests[d].at
  PROVE  SessionInv(s)'
<1>1. sessions'[s].seen = sessions[s].seen /\ sessions'[s].revoked = sessions[s].revoked
  OBVIOUS
<1> QED BY <1>1, SessionUnused

\* A step of one request that leaves the sessions alone and does not get through
\* authenticate: what is left to show is its own invariant and the log of the logins.
LEMMA QuietDone ==
  ASSUME IdentityInv, NEW r \in 1..Len(requests), NEW q \in Request, NEW new \in Request, NEW step,
         Moves(r, q, new, step), q.step # "done", Authentic(new) <=> Authentic(q),
         UNCHANGED <<sessions, clock>>, accounts' \in [User -> Account], logins' \in Seq(LoginEvent),
         LockedForReason',
         (\A s \in 1..Len(sessions) : UsedAt(s)' = UsedAt(s)) => RequestInv(r)'
  PROVE  IdentityInv'
<1>1. /\ requests' \in Seq(Request) /\ Len(requests') = Len(requests)
      /\ \A d \in 1..Len(requests) : d # r => requests'[d] = requests[d]
  BY Moved DEF IdentityInv
<1>2. IdentityTypeOK' /\ RowsKept
  BY <1>1, RequestTimes, RowTypes DEF IdentityInv, IdentityTypeOK, RowsKept, Moves
<1>3. \A s \in 1..Len(sessions) : /\ UsedAt(s)' = UsedAt(s) /\ Uses(s)' = Uses(s)
                                  /\ \A d \in Uses(s) : requests'[d].at = requests[d].at
  BY SameUses DEF IdentityInv
<1>4. \A d \in 1..Len(requests') : RequestInv(d)'
  BY <1>1, <1>2, <1>3, RequestStays
<1>5. \A s \in 1..Len(sessions') : SessionInv(s)'
  BY <1>2, <1>3, SessionStays
<1> QED BY <1>2, <1>4, <1>5 DEF IdentityInv

\* Which of its own invariants there are apart from those of authenticate.
LEMMA RequestMoves ==
  ASSUME IdentityInv, NEW r \in 1..Len(requests), NEW q \in Request, NEW new \in Request, NEW step,
         Moves(r, q, new, step), UNCHANGED <<sessions, clock>>,
         step \notin {"find", "accept"}, step \in {"open", "log"} => q.op = "login",
         step = "revoke" => q.op \in EndingOps, step = "done" => q.op \notin EndingOps
  PROVE  RequestInv(r)'
<1>1. requests'[r] = new
  BY Moved DEF IdentityInv
<1>2. RequestInv(r) /\ q = requests[r]
  BY DEF IdentityInv, Moves
<1>3. /\ q.at <= clock /\ q.there <= Len(sessions)
      /\ q.op # "login" => q.sid \in 1..q.there /\ sessions[q.sid].created <= q.at
  BY <1>2 DEF RequestInv
<1>4. \A s : q.op \notin EndingOps => ~MayEnd(new, s)'
  BY DEF MayEnd, EndingOps, Moves
<1> QED BY <1>1, <1>3, <1>4 DEF RequestInv, Moves

------------------------------------------------------------------------------
(* The log of the logins.                                                   *)

\* Row i of a log is preceded by enough wrong passwords for its name or its address.
HasReason(L, i) ==
  \E S \in {{j \in 1..(i - 1) : L[j].name = L[i].name}, {j \in 1..(i - 1) : L[j].ip = L[i].ip /\ L[j].ip # NoIp}} :
    Cardinality({j \in S : /\ L[j].reason \in {"wrong_password", "unknown_user"}
                           /\ L[i].at <= L[j].at + Window}) >= MaxFailures

LEMMA ReasonIsReason == LockedForReason <=> \A i \in DOMAIN logins : logins[i].reason = "locked" => HasReason(logins, i)
BY DEF LockedForReason, HasReason

\* A row keeps its reason in a longer log.
LEMMA ReasonStays ==
  ASSUME NEW L, NEW M, NEW i \in Nat, \A j \in 1..i : M[j] = L[j], i > 0, HasReason(L, i)
  PROVE  HasReason(M, i)
<1>1. M[i] = L[i] /\ \A j \in 1..(i - 1) : M[j] = L[j]
  OBVIOUS
<1> DEFINE Names(K) == {j \in 1..(i - 1) : K[j].name = K[i].name}
           Ips(K) == {j \in 1..(i - 1) : K[j].ip = K[i].ip /\ K[j].ip # NoIp}
           Wrong(K, S) == {j \in S : /\ K[j].reason \in {"wrong_password", "unknown_user"}
                                     /\ K[i].at <= K[j].at + Window}
<1>2. Names(M) = Names(L) /\ Ips(M) = Ips(L)
  BY <1>1
<1>3. \A S \in SUBSET (1..(i - 1)) : Wrong(M, S) = Wrong(L, S)
  BY <1>1
<1>4. Names(L) \subseteq 1..(i - 1) /\ Ips(L) \subseteq 1..(i - 1)
  OBVIOUS
<1>5. PICK S \in {Names(L), Ips(L)} : Cardinality(Wrong(L, S)) >= MaxFailures
  BY DEF HasReason
<1>6. S \in {Names(M), Ips(M)} /\ Wrong(M, S) = Wrong(L, S)
  BY <1>2, <1>3, <1>4, <1>5
<1> QED BY <1>5, <1>6 DEF HasReason

\* One more row, with its reason if it is a refusal.
LEMMA RowAdded ==
  ASSUME IdentityInv, NEW e \in LoginEvent, logins' = Append(logins, e),
         e.reason = "locked" => HasReason(logins', Len(logins) + 1)
  PROVE  logins' \in Seq(LoginEvent) /\ LockedForReason'
<1>1. logins \in Seq(LoginEvent)
  BY DEF IdentityInv, IdentityTypeOK
<1>2. /\ logins' \in Seq(LoginEvent) /\ Len(logins) \in Nat /\ Len(logins') = Len(logins) + 1
      /\ logins'[Len(logins) + 1] = e /\ \A i \in 1..Len(logins) : logins'[i] = logins[i]
  BY <1>1
<1>3. \A i \in 1..Len(logins) : logins[i].reason = "locked" => HasReason(logins, i)
  BY ReasonIsReason, RowTypes DEF IdentityInv
<1>4. ASSUME NEW i \in 1..Len(logins'), logins'[i].reason = "locked" PROVE HasReason(logins', i)
  <2>1. CASE i \in 1..Len(logins)
    <3>1. i \in Nat /\ i > 0 /\ \A j \in 1..i : logins'[j] = logins[j]
      BY <1>2, <2>1
    <3>2. HasReason(logins, i)
      BY <1>2, <1>3, <1>4, <2>1
    <3> QED BY <3>1, <3>2, ReasonStays
  <2>2. CASE i = Len(logins) + 1
    BY <1>2, <1>4, <2>2
  <2> QED BY <1>2, <2>1, <2>2
<1>5. DOMAIN logins' = 1..Len(logins')
  BY <1>2
<1> QED BY <1>2, <1>4, <1>5 DEF LockedForReason, HasReason

LEMMA NoRowAdded ==
  ASSUME IdentityInv, logins' = logins
  PROVE  logins' \in Seq(LoginEvent) /\ LockedForReason'
BY DEF IdentityInv, IdentityTypeOK, LockedForReason

------------------------------------------------------------------------------
(* Steps behind authenticate, and those of a login.                         *)

LEMMA RequestGoesOn ==
  ASSUME IdentityInv, NEW r \in 1..Len(requests), NEW step \in Steps, Step(r, step),
         requests[r].step \in {"lock", "verify", "log", "set"}, step \notin {"find", "accept", "denied"},
         step \in {"open", "log"} => requests[r].op = "login",
         step = "revoke" => requests[r].op \in EndingOps, step = "done" => requests[r].op \notin EndingOps,
         UNCHANGED <<sessions, clock>>, accounts' \in [User -> Account], logins' \in Seq(LoginEvent), LockedForReason'
  PROVE  IdentityInv'
<1>1. PICK q, new \in Request : Moves(r, q, new, step)
  BY StepMoves DEF IdentityInv
<1>2. q = requests[r] /\ new.step = step /\ new.op = q.op
  BY <1>1 DEF Moves
<1>3. Authentic(new) <=> Authentic(q)
  BY <1>2 DEF Authentic
<1>4. RequestInv(r)'
  BY <1>1, <1>2, RequestMoves
<1> QED BY <1>1, <1>2, <1>3, <1>4, QuietDone

\* One more row in the log.
LEMMA Logs ==
  ASSUME IdentityInv, NEW r \in 1..Len(requests), NEW step \in {"refused", "done"},
         NEW reason \in {"ok", "wrong_password", "unknown_user", "locked", "disabled"}, Log(r, reason, step),
         reason = "locked" => HasReason(logins', Len(logins) + 1),
         requests[r].step \in {"lock", "verify", "log"}, step = "done" => requests[r].op = "login",
         UNCHANGED <<accounts, sessions, clock>>
  PROVE  IdentityInv'
<1> DEFINE e == [name |-> requests[r].user, ip |-> requests[r].ip, at |-> requests[r].at, reason |-> reason]
<1>1. requests[r] \in Request
  BY RowTypes DEF IdentityInv
<1>2. e \in LoginEvent /\ e.reason = reason
  BY <1>1 DEF Request, LoginEvent
<1>3. logins' = Append(logins, e) /\ Step(r, step)
  BY DEF Log
<1> HIDE DEF e
<1>4. logins' \in Seq(LoginEvent) /\ LockedForReason'
  BY <1>2, <1>3, RowAdded
<1>5. accounts' \in [User -> Account] /\ step \in Steps
  BY DEF IdentityInv, IdentityTypeOK, Steps
<1> QED BY <1>3, <1>4, <1>5, RequestGoesOn DEF EndingOps

\* A refusal as locked has its reason in the log.
LEMMA LockIsReason ==
  ASSUME IdentityInv, NEW r \in 1..Len(requests), IsLocked(r), Log(r, "locked", "refused")
  PROVE  HasReason(logins', Len(logins) + 1)
<1> DEFINE e == [name |-> requests[r].user, ip |-> requests[r].ip, at |-> requests[r].at, reason |-> "locked"]
           n == Len(logins)
           now == requests[r].at
<1>1. logins' = Append(logins, e) /\ logins \in Seq(LoginEvent) /\ n \in Nat /\ DOMAIN logins = 1..n
  BY RowTypes DEF Log, IdentityInv, IdentityTypeOK
<1>2. e.name = requests[r].user /\ e.ip = requests[r].ip /\ e.at = now
  OBVIOUS
<1>3. requests[r] \in Request
  BY RowTypes DEF IdentityInv
<1>4. e \in LoginEvent
  BY <1>3 DEF Request, LoginEvent
<1> HIDE DEF e
<1>5. logins'[n + 1] = e /\ \A j \in 1..n : logins'[j] = logins[j]
  BY <1>1, <1>4
<1>6. PICK E \in {{j \in 1..n : logins[j].name = e.name}, {j \in 1..n : logins[j].ip = e.ip /\ e.ip # NoIp}} :
        FailuresAmong(E, now) >= MaxFailures
  <2>1. CASE FailuresAmong({i \in DOMAIN logins : logins[i].name = requests[r].user}, now) >= MaxFailures
    BY <1>1, <1>2, <2>1
  <2>2. CASE requests[r].ip # NoIp /\ FailuresAmong({i \in DOMAIN logins : logins[i].ip = requests[r].ip}, now) >= MaxFailures
    <3>1. {j \in 1..n : logins[j].ip = e.ip /\ e.ip # NoIp} = {i \in DOMAIN logins : logins[i].ip = requests[r].ip}
      BY <1>1, <1>2, <2>2
    <3> QED BY <2>2, <3>1
  <2> QED BY <2>1, <2>2 DEF IsLocked
<1>7. E \in {{j \in 1..((n + 1) - 1) : logins'[j].name = logins'[n + 1].name},
             {j \in 1..((n + 1) - 1) : logins'[j].ip = logins'[n + 1].ip /\ logins'[j].ip # NoIp}}
  <2>1. (n + 1) - 1 = n
    BY <1>1
  <2>2. {j \in 1..n : logins'[j].name = logins'[n + 1].name} = {j \in 1..n : logins[j].name = e.name}
    BY <1>5
  <2>3. {j \in 1..n : logins'[j].ip = logins'[n + 1].ip /\ logins'[j].ip # NoIp}
          = {j \in 1..n : logins[j].ip = e.ip /\ e.ip # NoIp}
    BY <1>5
  <2> QED BY <1>6, <2>1, <2>2, <2>3
<1> DEFINE F == {i \in E : Failures(i, now) /\ \A j \in E : logins[j].reason = "ok" /\ logins[j].at <= now => j < i}
           G == {j \in E : /\ logins'[j].reason \in {"wrong_password", "unknown_user"}
                           /\ logins'[n + 1].at <= logins'[j].at + Window}
<1>8. E \in SUBSET (1..n)
  BY <1>6
<1>9. F \subseteq G /\ G \in SUBSET (1..n) /\ F \in SUBSET (1..n)
  BY <1>2, <1>5, <1>8 DEF Failures
<1>10. Cardinality(F) >= MaxFailures
  BY <1>6 DEF FailuresAmong
<1>11. Cardinality(F) <= Cardinality(G) /\ Cardinality(F) \in Nat /\ Cardinality(G) \in Nat
  <2>1. 1 \in Int /\ n \in Int
    BY <1>1
  <2>2. IsFiniteSet(1..n)
    BY <2>1, FS_Interval
  <2>3. IsFiniteSet(G) /\ IsFiniteSet(F)
    BY <1>9, <2>2, FS_Subset
  <2> QED BY <1>9, <2>3, FS_Subset, FS_CardinalityType
<1>12. Cardinality(G) >= MaxFailures
  BY <1>10, <1>11, ClockBounds
<1> QED BY <1>7, <1>12 DEF HasReason

LEMMA EnsureNotLockedKeeps ==
  ASSUME IdentityInv, NEW r \in 1..Len(requests), EnsureNotLocked(r)
  PROVE  IdentityInv'
<1>1. requests[r].step = "lock" /\ UNCHANGED <<accounts, sessions, clock>> /\ accounts' \in [User -> Account]
  BY DEF EnsureNotLocked, IdentityInv, IdentityTypeOK
<1>2. CASE IsLocked(r)
  BY <1>1, <1>2, LockIsReason, Logs DEF EnsureNotLocked
<1>3. CASE ~IsLocked(r)
  BY <1>1, <1>3, NoRowAdded, RequestGoesOn DEF EnsureNotLocked, Steps
<1> QED BY <1>2, <1>3

LEMMA VerifyLoginKeeps ==
  ASSUME IdentityInv, NEW r \in 1..Len(requests), VerifyLogin(r)
  PROVE  IdentityInv'
<1>1. /\ requests[r].step = "verify" /\ requests[r].op = "login" /\ UNCHANGED <<accounts, sessions, clock>>
      /\ accounts' \in [User -> Account]
  BY DEF VerifyLogin, IdentityInv, IdentityTypeOK
<1>2. \/ \E reason \in {"unknown_user", "wrong_password", "disabled"} : Log(r, reason, "refused")
      \/ Step(r, "open") /\ logins' = logins
  BY DEF VerifyLogin
<1>3. CASE \E reason \in {"unknown_user", "wrong_password", "disabled"} : Log(r, reason, "refused")
  BY <1>1, <1>3, Logs
<1>4. CASE Step(r, "open") /\ logins' = logins
  BY <1>1, <1>4, NoRowAdded, RequestGoesOn DEF Steps
<1> QED BY <1>2, <1>3, <1>4

LEMMA VerifyChangeKeeps ==
  ASSUME IdentityInv, NEW r \in 1..Len(requests), VerifyChange(r)
  PROVE  IdentityInv'
<1>1. /\ requests[r].step = "verify" /\ UNCHANGED <<accounts, sessions, clock>> /\ accounts' \in [User -> Account]
  BY DEF VerifyChange, IdentityInv, IdentityTypeOK
<1>2. CASE Log(r, "wrong_password", "refused")
  BY <1>1, <1>2, Logs
<1>3. CASE Step(r, "set") /\ logins' = logins
  BY <1>1, <1>3, NoRowAdded, RequestGoesOn DEF Steps
<1> QED BY <1>2, <1>3 DEF VerifyChange

LEMMA LogSuccessKeeps ==
  ASSUME IdentityInv, NEW r \in 1..Len(requests), LogSuccess(r)
  PROVE  IdentityInv'
<1>1. requests[r].op = "login"
  BY DEF LogSuccess, IdentityInv, RequestInv
<1> QED BY <1>1, Logs DEF LogSuccess

\* Accounts are set: of the steps of "set", only those that end sessions go on.
LEMMA SetKeeps ==
  ASSUME IdentityInv, NEW r \in 1..Len(requests),
         Refuse(r) \/ CreateAccount(r) \/ SetActive(r) \/ SetPassword(r)
  PROVE  IdentityInv'
<1>1. requests[r] \in Request /\ accounts \in [User -> Account]
  BY RowTypes DEF IdentityInv, IdentityTypeOK
<1>2. requests[r].user \in User
  BY <1>1 DEF Request
<1>3. accounts[requests[r].user] \in Account
  BY <1>1, <1>2
<1>4. requests[r].step = "set" /\ UNCHANGED <<sessions, logins, clock>>
  BY DEF Refuse, CreateAccount, SetActive, SetPassword, SetTo
<1>5. accounts' = accounts \/ \E a \in Account : accounts' = [accounts EXCEPT ![requests[r].user] = a]
  <2>1. CASE Refuse(r)
    BY <2>1 DEF Refuse
  <2>2. CASE CreateAccount(r)
    <3>1. [exists |-> TRUE, active |-> TRUE, must |-> TRUE] \in Account
      BY DEF Account
    <3> QED BY <2>2, <3>1 DEF CreateAccount, SetTo
  <2>3. CASE SetActive(r) \/ SetPassword(r)
    <3>1. PICK a \in Account : a = accounts[requests[r].user]
      BY <1>3
    <3>2. /\ [a EXCEPT !.active = FALSE] \in Account /\ [a EXCEPT !.active = TRUE] \in Account
          /\ [a EXCEPT !.must = (requests[r].op = "reset")] \in Account
      BY DEF Account
    <3> QED BY <2>3, <3>1, <3>2 DEF SetActive, SetPassword, SetTo
  <2> QED BY <2>1, <2>2, <2>3
<1>6. accounts' \in [User -> Account]
  BY <1>1, <1>5
<1>7. PICK step \in {"refused", "done", "revoke"} :
        /\ Step(r, step)
        /\ step = "revoke" => requests[r].op \in EndingOps
        /\ step = "done" => requests[r].op \notin EndingOps
  BY DEF Refuse, CreateAccount, SetActive, SetPassword, SetTo, EndingOps
<1> QED BY <1>4, <1>6, <1>7, NoRowAdded, RequestGoesOn DEF Steps

------------------------------------------------------------------------------
(* authenticate.                                                            *)

\* A step that leaves all but the request alone, and does not get it through.
LEMMA QuietStep ==
  ASSUME IdentityInv, NEW r \in 1..Len(requests), NEW q \in Request, NEW new \in Request, NEW step,
         Moves(r, q, new, step), q.step # "done", Authentic(new) <=> Authentic(q),
         UNCHANGED <<accounts, sessions, logins, clock>>,
         (\A s \in 1..Len(sessions) : UsedAt(s)' = UsedAt(s)) => RequestInv(r)'
  PROVE  IdentityInv'
<1>1. accounts' \in [User -> Account]
  BY DEF IdentityInv, IdentityTypeOK
<1> QED BY <1>1, NoRowAdded, QuietDone

\* The session of a request that came with one.
LEMMA OfSession ==
  ASSUME IdentityInv, NEW r \in 1..Len(requests), requests[r].op # "login"
  PROVE  /\ requests[r].sid \in 1..Len(sessions) /\ requests[r].there <= Len(sessions)
         /\ sessions[requests[r].sid].created <= requests[r].at
<1>1. requests[r].there \in Nat /\ Len(sessions) \in Nat
  BY RequestTimes, RowTypes DEF IdentityInv
<1>2. RequestInv(r)
  BY DEF IdentityInv
<1> QED BY <1>1, <1>2 DEF RequestInv

LEMMA Denied ==
  ASSUME IdentityInv, NEW r \in 1..Len(requests), requests[r].step \in {"find", "accept"}, Step(r, "denied"),
         UNCHANGED <<accounts, sessions, logins, clock>>
  PROVE  IdentityInv'
<1>1. PICK q, new \in Request : Moves(r, q, new, "denied")
  BY StepMoves DEF IdentityInv, Steps
<1>2. RequestInv(r)'
  BY <1>1, RequestMoves
<1>3. q.step \in {"find", "accept"} /\ new.step = "denied"
  BY <1>1 DEF Moves
<1>4. ~Authentic(q) /\ ~Authentic(new)
  BY <1>3 DEF Authentic
<1> QED BY <1>1, <1>2, <1>3, <1>4, QuietStep

LEMMA FindSessionKeeps ==
  ASSUME IdentityInv, NEW r \in 1..Len(requests), FindSession(r)
  PROVE  IdentityInv'
<1>1. requests[r].step = "find" /\ UNCHANGED <<accounts, sessions, logins, clock>>
  BY DEF FindSession
<1>2. RequestInv(r) /\ requests[r].op # "login"
  BY <1>1 DEF IdentityInv, RequestInv
<1>3. CASE requests[r].op = "logout"
  <2>1. Step(r, "revoke")
    BY <1>3 DEF FindSession
  <2>2. PICK q, new \in Request : Moves(r, q, new, "revoke")
    BY <2>1, StepMoves DEF IdentityInv, Steps
  <2>3. q.op = "logout" /\ new.op = "logout" /\ q.step = "find"
    BY <1>1, <1>3, <2>2 DEF Moves
  <2>4. RequestInv(r)'
    BY <1>1, <2>2, <2>3, RequestMoves DEF EndingOps
  <2>5. ~Authentic(q) /\ ~Authentic(new)
    BY <2>3 DEF Authentic
  <2> QED BY <1>1, <2>2, <2>3, <2>4, <2>5, QuietStep
<1>4. CASE requests[r].op # "logout" /\ IsActive(requests[r].sid, requests[r].at)
  <2>1. PICK q \in Request : q = requests[r]
    BY RowTypes DEF IdentityInv
  <2>2. PICK s \in 1..Len(sessions) : s = q.sid
    BY <1>2, <2>1, OfSession
  <2>3. PICK t \in Time : t = sessions[s].seen
    BY RowTypes DEF IdentityInv, Session
  <2> DEFINE new == [q EXCEPT !.step = "accept", !.seen = t]
  <2>4. new \in Request
    BY DEF Request
  <2>5. requests' = [requests EXCEPT ![r] = new]
    <3>1. requests' = [requests EXCEPT ![r].step = "accept", ![r].seen = sessions[s].seen]
      BY <1>4, <2>1, <2>2 DEF FindSession
    <3>2. requests \in Seq(Request)
      BY DEF IdentityInv, IdentityTypeOK
    <3> QED BY <2>1, <2>3, <3>1, <3>2
  <2>6. /\ new.op = q.op /\ new.user = q.user /\ new.ip = q.ip /\ new.sid = q.sid /\ new.at = q.at
        /\ new.there = q.there /\ new.step = "accept" /\ new.seen = t
    BY DEF Request
  <2> HIDE DEF new
  <2>7. Moves(r, q, new, "accept")
    BY <2>1, <2>5, <2>6 DEF Moves
  <2>8. q.op \notin {"login", "logout"} /\ q.step = "find"
    BY <1>1, <1>2, <1>4, <2>1
  <2>9. ~Authentic(q) /\ ~Authentic(new)
    BY <2>6, <2>8 DEF Authentic
  <2>10. ASSUME \A z \in 1..Len(sessions) : UsedAt(z)' = UsedAt(z) PROVE RequestInv(r)'
    <3>1. requests'[r] = new
      BY <2>4, <2>7, Moved DEF IdentityInv
    <3>2. SessionInv(s)
      BY DEF IdentityInv
    <3>3. t \in UsedAt(s)' /\ t <= sessions[s].seen
      BY <2>3, <2>10, <3>2, ClockBounds DEF SessionInv
    <3>4. q.at < sessions[s].created + Absolute /\ q.at < t + Idle
      BY <1>4, <2>1, <2>2, <2>3 DEF IsActive
    <3>5. /\ q.at <= clock /\ q.there <= Len(sessions) /\ q.sid \in 1..q.there /\ sessions[q.sid].created <= q.at
      BY <1>2, <2>1, <2>8 DEF RequestInv
    <3> QED BY <1>1, <2>2, <2>6, <2>8, <3>1, <3>3, <3>4, <3>5 DEF RequestInv
  <2> QED BY <1>1, <2>4, <2>7, <2>8, <2>9, <2>10, QuietStep
<1>5. CASE requests[r].op # "logout" /\ ~IsActive(requests[r].sid, requests[r].at)
  <2>1. Step(r, "denied")
    BY <1>5 DEF FindSession
  <2> QED BY <1>1, <2>1, Denied
<1> QED BY <1>3, <1>4, <1>5

\* A request that gets through is one more use of its session.
LEMMA OneMoreUse ==
  ASSUME IdentityInv, NEW r \in 1..Len(requests), NEW q \in Request, NEW new \in Request, NEW step,
         Moves(r, q, new, step), ~Authentic(q), Authentic(new),
         NEW z, sessions'[z].created = sessions[z].created
  PROVE  /\ z = q.sid => Uses(z)' = Uses(z) \cup {r} /\ UsedAt(z)' = UsedAt(z) \cup {q.at}
         /\ z # q.sid => Uses(z)' = Uses(z) /\ UsedAt(z)' = UsedAt(z)
<1>1. /\ Len(requests') = Len(requests) /\ requests'[r] = new /\ DOMAIN requests' = DOMAIN requests
      /\ \A d \in 1..Len(requests) : d # r => requests'[d] = requests[d]
  BY Moved DEF Moves, IdentityInv
<1>2. new.sid = q.sid /\ new.at = q.at /\ q = requests[r] /\ DOMAIN requests = 1..Len(requests)
  BY RowTypes DEF Moves, IdentityInv
<1>3. \A d \in DOMAIN requests : requests'[d].at = requests[d].at /\ requests'[d].sid = requests[d].sid
  BY <1>1, <1>2
<1>4. Uses(z)' = {d \in DOMAIN requests : requests[d].sid = z /\ Authentic(requests'[d])}
  BY <1>1, <1>3 DEF Uses, Authentic
<1>5. Uses(z) = {d \in DOMAIN requests : requests[d].sid = z /\ Authentic(requests[d])}
  BY DEF Uses, Authentic
<1>6. Uses(z)' = IF z = q.sid THEN Uses(z) \cup {r} ELSE Uses(z)
  BY <1>1, <1>2, <1>4, <1>5
<1>7. UsedAt(z)' = {sessions[z].created} \cup {requests[d].at : d \in Uses(z)'}
  <2>1. {requests'[d].at : d \in Uses(z)'} = {requests[d].at : d \in Uses(z)'}
    BY <1>3, <1>4
  <2> QED BY <2>1 DEF UsedAt
<1>8. ASSUME z = q.sid PROVE UsedAt(z)' = UsedAt(z) \cup {q.at}
  BY <1>2, <1>6, <1>7, <1>8 DEF UsedAt
<1>9. ASSUME z # q.sid PROVE UsedAt(z)' = UsedAt(z)
  BY <1>6, <1>7, <1>9 DEF UsedAt
<1> QED BY <1>6, <1>8, <1>9

\* What is recorded of the use.
LEMMA Recorded ==
  ASSUME IdentityInv, NEW q \in Request, NEW s \in 1..Len(sessions), q.seen <= sessions[s].seen, q.at <= clock,
         IF NeedsTouch(q.seen, q.at) THEN Touch(s, q.at) ELSE UNCHANGED sessions
  PROVE  /\ sessions' \in Seq(Session) /\ Len(sessions') = Len(sessions)
         /\ \A z \in 1..Len(sessions) :
              /\ sessions'[z].user = sessions[z].user /\ sessions'[z].created = sessions[z].created
              /\ sessions'[z].revoked = sessions[z].revoked
              /\ z # s => sessions'[z] = sessions[z]
         /\ sessions'[s].seen \in {sessions[s].seen, q.at} /\ sessions[s].seen <= sessions'[s].seen
         /\ q.at <= sessions'[s].seen \/ q.at < sessions'[s].seen + TouchEvery
<1>1. sessions \in Seq(Session) /\ sessions[s] \in Session /\ sessions[s].seen \in Nat
  BY RowTypes, RequestTimes DEF IdentityInv, IdentityTypeOK
<1>2. q.at \in Nat /\ q.at \in Time /\ q.seen \in Nat
  BY ClockBounds DEF Request
<1>3. CASE NeedsTouch(q.seen, q.at) /\ sessions[s].seen < q.at
  <2>1. PICK x \in Session : x = sessions[s]
    BY <1>1
  <2> DEFINE new == [x EXCEPT !.seen = q.at]
  <2>2. new \in Session /\ new.user = x.user /\ new.created = x.created /\ new.revoked = x.revoked /\ new.seen = q.at
    BY <1>2 DEF Session
  <2>3. sessions' = [sessions EXCEPT ![s] = new]
    BY <1>3, <2>1 DEF Touch
  <2> HIDE DEF new
  <2>4. /\ sessions' \in Seq(Session) /\ Len(sessions') = Len(sessions) /\ sessions'[s] = new
        /\ \A z \in 1..Len(sessions) : z # s => sessions'[z] = sessions[z]
    BY <1>1, <2>2, <2>3
  <2>5. sessions[s].seen <= q.at
    BY <1>1, <1>2, <1>3
  <2> QED BY <1>2, <2>1, <2>2, <2>4, <2>5
<1>4. CASE NeedsTouch(q.seen, q.at) /\ ~(sessions[s].seen < q.at)
  <2>1. sessions' = sessions /\ q.at <= sessions[s].seen
    BY <1>1, <1>2, <1>4 DEF Touch
  <2> QED BY <1>1, <2>1
<1>5. CASE ~NeedsTouch(q.seen, q.at)
  <2>1. sessions' = sessions /\ q.at < sessions[s].seen + TouchEvery
    BY <1>1, <1>2, <1>5, ClockBounds DEF NeedsTouch
  <2> QED BY <1>1, <2>1
<1> QED BY <1>3, <1>4, <1>5

\* The session of a request that gets through.
LEMMA UsedSession ==
  ASSUME IdentityInv, IdentityTypeOK', RowsKept, NEW r \in 1..Len(requests), NEW q \in Request, NEW s \in 1..Len(sessions),
         s = q.sid, q.step = "accept", q = requests[r], requests'[r].at = q.at,
         \A d \in 1..Len(requests) : requests'[d].at = requests[d].at, UNCHANGED clock,
         sessions'[s].user = sessions[s].user, sessions'[s].revoked = sessions[s].revoked,
         sessions'[s].seen \in {sessions[s].seen, q.at}, sessions[s].seen <= sessions'[s].seen,
         q.at <= sessions'[s].seen \/ q.at < sessions'[s].seen + TouchEvery,
         Uses(s)' = Uses(s) \cup {r}, UsedAt(s)' = UsedAt(s) \cup {q.at}
  PROVE  SessionInv(s)'
<1>1. PICK U \in SUBSET Nat : U = UsedAt(s)
  BY UsedAtIsNat DEF IdentityInv
<1>2. PICK V \in SUBSET Nat : V = UsedAt(s)' /\ V = U \cup {q.at}
  <2>1. q.at \in Nat
    BY ClockBounds DEF Request
  <2> QED BY <1>1, <2>1
<1>3. PICK c \in Nat : c = sessions[s].created /\ c = sessions'[s].created
  BY RequestTimes DEF IdentityInv, RowsKept
<1>4. PICK e, f \in Nat : e = sessions[s].seen /\ f = sessions'[s].seen /\ f \in {e, q.at} /\ e <= f
  BY RequestTimes, ClockBounds DEF IdentityInv, Request
<1>5. q.at \in Nat /\ q.seen \in Nat /\ clock \in Nat
  BY RequestTimes, ClockBounds DEF IdentityInv, Request
<1>6. RequestInv(r) /\ SessionInv(s)
  BY DEF IdentityInv
<1>7. /\ q.at <= clock /\ q.seen \in U /\ q.seen <= e /\ q.at < c + Absolute /\ q.at < q.seen + Idle
  BY <1>1, <1>3, <1>4, <1>6 DEF RequestInv
<1>8. c <= f /\ f <= clock'
  <2>1. c <= e /\ e <= clock
    BY <1>3, <1>4, <1>6 DEF SessionInv
  <2>2. c <= f
    BY <1>4, <2>1
  <2>3. f <= clock
    BY <1>4, <1>7, <2>1
  <2> QED BY <2>2, <2>3
<1>9. f \in V
  BY <1>1, <1>2, <1>4, <1>6 DEF SessionInv
<1>10. \A t \in V : t <= f \/ t < f + TouchEvery
  <2>1. \A t \in U : t <= e \/ t < e + TouchEvery
    BY <1>1, <1>4, <1>6 DEF SessionInv
  <2>2. \A t \in U : t <= f \/ t < f + TouchEvery
    <3>1. ASSUME NEW t \in U PROVE t <= f \/ t < f + TouchEvery
      <4>1. t \in Nat /\ (t <= e \/ t < e + TouchEvery)
        BY <2>1
      <4>2. e \in Nat /\ f \in Nat /\ e <= f /\ TouchEvery \in Nat
        BY <1>4, ClockBounds
      <4> QED BY <4>1, <4>2
    <3> QED BY <3>1
  <2>3. q.at <= f \/ q.at < f + TouchEvery
    BY <1>4
  <2> QED BY <1>2, <2>2, <2>3
<1>11. ASSUME NEW x \in V, NEW y \in (c + 1)..x PROVE \E t \in V : t < y /\ y < t + Idle
  <2>1. CASE x \in U
    BY <1>1, <1>2, <1>3, <1>6, <1>11, <2>1 DEF SessionInv
  <2>2. CASE x = q.at
    <3>1. y \in Nat /\ c < y /\ y <= q.at
      BY <1>3, <1>5, <1>11, <2>2
    <3>2. CASE q.seen < y
      <4>1. y < q.seen + Idle
        BY <1>5, <1>7, <3>1, ClockBounds
      <4>2. q.seen \in V
        BY <1>2, <1>7
      <4> QED BY <3>2, <4>1, <4>2
    <3>3. CASE y <= q.seen
      <4>1. y \in (c + 1)..q.seen
        BY <1>3, <1>5, <3>1, <3>3
      <4> QED BY <1>1, <1>2, <1>3, <1>6, <1>7, <4>1 DEF SessionInv
    <3> QED BY <1>5, <3>1, <3>2, <3>3
  <2> QED BY <1>2, <1>11, <2>1, <2>2
<1>12. ASSUME NEW d \in Uses(s)' PROVE requests'[d].at < c + Absolute
  <2>1. CASE d = r
    BY <1>7, <2>1
  <2>2. CASE d \in Uses(s)
    <3>1. d \in 1..Len(requests)
      BY <2>2, RowTypes DEF Uses, IdentityInv
    <3> QED BY <1>3, <1>6, <2>2, <3>1 DEF SessionInv
  <2> QED BY <1>12, <2>1, <2>2
<1>13. ASSUME sessions'[s].revoked
       PROVE  (\E d \in 1..Len(requests) : requests[d].step = "done" /\ MayEnd(requests[d], s))'
  <2>1. PICK d \in 1..Len(requests) : requests[d].step = "done" /\ MayEnd(requests[d], s)
    BY <1>6, <1>13 DEF SessionInv
  <2>2. PICK x : x = requests[d]
    OBVIOUS
  <2>3. requests'[d] = x /\ d \in 1..Len(requests')
    BY <2>1, <2>2, RowTypes, TimesAfter DEF RowsKept, IdentityInv
  <2>4. MayEnd(x, s)'
    BY <2>1, <2>2, MayEndStays DEF IdentityInv
  <2> QED BY <2>1, <2>2, <2>3, <2>4 DEF MayEnd
<1> QED BY <1>2, <1>3, <1>4, <1>8, <1>9, <1>10, <1>11, <1>12, <1>13 DEF SessionInv

\* A request gets through.
LEMMA LetThrough ==
  ASSUME IdentityInv, NEW r \in 1..Len(requests), NEW q \in Request, NEW new \in Request,
         NEW step \in {"done", "refused", "set", "lock", "revoke"}, Moves(r, q, new, step),
         q.step = "accept", q.op # "check", step = "revoke" => q.op \in EndingOps, step = "done" => q.op \notin EndingOps,
         IF NeedsTouch(q.seen, q.at) THEN Touch(q.sid, q.at) ELSE UNCHANGED sessions,
         UNCHANGED <<accounts, logins, clock>>
  PROVE  IdentityInv'
<1>1. q = requests[r] /\ RequestInv(r)
  BY DEF IdentityInv, Moves
<1>2. q.op \notin {"login", "logout", "check"}
  BY <1>1 DEF RequestInv
<1>3. PICK s \in 1..Len(sessions) : s = q.sid
  BY <1>1, <1>2, OfSession
<1>4. q.seen <= sessions[s].seen /\ q.at <= clock
  BY <1>1, <1>3 DEF RequestInv
<1>5. /\ sessions' \in Seq(Session) /\ Len(sessions') = Len(sessions)
      /\ \A z \in 1..Len(sessions) :
           /\ sessions'[z].user = sessions[z].user /\ sessions'[z].created = sessions[z].created
           /\ sessions'[z].revoked = sessions[z].revoked
           /\ z # s => sessions'[z] = sessions[z]
      /\ sessions'[s].seen \in {sessions[s].seen, q.at} /\ sessions[s].seen <= sessions'[s].seen
      /\ q.at <= sessions'[s].seen \/ q.at < sessions'[s].seen + TouchEvery
  BY <1>3, <1>4, Recorded
<1>6. /\ requests' \in Seq(Request) /\ Len(requests') = Len(requests) /\ requests'[r] = new
      /\ \A d \in 1..Len(requests) : d # r => requests'[d] = requests[d]
  BY Moved DEF IdentityInv
<1>7. IdentityTypeOK'
  BY <1>5, <1>6, NoRowAdded DEF IdentityInv, IdentityTypeOK
<1>8. RowsKept
  <2>1. \A z \in 1..Len(sessions) : sessions[z].seen <= sessions'[z].seen
    <3>1. \A z \in 1..Len(sessions) : sessions[z].seen \in Nat
      BY RequestTimes DEF IdentityInv
    <3> QED BY <1>5, <3>1
  <2>2. Len(sessions) \in Nat /\ Len(requests) \in Nat /\ clock \in Nat
    BY RequestTimes, RowTypes DEF IdentityInv
  <2>3. requests[r].step # "done"
    BY <1>1
  <2>4. ASSUME NEW d \in 1..Len(requests), requests[d].step = "done"
        PROVE  requests'[d] = requests[d]
    BY <1>6, <2>3, <2>4
  <2>5. \A z \in 1..Len(sessions) :
          /\ sessions'[z].user = sessions[z].user /\ sessions'[z].created = sessions[z].created
          /\ sessions[z].seen <= sessions'[z].seen
          /\ sessions[z].revoked => sessions'[z].revoked
    BY <1>5, <2>1
  <2>6. Len(sessions) <= Len(sessions') /\ Len(requests) <= Len(requests') /\ clock <= clock'
    BY <1>5, <1>6, <2>2
  <2> QED BY <2>4, <2>5, <2>6 DEF RowsKept
<1>9. ~Authentic(q) /\ Authentic(new)
  BY <1>2 DEF Authentic, Moves
<1>10. \A z \in 1..Len(sessions) : /\ z = s => Uses(z)' = Uses(z) \cup {r} /\ UsedAt(z)' = UsedAt(z) \cup {q.at}
                                   /\ z # s => Uses(z)' = Uses(z) /\ UsedAt(z)' = UsedAt(z)
  BY <1>3, <1>5, <1>9, OneMoreUse
<1>11. \A d \in 1..Len(requests) : requests'[d].at = requests[d].at
  BY <1>1, <1>6 DEF Moves
<1>12. \A d \in 1..Len(requests) : d # r => RequestInv(d)'
  BY <1>6, <1>7, <1>8, <1>10, RequestStays
<1>13. RequestInv(r)'
  <2>1. new.op = q.op /\ new.sid = q.sid /\ new.at = q.at /\ new.there = q.there /\ new.step = step
    BY DEF Moves
  <2>2. q.at <= clock /\ q.there <= Len(sessions) /\ q.sid \in 1..q.there /\ sessions[q.sid].created <= q.at
    BY <1>1, <1>2 DEF RequestInv
  <2>3. sessions'[q.sid].created = sessions[q.sid].created
    BY <1>3, <1>5
  <2>4. \A z : q.op \notin EndingOps => ~MayEnd(new, z)'
    BY DEF MayEnd, EndingOps, Moves
  <2> QED BY <1>5, <1>6, <2>1, <2>2, <2>3, <2>4 DEF RequestInv
<1>14. SessionInv(s)'
  <2>1. requests'[r].at = q.at /\ Uses(s)' = Uses(s) \cup {r} /\ UsedAt(s)' = UsedAt(s) \cup {q.at}
    BY <1>1, <1>10, <1>11
  <2> QED BY <1>1, <1>3, <1>5, <1>7, <1>8, <1>11, <2>1, UsedSession
<1>15. ASSUME NEW z \in 1..Len(sessions), z # s PROVE SessionInv(z)'
  <2>1. \A d \in Uses(z) : requests'[d].at = requests[d].at
    BY <1>11, RowTypes DEF Uses, IdentityInv
  <2>2. sessions'[z] = sessions[z] /\ UsedAt(z)' = UsedAt(z) /\ Uses(z)' = Uses(z)
    BY <1>5, <1>10, <1>15
  <2> QED BY <1>7, <1>8, <2>1, <2>2, SessionStays
<1> QED BY <1>5, <1>6, <1>7, <1>12, <1>13, <1>14, <1>15, NoRowAdded DEF IdentityInv

LEMMA AcceptKeeps ==
  ASSUME IdentityInv, NEW r \in 1..Len(requests), Accept(r)
  PROVE  IdentityInv'
<1>1. requests[r].step = "accept" /\ UNCHANGED <<accounts, logins, clock>>
  BY DEF Accept
<1>2. RequestInv(r) /\ requests[r] \in Request /\ requests[r].op \notin {"login", "logout"}
  BY <1>1, RowTypes DEF IdentityInv, RequestInv
<1> DEFINE a == accounts[sessions[requests[r].sid].user]
           step == AfterAccept(requests[r].op, a.must)
<1>3. CASE ~a.active
  <2>1. Step(r, "denied") /\ UNCHANGED sessions
    BY <1>3 DEF Accept
  <2> QED BY <1>1, <2>1, Denied
<1>4. CASE a.active
  <2>1. /\ Step(r, step)
        /\ IF requests[r].op # "check" /\ NeedsTouch(requests[r].seen, requests[r].at)
             THEN Touch(requests[r].sid, requests[r].at) ELSE UNCHANGED sessions
    BY <1>4 DEF Accept
  <2>2. requests[r].op \in {"view", "check", "change", "revoke_all"} \cup AdminOps
    BY <1>2 DEF Request, Ops, OwnOps
  <2>3. /\ step \in {"done", "refused", "set", "lock", "revoke"}
        /\ step = "revoke" => requests[r].op = "revoke_all"
        /\ step = "done" => requests[r].op \in {"view", "check"}
    <3>1. CASE requests[r].op \in {"view", "check"}
      BY <3>1 DEF AfterAccept, AdminOps
    <3>2. CASE requests[r].op \in AdminOps
      BY <3>2 DEF AfterAccept, AdminOps
    <3>3. CASE requests[r].op = "change"
      BY <3>3 DEF AfterAccept, AdminOps
    <3>4. CASE requests[r].op = "revoke_all"
      BY <3>4 DEF AfterAccept, AdminOps
    <3> QED BY <2>2, <3>1, <3>2, <3>3, <3>4
  <2> HIDE DEF step
  <2>4. PICK q, new \in Request : Moves(r, q, new, step)
    BY <2>1, <2>3, StepMoves DEF IdentityInv, Steps
  <2>5. q = requests[r] /\ new.op = q.op /\ new.step = step
    BY <2>4 DEF Moves
  <2>6. CASE q.op = "check"
    <3>1. step \notin {"find", "accept"} /\ ~Authentic(q) /\ ~Authentic(new)
      BY <2>3, <2>5, <2>6 DEF Authentic
    <3>2. RequestInv(r)'
      BY <1>1, <2>1, <2>3, <2>4, <2>5, <2>6, <3>1, RequestMoves DEF EndingOps
    <3> QED BY <1>1, <2>1, <2>4, <2>5, <2>6, <3>1, <3>2, QuietStep
  <2>7. CASE q.op # "check"
    <3>1. /\ step = "revoke" => q.op \in EndingOps
          /\ step = "done" => q.op \notin EndingOps
      BY <2>3, <2>5 DEF EndingOps
    <3>2. IF NeedsTouch(q.seen, q.at) THEN Touch(q.sid, q.at) ELSE UNCHANGED sessions
      BY <2>1, <2>5, <2>7
    <3> QED BY <1>1, <2>3, <2>4, <2>5, <2>7, <3>1, <3>2, LetThrough
  <2> QED BY <2>6, <2>7
<1> QED BY <1>3, <1>4

------------------------------------------------------------------------------
(* Sessions begin and end.                                                  *)

\* Requests use only sessions there are.
LEMMA NoUses ==
  ASSUME IdentityInv, NEW s \in Nat, s > Len(sessions)
  PROVE  Uses(s) = {}
<1>1. SUFFICES ASSUME NEW r \in 1..Len(requests), requests[r].sid = s, Authentic(requests[r]) PROVE FALSE
  BY UsesAre DEF IdentityInv
<1>2. s \in 1..Len(sessions)
  BY <1>1, OfSession DEF Authentic
<1>3. Len(sessions) \in Nat
  BY RowTypes DEF IdentityInv
<1> QED BY <1>2, <1>3

LEMMA OpenSessionKeeps ==
  ASSUME IdentityInv, NEW r \in 1..Len(requests), OpenSession(r)
  PROVE  IdentityInv'
<1>1. requests[r].step = "open" /\ Step(r, "log") /\ UNCHANGED <<accounts, logins, clock>>
  BY DEF OpenSession
<1>2. PICK q, new \in Request : Moves(r, q, new, "log")
  BY <1>1, StepMoves DEF IdentityInv, Steps
<1>3. q = requests[r] /\ q.step = "open" /\ q.op = "login" /\ new.op = "login" /\ RequestInv(r)
  <2>1. q = requests[r] /\ q.step = "open" /\ new.op = q.op
    BY <1>1, <1>2 DEF Moves
  <2>2. RequestInv(r)
    BY DEF IdentityInv
  <2>3. requests[r].step = "open" => requests[r].op = "login"
    BY <2>2, ZenonT(40) DEF RequestInv
  <2> QED BY <2>1, <2>2, <2>3
<1>4. PICK n \in Nat : n = Len(sessions)
  BY RowTypes DEF IdentityInv
<1> DEFINE e == [user |-> q.user, created |-> q.at, seen |-> q.at, revoked |-> FALSE]
<1>5. e \in Session /\ e.created = q.at /\ e.seen = q.at /\ e.revoked = FALSE
  BY DEF Session, Request
<1>6. sessions' = Append(sessions, e) /\ sessions \in Seq(Session)
  BY <1>3 DEF OpenSession, IdentityInv, IdentityTypeOK
<1> HIDE DEF e
<1>7. /\ sessions' \in Seq(Session) /\ Len(sessions') = n + 1 /\ sessions'[n + 1] = e
      /\ \A s \in 1..n : sessions'[s] = sessions[s]
  BY <1>4, <1>5, <1>6
<1>8. /\ requests' \in Seq(Request) /\ Len(requests') = Len(requests) /\ requests'[r] = new
      /\ \A d \in 1..Len(requests) : d # r => requests'[d] = requests[d]
  BY <1>2, Moved DEF IdentityInv
<1>9. IdentityTypeOK'
  BY <1>1, <1>7, <1>8, NoRowAdded DEF IdentityInv, IdentityTypeOK
<1>10. RowsKept
  <2>1. Len(requests) \in Nat /\ clock \in Nat /\ \A s \in 1..n : sessions[s].seen \in Nat
    BY <1>4, RequestTimes, RowTypes DEF IdentityInv
  <2> QED BY <1>1, <1>3, <1>4, <1>7, <1>8, <2>1 DEF RowsKept
<1>11. ~Authentic(q) /\ ~Authentic(new)
  BY <1>3 DEF Authentic
<1>12. \A s : /\ Uses(s)' = Uses(s) /\ \A d \in Uses(s) : requests'[d].at = requests[d].at
              /\ sessions'[s].created = sessions[s].created => UsedAt(s)' = UsedAt(s)
  BY <1>2, <1>11, SameUses DEF IdentityInv
<1>13. \A s \in 1..n : UsedAt(s)' = UsedAt(s) /\ sessions'[s] = sessions[s]
  BY <1>7, <1>12
<1>14. \A d \in 1..Len(requests) : d # r => RequestInv(d)'
  BY <1>4, <1>8, <1>9, <1>10, <1>13, RequestStays
<1>15. RequestInv(r)'
  <2>1. q.at <= clock /\ q.there <= n /\ q.there \in Nat
    BY <1>3, <1>4, RequestTimes DEF RequestInv, IdentityInv
  <2>2. new.at = q.at /\ new.there = q.there /\ new.step = "log" /\ q.there <= n + 1
    BY <1>2, <1>4, <2>1 DEF Moves
  <2> QED BY <1>1, <1>3, <1>7, <1>8, <2>1, <2>2 DEF RequestInv
<1>16. \A s \in 1..n : SessionInv(s)'
  BY <1>4, <1>9, <1>10, <1>12, <1>13, SessionStays
<1>17. SessionInv(n + 1)'
  <2>1. Uses(n + 1)' = {}
    <3>1. n + 1 \in Nat /\ n + 1 > Len(sessions)
      BY <1>4
    <3> QED BY <1>12, <3>1, NoUses
  <2>2. UsedAt(n + 1)' = {q.at}
    BY <1>5, <1>7, <2>1 DEF UsedAt
  <2>3. q.at \in Nat /\ q.at <= clock
    BY <1>3, RequestTimes DEF IdentityInv, RequestInv
  <2>4. \A x \in {q.at} : (q.at + 1)..x = {}
    BY <2>3
  <2> QED BY <1>1, <1>5, <1>7, <2>1, <2>2, <2>3, <2>4 DEF SessionInv
<1>18. 1..(n + 1) = (1..n) \cup {n + 1}
  BY <1>4
<1> QED BY <1>1, <1>7, <1>8, <1>9, <1>14, <1>15, <1>16, <1>17, <1>18, NoRowAdded DEF IdentityInv

\* The sessions a request ends are those it may end.
LEMMA EndedAre ==
  ASSUME IdentityTypeOK, NEW q, q.op \in EndingOps, NEW s \in 1..Len(sessions)
  PROVE  s \in Ended(q) <=> MayEnd(q, s)
<1>1. DOMAIN sessions = 1..Len(sessions)
  BY RowTypes
<1> QED BY <1>1 DEF Ended, MayEnd, EndingOps

LEMMA RevokeKeeps ==
  ASSUME IdentityInv, NEW r \in 1..Len(requests), Revoke(r)
  PROVE  IdentityInv'
<1>1. requests[r].step = "revoke" /\ Step(r, "done") /\ UNCHANGED <<accounts, logins, clock>>
  BY DEF Revoke
<1>2. PICK q, new \in Request : Moves(r, q, new, "done")
  BY <1>1, StepMoves DEF IdentityInv, Steps
<1>3. q = requests[r] /\ q.step = "revoke" /\ new.op = q.op /\ new.step = "done" /\ q.op \in EndingOps /\ RequestInv(r)
  <2>1. q = requests[r] /\ q.step = "revoke" /\ new.op = q.op /\ new.step = "done"
    BY <1>1, <1>2 DEF Moves
  <2>2. RequestInv(r)
    BY DEF IdentityInv
  <2>3. requests[r].step = "revoke" => requests[r].op \in EndingOps
    BY <2>2, ZenonT(40) DEF RequestInv
  <2> QED BY <2>1, <2>2, <2>3
<1>4. PICK n \in Nat : n = Len(sessions) /\ DOMAIN sessions = 1..n
  BY RowTypes DEF IdentityInv
<1>5. PICK E : E = Ended(q)
  OBVIOUS
<1>6. sessions' = [s \in 1..n |-> [sessions[s] EXCEPT !.revoked = @ \/ s \in E]]
  BY <1>3, <1>4, <1>5 DEF Revoke
<1>7. ASSUME NEW s \in 1..n
      PROVE  /\ sessions'[s] \in Session /\ sessions'[s].user = sessions[s].user
             /\ sessions'[s].created = sessions[s].created /\ sessions'[s].seen = sessions[s].seen
             /\ sessions'[s].revoked <=> sessions[s].revoked \/ s \in E
             /\ s \notin E => sessions'[s].revoked = sessions[s].revoked
  <2>1. PICK x \in Session : x = sessions[s]
    BY <1>4, RowTypes DEF IdentityInv
  <2>2. sessions'[s] = [x EXCEPT !.revoked = x.revoked \/ s \in E]
    BY <1>6, <2>1 DEF Session
  <2>3. x.revoked \in BOOLEAN /\ (x.revoked \/ s \in E) \in BOOLEAN
    BY DEF Session
  <2> QED BY <2>1, <2>2, <2>3 DEF Session
<1>8. sessions' \in Seq(Session) /\ Len(sessions') = n
  <2>1. sessions' \in [1..n -> Session]
    BY <1>6, <1>7
  <2> QED BY <2>1
<1>9. /\ requests' \in Seq(Request) /\ Len(requests') = Len(requests) /\ requests'[r] = new
      /\ \A d \in 1..Len(requests) : d # r => requests'[d] = requests[d]
  BY <1>2, Moved DEF IdentityInv
<1>10. IdentityTypeOK'
  BY <1>1, <1>8, <1>9, NoRowAdded DEF IdentityInv, IdentityTypeOK
<1>11. RowsKept
  <2>1. Len(requests) \in Nat /\ clock \in Nat /\ \A s \in 1..n : sessions[s].seen \in Nat
    BY <1>4, RequestTimes, RowTypes DEF IdentityInv
  <2>2. \A s \in 1..n : sessions[s].seen <= sessions'[s].seen
    BY <1>7, <2>1
  <2> QED BY <1>1, <1>3, <1>4, <1>7, <1>8, <1>9, <2>1, <2>2 DEF RowsKept
<1>12. Authentic(new) <=> Authentic(q)
  BY <1>3 DEF Authentic
<1>13. \A s : /\ Uses(s)' = Uses(s) /\ \A d \in Uses(s) : requests'[d].at = requests[d].at
              /\ sessions'[s].created = sessions[s].created => UsedAt(s)' = UsedAt(s)
  BY <1>2, <1>12, SameUses DEF IdentityInv
<1>14. \A s \in 1..n : UsedAt(s)' = UsedAt(s)
  BY <1>7, <1>13
<1>15. \A d \in 1..Len(requests) : d # r => RequestInv(d)'
  BY <1>4, <1>9, <1>10, <1>11, <1>14, RequestStays
<1>16. \A s \in 1..n : MayEnd(new, s)' <=> s \in E
  <2>1. \A s : MayEnd(new, s) <=> MayEnd(q, s)
    BY <1>2 DEF MayEnd, Moves
  <2> QED BY <1>3, <1>4, <1>5, <1>11, <2>1, MayEndStays, EndedAre DEF IdentityInv
<1>17. RequestInv(r)'
  <2>1. /\ q.at <= clock /\ q.there <= n /\ q.there \in Nat
        /\ q.op # "login" => q.sid \in 1..q.there /\ sessions[q.sid].created <= q.at
    BY <1>3, <1>4, RequestTimes DEF RequestInv, IdentityInv
  <2>2. new.at = q.at /\ new.there = q.there /\ new.sid = q.sid
    BY <1>2 DEF Moves
  <2>3. 1..q.there \subseteq 1..n
    BY <1>4, <2>1
  <2>4. q.op # "login" => sessions'[q.sid].created <= q.at
    BY <1>7, <2>1, <2>3
  <2>5. \A s \in 1..q.there : MayEnd(new, s)' => sessions'[s].revoked
    BY <1>7, <1>16, <2>3
  <2> QED BY <1>1, <1>3, <1>8, <1>9, <2>1, <2>2, <2>4, <2>5 DEF RequestInv
<1>18. ASSUME NEW s \in 1..n PROVE SessionInv(s)'
  <2>1. sessions'[s].seen = sessions[s].seen
    BY <1>7
  <2>2. CASE s \in E
    <3>1. r \in 1..Len(requests') /\ requests'[r] = new /\ new.step = "done" /\ MayEnd(new, s)'
      BY <1>3, <1>9, <1>16, <2>2
    <3>2. (\E d \in 1..Len(requests) : requests[d].step = "done" /\ MayEnd(requests[d], s))'
      BY <3>1 DEF MayEnd
    <3> QED BY <1>4, <1>10, <1>11, <1>13, <1>14, <2>1, <3>2, SessionUnused
  <2>3. CASE s \notin E
    <3>1. sessions'[s].revoked = sessions[s].revoked
      BY <1>7, <2>3
    <3> QED BY <1>4, <1>10, <1>11, <1>13, <1>14, <2>1, <3>1, SessionUnused
  <2> QED BY <2>2, <2>3
<1> QED BY <1>8, <1>9, <1>10, <1>15, <1>17, <1>18, <1>1, NoRowAdded DEF IdentityInv

------------------------------------------------------------------------------
(* Requests begin, and time passes.                                         *)

LEMMA NewRequestKeeps ==
  ASSUME IdentityInv, NEW op \in Ops, NEW u \in User, NEW ip \in Ip \cup {NoIp}, NEW s \in Nat,
         NEW step \in {"lock", "find"}, NewRequest(op, u, ip, s, step),
         step = "lock" => op = "login", step = "find" => op # "login" /\ s \in 1..Len(sessions)
  PROVE  IdentityInv'
<1>0. PICK n \in Nat : n = Len(requests)
  BY RowTypes DEF IdentityInv
<1> DEFINE new == [op |-> op, user |-> u, ip |-> ip, sid |-> s, at |-> clock, seen |-> 0,
                   there |-> Len(sessions), step |-> step]
<1>1. n \in Nat /\ DOMAIN requests = 1..n /\ requests \in Seq(Request) /\ Len(sessions) \in Nat /\ clock \in Time
  BY <1>0, RowTypes DEF IdentityInv, IdentityTypeOK
<1>2. /\ new \in Request /\ new.op = op /\ new.sid = s /\ new.at = clock /\ new.there = Len(sessions)
      /\ new.step = step
  BY <1>1, ClockBounds DEF Request
<1>3. requests' = Append(requests, new) /\ UNCHANGED <<accounts, sessions, logins, clock>>
  BY DEF NewRequest
<1> HIDE DEF new
<1>4. /\ requests' \in Seq(Request) /\ Len(requests') = n + 1 /\ DOMAIN requests' = 1..(n + 1)
      /\ requests'[n + 1] = new /\ \A d \in 1..n : requests'[d] = requests[d]
  BY <1>0, <1>1, <1>2, <1>3
<1>5. IdentityTypeOK'
  BY <1>3, <1>4 DEF IdentityInv, IdentityTypeOK
<1>6. RowsKept
  <2>1. Len(sessions) \in Nat /\ clock \in Nat /\ \A z \in 1..Len(sessions) : sessions[z].seen \in Nat
    BY RequestTimes, RowTypes DEF IdentityInv
  <2> QED BY <1>0, <1>1, <1>3, <1>4, <2>1 DEF RowsKept
<1>7. 1..(n + 1) = (1..n) \cup {n + 1} /\ n + 1 \notin 1..n
  BY <1>1
<1>8. ~Authentic(new)
  BY <1>2 DEF Authentic
<1>9. \A z : Uses(z)' = Uses(z) /\ UsedAt(z)' = UsedAt(z) /\ \A d \in Uses(z) : requests'[d].at = requests[d].at
  <2>1. TAKE z
  <2>2. Uses(z)' = {d \in 1..(n + 1) : requests'[d].sid = z /\ Authentic(requests'[d])}
    BY <1>4 DEF Uses, Authentic
  <2>3. Uses(z) = {d \in 1..n : requests[d].sid = z /\ Authentic(requests[d])}
    BY <1>1 DEF Uses, Authentic
  <2>4. Uses(z)' = Uses(z)
    BY <1>4, <1>7, <1>8, <2>2, <2>3
  <2>5. \A d \in Uses(z) : requests'[d].at = requests[d].at
    BY <1>4, <2>3
  <2> QED BY <1>3, <2>4, <2>5 DEF UsedAt
<1>10. \A d \in 1..n : RequestInv(d)'
  BY <1>0, <1>4, <1>5, <1>6, <1>9, RequestStays
<1>11. RequestInv(n + 1)'
  <2>1. ASSUME step = "find" PROVE sessions[s].created <= clock
    <3>1. s \in 1..Len(sessions) /\ SessionInv(s)
      BY <2>1 DEF IdentityInv
    <3>2. sessions[s].created \in Nat /\ sessions[s].seen \in Nat /\ clock \in Nat
      BY <3>1, RequestTimes DEF IdentityInv
    <3> QED BY <3>1, <3>2 DEF SessionInv
  <2>2. clock \in Nat
    BY RequestTimes DEF IdentityInv
  <2>3. op # "login" => s \in 1..Len(sessions) /\ sessions[s].created <= clock /\ step = "find"
    BY <2>1
  <2>4. clock <= clock /\ Len(sessions) <= Len(sessions) /\ (step = "find" => op # "login")
    BY <1>1, <2>2
  <2>5. step \notin {"open", "log", "accept", "revoke", "done"}
    OBVIOUS
  <2> QED BY <1>2, <1>3, <1>4, <2>3, <2>4, <2>5 DEF RequestInv
<1>12. \A z \in 1..Len(sessions) : SessionInv(z)'
  BY <1>3, <1>5, <1>6, <1>9, SessionStays
<1>13. \A d \in 1..Len(requests') : RequestInv(d)'
  BY <1>4, <1>7, <1>10, <1>11
<1> QED BY <1>3, <1>5, <1>12, <1>13, NoRowAdded DEF IdentityInv

\* A request with the cookie of a session.
LEMMA WithCookieKeeps ==
  ASSUME IdentityInv, NEW s \in 1..Len(sessions), NEW op \in Ops, op # "login", NEW u \in User, SendWithCookie(op, s, u)
  PROVE  IdentityInv'
<1>1. s \in Nat
  BY RowTypes DEF IdentityInv
<1> QED BY <1>1, NewRequestKeeps DEF SendWithCookie

LEMMA RequestSendKeeps ==
  ASSUME IdentityInv, NEW s \in 1..Len(sessions),
         \/ SendLogout(s) \/ SendCheck(s)
         \/ \E op \in OwnOps : SendOwn(op, s)
         \/ \E op \in AdminOps, u \in User : SendAdmin(op, s, u)
  PROVE  IdentityInv'
<1>1. sessions[s].user \in User
  BY RowTypes DEF IdentityInv, Session
<1>2. CASE SendLogout(s) \/ SendCheck(s)
  BY <1>1, <1>2, WithCookieKeeps DEF SendLogout, SendCheck, Ops
<1>3. CASE \E op \in OwnOps : SendOwn(op, s)
  BY <1>1, <1>3, WithCookieKeeps DEF SendOwn, Ops, OwnOps
<1>4. CASE \E op \in AdminOps, u \in User : SendAdmin(op, s, u)
  BY <1>4, WithCookieKeeps DEF SendAdmin, Ops, AdminOps
<1> QED BY <1>2, <1>3, <1>4

LEMMA SendLoginKeeps ==
  ASSUME IdentityInv, NEW u \in User, NEW ip \in Ip, SendLogin(u, ip)
  PROVE  IdentityInv'
BY NewRequestKeeps DEF SendLogin, Ops

\* Time passes, or nothing happens.
LEMMA TickKeeps ==
  ASSUME IdentityInv, Tick \/ UNCHANGED identityVars
  PROVE  IdentityInv'
<1>1. UNCHANGED <<accounts, sessions, logins, requests>> /\ clock' \in Time /\ clock <= clock'
  BY ClockBounds DEF Tick, identityVars, Time, IdentityInv, IdentityTypeOK
<1>2. IdentityTypeOK'
  BY <1>1 DEF IdentityInv, IdentityTypeOK
<1>3. RowsKept
  <2>1. Len(sessions) \in Nat /\ Len(requests) \in Nat /\ \A z \in 1..Len(sessions) : sessions[z].seen \in Nat
    BY RequestTimes, RowTypes DEF IdentityInv
  <2> QED BY <1>1, <2>1 DEF RowsKept
<1>4. \A z : Uses(z)' = Uses(z) /\ UsedAt(z)' = UsedAt(z)
  BY <1>1 DEF Uses, UsedAt
<1>5. \A d \in 1..Len(requests) : RequestInv(d)'
  BY <1>1, <1>2, <1>3, <1>4, RequestStays
<1>6. \A s \in 1..Len(sessions) : SessionInv(s)'
  BY <1>1, <1>2, <1>3, <1>4, SessionStays
<1> QED BY <1>1, <1>2, <1>5, <1>6, NoRowAdded DEF IdentityInv

------------------------------------------------------------------------------
(* The invariant.                                                           *)

LEMMA IdentityInitInv == IdentityInit => IdentityInv
<1> SUFFICES ASSUME IdentityInit PROVE IdentityInv
  OBVIOUS
<1>1. Open \in Seq(Known) /\ Known \subseteq User
  BY IdentityAssumption
<1>2. PICK n \in Nat : n = Len(Open) /\ DOMAIN Open = 1..n /\ \A s \in 1..n : Open[s] \in User
  BY <1>1
<1>3. sessions = [s \in 1..n |-> [user |-> Open[s], created |-> 0, seen |-> 0, revoked |-> FALSE]]
  BY <1>2 DEF IdentityInit
<1>4. sessions \in Seq(Session) /\ Len(sessions) = n
  <2>1. \A s \in 1..n : [user |-> Open[s], created |-> 0, seen |-> 0, revoked |-> FALSE] \in Session
    BY <1>2, ClockBounds DEF Session
  <2>2. sessions \in [1..n -> Session]
    BY <1>3, <2>1
  <2> QED BY <2>2
<1>5. logins \in Seq(LoginEvent) /\ \A i \in DOMAIN logins : logins[i].reason # "locked"
  <2> DEFINE W == [name : User, ip : Ip, at : {0}, reason : {"wrong_password"}]
  <2>1. logins \in Seq(W)
    BY IdentityAssumption DEF IdentityInit
  <2>2. \A e \in W : e \in LoginEvent /\ e.reason # "locked"
    BY ClockBounds DEF LoginEvent
  <2> HIDE DEF W
  <2> QED BY <2>1, <2>2
<1>6. IdentityTypeOK
  <2>1. accounts \in [User -> Account]
    BY DEF IdentityInit, Account
  <2>2. requests \in Seq(Request) /\ clock \in Time
    BY ClockBounds DEF IdentityInit
  <2> QED BY <1>4, <1>5, <2>1, <2>2 DEF IdentityTypeOK
<1>7. Len(requests) = 0 /\ DOMAIN requests = {} /\ clock = 0
  BY DEF IdentityInit
<1>8. ASSUME NEW s \in 1..n PROVE SessionInv(s)
  <2>1. sessions[s].created = 0 /\ sessions[s].seen = 0 /\ sessions[s].revoked = FALSE
    BY <1>3
  <2>2. Uses(s) = {} /\ UsedAt(s) = {0}
    BY <1>7, <2>1 DEF Uses, UsedAt
  <2>3. \A x \in {0} : (0 + 1)..x = {}
    OBVIOUS
  <2> QED BY <1>7, <2>1, <2>2, <2>3 DEF SessionInv
<1>9. LockedForReason
  BY <1>5 DEF LockedForReason
<1> QED BY <1>4, <1>6, <1>7, <1>8, <1>9 DEF IdentityInv

LEMMA IdentityNextInv == IdentityInv /\ [IdentityNext]_identityVars => IdentityInv'
<1> SUFFICES ASSUME IdentityInv, [IdentityNext]_identityVars PROVE IdentityInv'
  OBVIOUS
<1>1. DOMAIN requests = 1..Len(requests) /\ DOMAIN sessions = 1..Len(sessions)
  BY RowTypes DEF IdentityInv
<1>2. CASE Tick \/ UNCHANGED identityVars
  BY <1>2, TickKeeps
<1>3. CASE \E u \in User, ip \in Ip : SendLogin(u, ip)
  BY <1>3, SendLoginKeeps
<1>4. ASSUME NEW s \in DOMAIN sessions,
             \/ SendLogout(s) \/ SendCheck(s)
             \/ \E op \in OwnOps : SendOwn(op, s)
             \/ \E op \in AdminOps, u \in User : SendAdmin(op, s, u)
      PROVE  IdentityInv'
  BY <1>1, <1>4, RequestSendKeeps
<1>5. ASSUME NEW r \in DOMAIN requests,
             \/ EnsureNotLocked(r) \/ VerifyLogin(r) \/ VerifyChange(r) \/ OpenSession(r) \/ LogSuccess(r)
             \/ FindSession(r) \/ Accept(r)
             \/ Refuse(r) \/ CreateAccount(r) \/ SetActive(r) \/ SetPassword(r) \/ Revoke(r)
      PROVE  IdentityInv'
  <2>1. r \in 1..Len(requests)
    BY <1>1
  <2>2. CASE EnsureNotLocked(r) \/ VerifyLogin(r) \/ VerifyChange(r) \/ LogSuccess(r)
    BY <2>1, <2>2, EnsureNotLockedKeeps, VerifyLoginKeeps, VerifyChangeKeeps, LogSuccessKeeps
  <2>3. CASE OpenSession(r) \/ Revoke(r)
    BY <2>1, <2>3, OpenSessionKeeps, RevokeKeeps
  <2>4. CASE FindSession(r) \/ Accept(r)
    BY <2>1, <2>4, FindSessionKeeps, AcceptKeeps
  <2>5. CASE Refuse(r) \/ CreateAccount(r) \/ SetActive(r) \/ SetPassword(r)
    BY <2>1, <2>5, SetKeeps
  <2> QED BY <1>5, <2>2, <2>3, <2>4, <2>5
<1> QED BY <1>2, <1>3, <1>4, <1>5 DEF IdentityNext

THEOREM IdentityInvariant == IdentitySpec => []IdentityInv
BY IdentityInitInv, IdentityNextInv, PTL DEF IdentitySpec

\* Type correctness.
THEOREM IdentityTypes == IdentitySpec => []IdentityTypeOK
<1>1. IdentityInv => IdentityTypeOK
  BY DEF IdentityInv
<1> QED BY <1>1, IdentityInvariant, PTL

\* A session is active for its whole time and no longer.
LEMMA SessionsLastInv == IdentityInv => SessionsLast
<1> SUFFICES ASSUME IdentityInv, NEW s \in DOMAIN sessions
             PROVE  /\ \A r \in Uses(s) : /\ requests[r].at < sessions[s].created + Absolute
                                          /\ \E t \in UsedAt(s) : /\ t < requests[r].at \/ t = sessions[s].created
                                                                  /\ requests[r].at < t + Idle
                    /\ IsActive(s, clock) => \E t \in UsedAt(s) : clock < t + Idle
                    /\ ~sessions[s].revoked /\ clock < sessions[s].created + Absolute =>
                         \A t \in UsedAt(s) : clock + TouchEvery <= t + Idle => IsActive(s, clock)
  BY DEF SessionsLast
<1>1. s \in 1..Len(sessions) /\ SessionInv(s)
  BY RowTypes DEF IdentityInv
<1>2. PICK U \in SUBSET Nat : U = UsedAt(s)
  BY <1>1, UsedAtIsNat DEF IdentityInv
<1>3. PICK c, e \in Nat : c = sessions[s].created /\ e = sessions[s].seen
  BY <1>1, RequestTimes DEF IdentityInv
<1>4. clock \in Nat
  BY RequestTimes DEF IdentityInv
<1>5. ASSUME NEW r \in Uses(s)
      PROVE  /\ requests[r].at < c + Absolute
             /\ \E t \in UsedAt(s) : (t < requests[r].at \/ t = c) /\ requests[r].at < t + Idle
  <2>1. r \in 1..Len(requests) /\ requests[r].op # "login" /\ requests[r].sid = s
    BY <1>5, RowTypes DEF Uses, IdentityInv
  <2>2. PICK y \in Nat : y = requests[r].at
    BY <2>1, RequestTimes DEF IdentityInv
  <2>3. c <= y
    BY <1>3, <2>1, <2>2, OfSession
  <2>4. y \in U /\ c \in U /\ y < c + Absolute
    BY <1>1, <1>2, <1>3, <1>5, <2>2 DEF UsedAt, SessionInv
  <2>5. CASE y = c
    <3>1. y < c + Idle
      BY <2>5, ClockBounds
    <3> QED BY <1>2, <2>2, <2>4, <3>1
  <2>6. CASE c < y
    <3>1. y \in (c + 1)..y
      BY <1>3, <2>2, <2>6
    <3>2. \E t \in U : t < y /\ y < t + Idle
      BY <1>1, <1>2, <1>3, <2>4, <3>1 DEF SessionInv
    <3> QED BY <1>2, <2>2, <2>4, <3>2
  <2> QED BY <1>3, <2>2, <2>3, <2>5, <2>6
<1>6. IsActive(s, clock) => \E t \in UsedAt(s) : clock < t + Idle
  BY <1>1 DEF IsActive, SessionInv
<1>7. ASSUME ~sessions[s].revoked, clock < c + Absolute, NEW t \in U, clock + TouchEvery <= t + Idle
      PROVE  IsActive(s, clock)
  <2>1. t <= e \/ t < e + TouchEvery
    BY <1>1, <1>2, <1>3, <1>7 DEF SessionInv
  <2>2. t \in Nat /\ TouchEvery \in Nat /\ TouchEvery > 0 /\ Idle \in Nat
    BY <1>7, ClockBounds
  <2>3. clock < e + Idle
    BY <1>3, <1>4, <1>7, <2>1, <2>2
  <2> QED BY <1>3, <1>7, <2>3 DEF IsActive
<1> QED BY <1>2, <1>3, <1>5, <1>6, <1>7

\* Who asked for it ended a session.
LEMMA SessionsEndInv == IdentityInv => SessionsEnd
<1> SUFFICES ASSUME IdentityInv PROVE SessionsEnd
  OBVIOUS
<1>1. DOMAIN requests = 1..Len(requests) /\ DOMAIN sessions = 1..Len(sessions)
  BY RowTypes DEF IdentityInv
<1>2. \A r \in 1..Len(requests) : requests[r].step = "done" =>
        \A s \in 1..requests[r].there : MayEnd(requests[r], s) => sessions[s].revoked
  BY DEF IdentityInv, RequestInv
<1>3. \A s \in 1..Len(sessions) : sessions[s].revoked =>
        \E r \in 1..Len(requests) : requests[r].step = "done" /\ MayEnd(requests[r], s)
  BY DEF IdentityInv, SessionInv
<1> QED BY <1>1, <1>2, <1>3 DEF SessionsEnd

\* A session is active until Idle after its last use, give or take TouchEvery, and for
\* no more than Absolute, whatever requests overlap; who asked for it ended it, and when
\* they are answered it has ended.
THEOREM SessionsEndSet == IdentitySpec => []SessionsEndAsSet
<1>1. IdentityInv => SessionsEndAsSet
  BY SessionsLastInv, SessionsEndInv DEF SessionsEndAsSet
<1> QED BY <1>1, IdentityInvariant, PTL

\* Nobody is refused as locked without MaxFailures wrong passwords in the Window before.
THEOREM LockedReason == IdentitySpec => []LockedForReason
<1>1. IdentityInv => LockedForReason
  BY DEF IdentityInv
<1> QED BY <1>1, IdentityInvariant, PTL

------------------------------------------------------------------------------
(* Schema.                                                                   *)

\* The roles, the rights, and the tables of the profiles.
SchemaRole == OptionalRoles \cup {"va_app", "va_read"}
SchemaRight == {"select", "insert", "update", "finish", "publish"}
ProfileTables == Named("scoring", {"profile", "profile_version", "profile_activation"})

\* The tables that the first n migrations make.
Made(n) == UNION {Migrations[k].makes : k \in 1..n}

\* What a role may do at a revision, in words of the documentation.
AppMay(t, w) ==
  \/ t[1] \in AppSchemas /\ w \in {"select", "insert"}
  \/ t \in Updatable /\ w = "update"
  \/ t \in Outbox(AppSchemas) /\ w = "publish"
ProfilesMay(t, w) ==
  \/ t \in ProfileTables /\ w = "select"
  \/ t \in Named("scoring", {"profile_version", "profile_activation"}) /\ w = "insert"
WebMay(t, w) ==
  \/ t[1] = "web" /\ w \in {"select", "insert"}
  \/ t \in Mutable /\ w = "update"
  \/ t = <<"web", "outbox">> /\ w = "publish"
WebRunMay(t, w) == t = <<"batch", "run">> /\ w \in {"select", "insert", "finish"}
ServiceMay(schema, t, w) ==
  \/ t[1] = schema /\ w \in {"select", "insert"}
  \/ t = <<schema, "outbox">> /\ w = "publish"

\* What is due to a role at a revision: never less at a later one.
Entitled(r, t, w, n) ==
  \/ r = "va_app" /\ n >= 1 /\ AppMay(t, w)
  \/ r = "va_read" /\ n >= 1 /\ t[1] # "identity" /\ w = "select"
  \/ r = "va_profiles" /\ n >= 8 /\ ProfilesMay(t, w)
  \/ r = "va_web" /\ n >= 10 /\ WebMay(t, w)
  \/ r = "va_web" /\ n >= 11 /\ WebRunMay(t, w)
  \/ r = "va_scoring" /\ n >= 14 /\ ServiceMay("scoring", t, w)
  \/ r = "va_identity" /\ n >= 15 /\ ServiceMay("identity", t, w)

\* And what of it by default, on tables to come.
DefaultIs(r, s, w, n) ==
  \/ r = "va_app" /\ n >= 1 /\ s \in AppSchemas /\ w \in {"select", "insert"}
  \/ r = "va_read" /\ n >= 1 /\ s \in AppSchemas /\ w = "select"
  \/ r = "va_scoring" /\ n >= 14 /\ s = "scoring" /\ w \in {"select", "insert"}

\* No right too many, none too few, and the same of the rights on tables to come.
NoneTooMany(held, S, n) ==
  \A g \in held : /\ g = <<g[1], g[2], g[3]>> /\ g[1] \in roles /\ g[2] \in S
                  /\ Entitled(g[1], g[2], g[3], n)
NoneTooFew(held, S, n) ==
  \A r \in roles \ bare, t \in S, w \in SchemaRight : Entitled(r, t, w, n) => <<r, t, w>> \in held
DefaultsFit(ds, n) ==
  \A d \in ds : d = <<d[1], d[2], d[3]>> /\ d[1] \in roles /\ DefaultIs(d[1], d[2], d[3], n)

RightsFit(held, ds, S, n) == NoneTooMany(held, S, n) /\ NoneTooFew(held, S, n) /\ DefaultsFit(ds, n)

\* Two roles are there from the start; only the others may be without their rights.
RolesFit ==
  /\ {"va_app", "va_read"} \subseteq roles /\ roles \subseteq SchemaRole
  /\ bare \subseteq roles \cap OptionalRoles

\* What may have become of the row.
RowFits ==
  row # <<>> => \E t \in tables, s \in {"stored", "closed", "changed"} :
                  row = <<t, s>> /\ (s = "changed" => t \in Mutable) /\ (s = "closed" => ClosesOnce(t))

\* The inductive invariant: every table there is is protected, and the rights are those due.
SchemaInv ==
  /\ revision \in 0..16
  /\ tables = Made(revision) /\ protected = tables
  /\ RolesFit
  /\ RightsFit(rights, defaults, tables, revision)
  /\ RowFits

------------------------------------------------------------------------------
\* What a migration makes, protects and gives.
Reviewed(m, k) ==
  /\ m.protects = m.makes
  /\ \A t \in m.makes : t = <<t[1], t[2]>> /\ t[1] \in m.of
  /\ "app" \in m.gives => m.of \subseteq AppSchemas
  /\ \A s \in m.of : \/ s \in AppSchemas /\ "app" \in m.gives
                     \/ s = "web" /\ "web" \in m.gives
                     \/ s = "identity" /\ k = 15
  /\ "scoring" \in m.of => k < 14
  /\ m.gives \subseteq {"app", "outbox", "profiles", "web", "web_run", "identity", "service"}

\* And to whom it gives rights: the order of the migrations.
Granted(m, k) ==
  /\ "outbox" \in m.gives => k = 9
  /\ \A t \in m.makes : t \in Outbox(AppSchemas) => k = 9
  /\ k = 9 => "outbox" \in m.gives /\ m.of = AppSchemas
  /\ "profiles" \in m.gives <=> k = 8
  /\ "web" \in m.gives => k >= 10
  /\ k = 10 => "web" \in m.gives
  /\ "web_run" \in m.gives <=> k = 11
  /\ "identity" \in m.gives <=> k = 15
  /\ "service" \in m.gives <=> k = 14

\* The migrations one by one.
LEMMA TheMigrations ==
  /\ Len(Migrations) = 16
  /\ Migrations[1] = M0001 /\ Migrations[2] = M0002 /\ Migrations[3] = M0003 /\ Migrations[4] = M0004
  /\ Migrations[5] = M0005 /\ Migrations[6] = M0006 /\ Migrations[7] = M0007 /\ Migrations[8] = M0008
  /\ Migrations[9] = M0009 /\ Migrations[10] = M0010 /\ Migrations[11] = M0011 /\ Migrations[12] = M0012
  /\ Migrations[13] = M0013 /\ Migrations[14] = M0014 /\ Migrations[15] = M0015 /\ Migrations[16] = M0016
BY DEF Migrations

LEMMA EachReviewed ==
  ASSUME NEW k \in 1..16
  PROVE  Reviewed(Migrations[k], k)
<1> USE TheMigrations DEF Reviewed, Makes, Named, AppSchemas
<1>1. CASE k = 1
  <2>1. M0001.protects = M0001.makes
    BY DEF M0001, InitialTables, RunTables, LogTables, FetchTables, ResultTables
  <2> QED BY <1>1, <2>1 DEF M0001, RunTables, LogTables, FetchTables, ResultTables
<1>2. CASE k = 2
  BY <1>2 DEF M0002
<1>3. CASE k = 3
  BY <1>3 DEF M0003
<1>4. CASE k = 4
  BY <1>4 DEF M0004
<1>5. CASE k = 5
  BY <1>5 DEF M0005
<1>6. CASE k = 6
  BY <1>6 DEF M0006
<1>7. CASE k = 7
  BY <1>7 DEF M0007
<1>8. CASE k = 8
  BY <1>8 DEF M0008
<1>9. CASE k = 9
  BY <1>9 DEF M0009
<1>10. CASE k = 10
  BY <1>10 DEF M0010
<1>11. CASE k = 11
  BY <1>11 DEF M0011
<1>12. CASE k = 12
  BY <1>12 DEF M0012
<1>13. CASE k = 13
  BY <1>13 DEF M0013
<1>14. CASE k = 14
  BY <1>14 DEF M0014
<1>15. CASE k = 15
  <2>1. M0015.protects = M0015.makes
    BY DEF M0015, IdentityTables
  <2> QED BY <1>15, <2>1 DEF M0015
<1>16. CASE k = 16
  BY <1>16 DEF M0016
<1> QED BY <1>1, <1>2, <1>3, <1>4, <1>5, <1>6, <1>7, <1>8, <1>9, <1>10, <1>11, <1>12, <1>13, <1>14, <1>15, <1>16

LEMMA EachGranted ==
  ASSUME NEW k \in 1..16
  PROVE  Granted(Migrations[k], k)
<1> USE TheMigrations DEF Granted, Makes, Named, AppSchemas, Outbox
<1>1. CASE k = 1
  BY <1>1 DEF M0001, RunTables, LogTables, FetchTables, ResultTables
<1>2. CASE k = 2
  BY <1>2 DEF M0002
<1>3. CASE k = 3
  BY <1>3 DEF M0003
<1>4. CASE k = 4
  BY <1>4 DEF M0004
<1>5. CASE k = 5
  BY <1>5 DEF M0005
<1>6. CASE k = 6
  BY <1>6 DEF M0006
<1>7. CASE k = 7
  BY <1>7 DEF M0007
<1>8. CASE k = 8
  BY <1>8 DEF M0008
<1>9. CASE k = 9
  <2>1. M0009.makes = AppSchemas \X {"outbox", "inbox"} /\ M0009.of = {t[1] : t \in M0009.makes}
    BY DEF M0009
  <2>2. \A s \in AppSchemas : <<s, "outbox">> \in M0009.makes
    BY <2>1
  <2>3. AppSchemas \subseteq M0009.of
    BY <2>1, <2>2
  <2>4. M0009.of \subseteq AppSchemas
    BY <2>1
  <2> QED BY <1>9, <2>3, <2>4 DEF M0009
<1>10. CASE k = 10
  BY <1>10 DEF M0010
<1>11. CASE k = 11
  BY <1>11 DEF M0011
<1>12. CASE k = 12
  BY <1>12 DEF M0012
<1>13. CASE k = 13
  BY <1>13 DEF M0013
<1>14. CASE k = 14
  BY <1>14 DEF M0014
<1>15. CASE k = 15
  BY <1>15 DEF M0015
<1>16. CASE k = 16
  BY <1>16 DEF M0016
<1> QED BY <1>1, <1>2, <1>3, <1>4, <1>5, <1>6, <1>7, <1>8, <1>9, <1>10, <1>11, <1>12, <1>13, <1>14, <1>15, <1>16

\* The tables whose rights a grant names one by one are there when it is given.
LEMMA TablesAreThere ==
  ASSUME NEW n \in 0..16
  PROVE  /\ n >= 1 => Updatable \subseteq Made(n)
         /\ n >= 8 => ProfileTables \subseteq Made(n)
         /\ n >= 9 => Outbox(AppSchemas) \subseteq Made(n)
         /\ n >= 10 => Mutable \subseteq Made(n) /\ <<"web", "outbox">> \in Made(n)
         /\ n >= 15 => <<"identity", "outbox">> \in Made(n)
<1>1. \A k \in 1..16 : k <= n => Migrations[k].makes \subseteq Made(n)
  BY DEF Made
<1>2. n >= 1 => M0001.makes \subseteq Made(n)
  BY <1>1, TheMigrations
<1>3. n >= 8 => M0006.makes \subseteq Made(n)
  BY <1>1, TheMigrations
<1>4. n >= 9 => M0009.makes \subseteq Made(n)
  BY <1>1, TheMigrations
<1>5. n >= 10 => M0010.makes \subseteq Made(n)
  BY <1>1, TheMigrations
<1>6. n >= 15 => M0015.makes \subseteq Made(n)
  BY <1>1, TheMigrations
<1>7. Updatable \subseteq M0001.makes
  BY DEF M0001, Makes, RunTables, Updatable
<1>8. ProfileTables \subseteq M0006.makes
  BY DEF M0006, Makes, ProfileTables
<1>9. Outbox(AppSchemas) \subseteq M0009.makes
  BY DEF M0009, Makes, Outbox
<1>10. Mutable \subseteq M0010.makes /\ <<"web", "outbox">> \in M0010.makes
  BY DEF M0010, Makes, Mutable, Named
<1>11. <<"identity", "outbox">> \in M0015.makes
  BY DEF M0015, Makes, Named
<1> QED BY <1>2, <1>3, <1>4, <1>5, <1>6, <1>7, <1>8, <1>9, <1>10, <1>11

------------------------------------------------------------------------------
(* One migration.                                                            *)

\* The tables after one more.
LEMMA MadeNext ==
  ASSUME NEW k \in 1..16
  PROVE  Made(k) = Made(k - 1) \cup Migrations[k].makes
<1>1. \A i : i \in 1..k <=> i \in 1..(k - 1) \/ i = k
  OBVIOUS
<1> QED BY <1>1 DEF Made

\* What is due stays due.
LEMMA EntitledStays ==
  ASSUME NEW m \in Nat, NEW n \in Nat, m <= n, NEW r, NEW t, NEW w, Entitled(r, t, w, m)
  PROVE  Entitled(r, t, w, n)
BY DEF Entitled

\* And by default.
LEMMA DefaultStays ==
  ASSUME NEW m \in Nat, NEW n \in Nat, m <= n, NEW r, NEW s, NEW w, DefaultIs(r, s, w, m)
  PROVE  DefaultIs(r, s, w, n)
BY DEF DefaultIs

\* A right on a new table by default is due.
LEMMA DefaultIsDue ==
  ASSUME NEW n \in Nat, NEW r, NEW t, NEW w, DefaultIs(r, t[1], w, n)
  PROVE  Entitled(r, t, w, n)
BY DEF DefaultIs, Entitled, AppMay, ServiceMay, AppSchemas

\* What the grants give.
GivenIs(gr, schemas, S, r, t, w) ==
  \/ gr = "app" /\ r = "va_app" /\ t \in S /\ t[1] \in schemas /\ w \in {"select", "insert"}
  \/ gr = "app" /\ r = "va_app" /\ t \in Updatable /\ w = "update"
  \/ gr = "app" /\ r = "va_read" /\ t \in S /\ t[1] \in schemas /\ w = "select"
  \/ gr = "outbox" /\ r = "va_app" /\ t \in Outbox(schemas) /\ w = "publish"
  \/ gr = "profiles" /\ r = "va_profiles" /\ ProfilesMay(t, w)
  \/ gr = "web" /\ r = "va_web" /\ t \in S /\ t[1] = "web" /\ w \in {"select", "insert"}
  \/ gr = "web" /\ r = "va_web" /\ t \in Mutable /\ w = "update"
  \/ gr = "web" /\ r = "va_web" /\ t = <<"web", "outbox">> /\ w = "publish"
  \/ gr = "web" /\ r = "va_read" /\ t \in S /\ t[1] = "web" /\ w = "select"
  \/ gr = "web_run" /\ r = "va_web" /\ WebRunMay(t, w)
  \/ gr = "identity" /\ r = "va_identity" /\ t \in S /\ t[1] = "identity" /\ w \in {"select", "insert"}
  \/ gr = "identity" /\ r = "va_identity" /\ t = <<"identity", "outbox">> /\ w = "publish"
  \/ gr = "service" /\ r = "va_scoring" /\ t \in S /\ t[1] = "scoring" /\ w \in {"select", "insert"}
  \/ gr = "service" /\ r = "va_scoring" /\ t = <<"scoring", "outbox">> /\ w = "publish"

\* The kinds of grants.
Grants == {"app", "outbox", "profiles", "web", "web_run", "identity", "service"}

\* A grant as a relation of roles, tables and rights.
LEMMA GivenAre ==
  ASSUME NEW gr \in Grants, NEW schemas, NEW S
  PROVE  /\ \A g \in Given(gr, schemas, S) : g = <<g[1], g[2], g[3]>>
         /\ \A r, t, w : <<r, t, w>> \in Given(gr, schemas, S) <=> GivenIs(gr, schemas, S, r, t, w)
<1> USE DEF Given, GivenIs, Grant, In
<1>1. CASE gr = "app"
  BY <1>1 DEF GrantApp
<1>2. CASE gr = "outbox"
  BY <1>2 DEF GrantOutbox
<1>3. CASE gr = "profiles"
  BY <1>3 DEF GrantProfiles, ProfilesMay, ProfileTables
<1>4. CASE gr = "web"
  BY <1>4 DEF GrantWeb, Outbox
<1>5. CASE gr = "web_run"
  BY <1>5 DEF GrantWebRun, WebRunMay
<1>6. CASE gr = "identity"
  BY <1>6 DEF GrantIdentity, Outbox
<1>7. CASE gr = "service"
  BY <1>7 DEF GrantService, Outbox, Updatable
<1> QED BY <1>1, <1>2, <1>3, <1>4, <1>5, <1>6, <1>7 DEF Grants

\* Default privileges: only of these.
LEMMA GivenDefaultsAre ==
  ASSUME NEW gr \in Grants, NEW schemas
  PROVE  /\ \A d \in GivenDefaults(gr, schemas) : d = <<d[1], d[2], d[3]>>
         /\ \A d \in GivenDefaults(gr, schemas) :
              \/ gr = "app" /\ d[1] = "va_app" /\ d[2] \in schemas /\ d[3] \in {"select", "insert"}
              \/ gr = "app" /\ d[1] = "va_read" /\ d[2] \in schemas /\ d[3] = "select"
              \/ gr = "service" /\ d[1] = "va_scoring" /\ d[2] = "scoring" /\ d[3] \in {"select", "insert"}
<1> USE DEF GivenDefaults, Grant
<1>1. CASE gr = "app"
  BY <1>1 DEF DefaultsApp
<1>2. CASE gr = "service"
  BY <1>2 DEF DefaultsService
<1>3. CASE gr \notin {"app", "service"}
  BY <1>3 DEF Grants
<1> QED BY <1>1, <1>2, <1>3

\* What a migration gives is due then.
LEMMA GivenIsDue ==
  ASSUME NEW k \in 1..16, NEW gr \in Migrations[k].gives, NEW r, NEW t, NEW w,
         GivenIs(gr, Migrations[k].of, Made(k), r, t, w)
  PROVE  t \in Made(k) /\ Entitled(r, t, w, k)
<1> DEFINE m == Migrations[k]
<1>1. Reviewed(m, k) /\ Granted(m, k)
  BY EachReviewed, EachGranted
<1>2. k \in Nat /\ k >= 1 /\ k \in 0..16
  OBVIOUS
<1>3. gr \in Grants
  BY <1>1 DEF Reviewed, Grants
<1> HIDE DEF m
<1>4. /\ k >= 1 => Updatable \subseteq Made(k)
      /\ k >= 8 => ProfileTables \subseteq Made(k)
      /\ k >= 9 => Outbox(AppSchemas) \subseteq Made(k)
      /\ k >= 10 => Mutable \subseteq Made(k) /\ <<"web", "outbox">> \in Made(k)
      /\ k >= 15 => <<"identity", "outbox">> \in Made(k)
  BY <1>2, TablesAreThere
<1>5. gr \in m.gives /\ GivenIs(gr, m.of, Made(k), r, t, w)
  BY DEF m
<1>6. CASE gr = "app"
  <2>1. m.of \subseteq AppSchemas
    BY <1>1, <1>5, <1>6 DEF Reviewed
  <2> QED BY <1>2, <1>4, <1>5, <1>6, <2>1 DEF GivenIs, Entitled, AppMay, AppSchemas
<1>7. CASE gr = "outbox"
  <2>1. k = 9 /\ m.of = AppSchemas
    BY <1>1, <1>5, <1>7 DEF Granted
  <2> QED BY <1>4, <1>5, <1>7, <2>1 DEF GivenIs, Entitled, AppMay
<1>8. CASE gr = "profiles"
  <2>1. k = 8
    BY <1>1, <1>5, <1>8 DEF Granted
  <2>2. t \in ProfileTables
    BY <1>5, <1>8 DEF GivenIs, ProfilesMay, ProfileTables, Named
  <2> QED BY <1>4, <1>5, <1>8, <2>1, <2>2 DEF GivenIs, Entitled
<1>9. CASE gr = "web"
  <2>1. k >= 10
    BY <1>1, <1>5, <1>9 DEF Granted
  <2> QED BY <1>2, <1>4, <1>5, <1>9, <2>1 DEF GivenIs, Entitled, WebMay
<1>10. CASE gr = "web_run"
  <2>1. k = 11
    BY <1>1, <1>5, <1>10 DEF Granted
  <2>2. t \in Updatable
    BY <1>5, <1>10 DEF GivenIs, WebRunMay, Updatable
  <2> QED BY <1>4, <1>5, <1>10, <2>1, <2>2 DEF GivenIs, Entitled
<1>11. CASE gr = "identity"
  <2>1. k = 15
    BY <1>1, <1>5, <1>11 DEF Granted
  <2> QED BY <1>4, <1>5, <1>11, <2>1 DEF GivenIs, Entitled, ServiceMay
<1>12. CASE gr = "service"
  <2>1. k = 14
    BY <1>1, <1>5, <1>12 DEF Granted
  <2>2. <<"scoring", "outbox">> \in Outbox(AppSchemas)
    BY DEF Outbox, AppSchemas
  <2> QED BY <1>4, <1>5, <1>12, <2>1, <2>2 DEF GivenIs, Entitled, ServiceMay
<1> QED BY <1>3, <1>6, <1>7, <1>8, <1>9, <1>10, <1>11, <1>12 DEF Grants

\* What is due then for the first time, of a right or of a table, the migration gives.
LEMMA DueIsGiven ==
  ASSUME NEW k \in 1..16, NEW r, NEW t \in Made(k), NEW w, Entitled(r, t, w, k)
  PROVE  \/ t \in Made(k - 1) /\ Entitled(r, t, w, k - 1)
         \/ \E gr \in Migrations[k].gives : GivenIs(gr, Migrations[k].of, Made(k), r, t, w)
<1> DEFINE m == Migrations[k]
<1>1. Reviewed(m, k) /\ Granted(m, k)
  BY EachReviewed, EachGranted
<1>2. k \in Nat /\ k - 1 \in Nat /\ k - 1 \in 0..16 /\ k >= 1
  OBVIOUS
<1>3. t \in Made(k - 1) \/ t \in m.makes
  BY MadeNext
<1>4. /\ k - 1 >= 1 => Updatable \subseteq Made(k - 1)
      /\ k - 1 >= 8 => ProfileTables \subseteq Made(k - 1)
      /\ k - 1 >= 9 => Outbox(AppSchemas) \subseteq Made(k - 1)
      /\ k - 1 >= 10 => Mutable \subseteq Made(k - 1) /\ <<"web", "outbox">> \in Made(k - 1)
      /\ k - 1 >= 15 => <<"identity", "outbox">> \in Made(k - 1)
  BY <1>2, TablesAreThere
<1> HIDE DEF m
<1>5. t \in m.makes => t[1] \in m.of /\ (t[1] \in AppSchemas => "app" \in m.gives)
                       /\ (t[1] = "web" => "web" \in m.gives) /\ (t[1] = "identity" => k = 15)
                       /\ (t[1] = "scoring" => k < 14)
                       /\ (t[1] \in AppSchemas \/ t[1] = "web" \/ t[1] = "identity")
  BY <1>1 DEF Reviewed, AppSchemas
<1>6. \A gr \in m.gives : GivenIs(gr, m.of, Made(k), r, t, w) =>
        \E g \in Migrations[k].gives : GivenIs(g, Migrations[k].of, Made(k), r, t, w)
  BY DEF m
<1>7. CASE r = "va_app" /\ AppMay(t, w)
  <2>0. Entitled(r, t, w, k - 1) \/ k = 1
    BY <1>2, <1>7 DEF Entitled
  <2>9. k = 1 => t \notin Made(k - 1)
    BY DEF Made
  <2>1. CASE t[1] \in AppSchemas /\ w \in {"select", "insert"}
    <3>1. t \in m.makes => "app" \in m.gives /\ t[1] \in m.of
      BY <1>5, <2>1
    <3>2. t \in m.makes => GivenIs("app", m.of, Made(k), r, t, w)
      BY <1>7, <2>1, <3>1 DEF GivenIs
    <3> QED BY <1>3, <1>6, <2>0, <2>9, <3>1, <3>2
  <2>2. CASE t \in Updatable /\ w = "update"
    <3>1. t \in m.makes => "app" \in m.gives
      BY <1>5, <2>2 DEF Updatable, AppSchemas
    <3>2. GivenIs("app", m.of, Made(k), r, t, w)
      BY <1>7, <2>2 DEF GivenIs
    <3> QED BY <1>3, <1>6, <2>0, <2>9, <3>1, <3>2
  <2>3. CASE t \in Outbox(AppSchemas) /\ w = "publish"
    <3>1. t \in m.makes => k = 9 /\ "outbox" \in m.gives /\ m.of = AppSchemas
      BY <1>1, <2>3 DEF Granted
    <3>2. m.of = AppSchemas => GivenIs("outbox", m.of, Made(k), r, t, w)
      BY <1>7, <2>3 DEF GivenIs
    <3> QED BY <1>3, <1>6, <2>0, <2>9, <3>1, <3>2
  <2> QED BY <1>7, <2>1, <2>2, <2>3 DEF AppMay
<1>8. CASE r = "va_read" /\ t[1] # "identity" /\ w = "select"
  <2>0. Entitled(r, t, w, k - 1) \/ k = 1
    BY <1>2, <1>8 DEF Entitled
  <2>9. k = 1 => t \notin Made(k - 1)
    BY DEF Made
  <2>1. t \in m.makes /\ t[1] \in AppSchemas => GivenIs("app", m.of, Made(k), r, t, w) /\ "app" \in m.gives
    BY <1>5, <1>8 DEF GivenIs
  <2>2. t[1] = "web" => GivenIs("web", m.of, Made(k), r, t, w)
    BY <1>8 DEF GivenIs
  <2> QED BY <1>3, <1>5, <1>6, <1>8, <2>0, <2>1, <2>2, <2>9
<1>9. CASE r = "va_profiles" /\ k >= 8 /\ ProfilesMay(t, w)
  <2>1. CASE k = 8
    <3>1. "profiles" \in m.gives
      BY <1>1, <2>1 DEF Granted
    <3>2. GivenIs("profiles", m.of, Made(k), r, t, w)
      BY <1>9 DEF GivenIs
    <3> QED BY <1>6, <3>1, <3>2
  <2>2. CASE k # 8
    <3>1. k - 1 >= 8
      BY <1>2, <1>9, <2>2
    <3>2. t \in ProfileTables
      BY <1>9 DEF ProfilesMay, ProfileTables, Named
    <3> QED BY <1>4, <1>9, <3>1, <3>2 DEF Entitled
  <2> QED BY <2>1, <2>2
<1>10. CASE r = "va_web" /\ k >= 10 /\ WebMay(t, w)
  <2>1. GivenIs("web", m.of, Made(k), r, t, w)
    BY <1>10 DEF GivenIs, WebMay
  <2>2. CASE "web" \in m.gives
    BY <1>6, <2>1, <2>2
  <2>3. CASE "web" \notin m.gives
    <3>1. k # 10
      BY <1>1, <2>3 DEF Granted
    <3>2. k - 1 >= 10
      BY <1>2, <1>10, <3>1
    <3>3. Entitled(r, t, w, k - 1)
      BY <1>10, <3>2 DEF Entitled
    <3>4. t[1] = "web" => t \in Made(k - 1)
      BY <1>3, <1>5, <2>3
    <3>5. t[1] = "web" \/ t \in Mutable \/ t = <<"web", "outbox">>
      BY <1>10 DEF WebMay
    <3> QED BY <1>4, <3>2, <3>3, <3>4, <3>5
  <2> QED BY <2>2, <2>3
<1>11. CASE r = "va_web" /\ k >= 11 /\ WebRunMay(t, w)
  <2>1. CASE k = 11
    <3>1. "web_run" \in m.gives
      BY <1>1, <2>1 DEF Granted
    <3>2. GivenIs("web_run", m.of, Made(k), r, t, w)
      BY <1>11 DEF GivenIs
    <3> QED BY <1>6, <3>1, <3>2
  <2>2. CASE k # 11
    <3>1. k - 1 >= 11
      BY <1>2, <1>11, <2>2
    <3>2. t \in Updatable
      BY <1>11 DEF WebRunMay, Updatable
    <3>3. t \in Made(k - 1)
      BY <1>2, <1>4, <3>1, <3>2
    <3> QED BY <1>11, <3>1, <3>3 DEF Entitled
  <2> QED BY <2>1, <2>2
<1>12. CASE r = "va_scoring" /\ k >= 14 /\ ServiceMay("scoring", t, w)
  <2>1. CASE k = 14
    <3>1. "service" \in m.gives
      BY <1>1, <2>1 DEF Granted
    <3>2. GivenIs("service", m.of, Made(k), r, t, w)
      BY <1>12 DEF GivenIs, ServiceMay
    <3> QED BY <1>6, <3>1, <3>2
  <2>2. CASE k # 14
    <3>1. k - 1 >= 14 /\ ~(k < 14)
      BY <1>2, <1>12, <2>2
    <3>2. t[1] = "scoring"
      BY <1>12 DEF ServiceMay
    <3>3. t \in Made(k - 1)
      BY <1>3, <1>5, <3>1, <3>2
    <3> QED BY <1>12, <3>1, <3>3 DEF Entitled
  <2> QED BY <2>1, <2>2
<1>13. CASE r = "va_identity" /\ k >= 15 /\ ServiceMay("identity", t, w)
  <2>1. CASE k = 15
    <3>1. "identity" \in m.gives
      BY <1>1, <2>1 DEF Granted
    <3>2. GivenIs("identity", m.of, Made(k), r, t, w)
      BY <1>13 DEF GivenIs, ServiceMay
    <3> QED BY <1>6, <3>1, <3>2
  <2>2. CASE k # 15
    <3>1. k - 1 >= 15
      BY <1>2, <1>13, <2>2
    <3>2. t[1] = "identity"
      BY <1>13 DEF ServiceMay
    <3>3. t \in Made(k - 1)
      BY <1>3, <1>5, <2>2, <3>2
    <3> QED BY <1>13, <3>1, <3>3 DEF Entitled
  <2> QED BY <2>1, <2>2
<1> QED BY <1>7, <1>8, <1>9, <1>10, <1>11, <1>12, <1>13 DEF Entitled

\* A database on the way of an upgrade: protected, with the rights that are due.
DbFits(db, k) ==
  /\ db.tables = Made(k) /\ db.protected = db.tables
  /\ RightsFit(db.rights, db.defaults, db.tables, k)

\* A migration keeps the rights of the roles there are to what is due.
LEMMA MigrateFits ==
  ASSUME NEW k \in 1..16, RolesFit, NEW db, DbFits(db, k - 1)
  PROVE  DbFits(Migrate(db, Migrations[k]), k)
<1>1. PICK m, S, new, given, more :
        /\ m = Migrations[k] /\ S = db.tables \cup m.makes
        /\ new = UNION {Grant(d[1], In({d[2]}, m.makes), {d[3]}) : d \in db.defaults}
        /\ given = UNION {Given(g, m.of, S) : g \in m.gives}
        /\ more = UNION {GivenDefaults(g, m.of) : g \in m.gives}
  OBVIOUS
<1>2. PICK to : to = Migrate(db, Migrations[k])
  OBVIOUS
<1>3. /\ to.tables = S /\ to.protected = db.protected \cup m.makes
      /\ to.rights = db.rights \cup new \cup ToExisting(given)
      /\ to.defaults = db.defaults \cup ToExisting(more)
  BY <1>1, <1>2, EachReviewed DEF Migrate, Reviewed
<1>4. S = Made(k) /\ db.tables = Made(k - 1)
  BY <1>1, MadeNext DEF DbFits
<1>5. k - 1 \in Nat /\ k \in Nat /\ k - 1 <= k
  OBVIOUS
<1>6. m.gives \subseteq Grants
  BY <1>1, EachReviewed DEF Reviewed, Grants
<1>7. /\ NoneTooMany(db.rights, Made(k - 1), k - 1) /\ NoneTooFew(db.rights, Made(k - 1), k - 1)
      /\ DefaultsFit(db.defaults, k - 1)
  BY <1>4 DEF DbFits, RightsFit
<1>8. NoneTooMany(to.rights, S, k)
  <2> SUFFICES ASSUME NEW g \in to.rights
               PROVE  /\ g = <<g[1], g[2], g[3]>> /\ g[1] \in roles /\ g[2] \in S
                      /\ Entitled(g[1], g[2], g[3], k)
    BY DEF NoneTooMany
  <2>1. CASE g \in db.rights
    <3>1. /\ g = <<g[1], g[2], g[3]>> /\ g[1] \in roles /\ g[2] \in Made(k - 1)
          /\ Entitled(g[1], g[2], g[3], k - 1)
      BY <1>7, <2>1 DEF NoneTooMany
    <3>2. Entitled(g[1], g[2], g[3], k)
      BY <1>5, <3>1, EntitledStays
    <3>3. g[2] \in S
      BY <1>1, <1>4, <3>1
    <3> QED BY <3>1, <3>2, <3>3
  <2>2. CASE g \in new
    <3>1. PICK d \in db.defaults : g \in Grant(d[1], In({d[2]}, m.makes), {d[3]})
      BY <1>1, <2>2
    <3>2. g = <<g[1], g[2], g[3]>> /\ g[1] = d[1] /\ g[2] \in m.makes /\ g[2][1] = d[2] /\ g[3] = d[3]
      BY <3>1 DEF Grant, In
    <3>3. d[1] \in roles /\ DefaultIs(d[1], d[2], d[3], k - 1)
      BY <1>7 DEF DefaultsFit
    <3>4. Entitled(g[1], g[2], g[3], k - 1)
      BY <1>5, <3>2, <3>3, DefaultIsDue
    <3>5. Entitled(g[1], g[2], g[3], k)
      BY <1>5, <3>4, EntitledStays
    <3> QED BY <1>1, <3>2, <3>3, <3>5
  <2>3. CASE g \in ToExisting(given)
    <3>1. PICK gr \in m.gives : g \in Given(gr, m.of, S) /\ g[1] \in roles
      BY <1>1, <2>3 DEF ToExisting
    <3>2. gr \in Grants
      BY <1>6
    <3>3. g = <<g[1], g[2], g[3]>>
      BY <3>1, <3>2, GivenAre
    <3>4. PICK r, t, w : r = g[1] /\ t = g[2] /\ w = g[3]
      OBVIOUS
    <3>5. <<r, t, w>> \in Given(gr, m.of, S)
      BY <3>1, <3>3, <3>4
    <3>6. GivenIs(gr, m.of, S, r, t, w)
      BY <3>2, <3>5, GivenAre
    <3>7. t \in Made(k) /\ Entitled(r, t, w, k)
      BY <1>1, <1>4, <3>6, GivenIsDue
    <3> QED BY <1>4, <3>1, <3>3, <3>4, <3>7
  <2> QED BY <1>3, <2>1, <2>2, <2>3
<1>9. NoneTooFew(to.rights, S, k)
  <2> SUFFICES ASSUME NEW r \in roles \ bare, NEW t \in S, NEW w \in SchemaRight, Entitled(r, t, w, k)
               PROVE  <<r, t, w>> \in to.rights
    BY DEF NoneTooFew
  <2>1. \/ t \in Made(k - 1) /\ Entitled(r, t, w, k - 1)
        \/ \E gr \in Migrations[k].gives : GivenIs(gr, Migrations[k].of, Made(k), r, t, w)
    BY <1>4, DueIsGiven
  <2>2. CASE t \in Made(k - 1) /\ Entitled(r, t, w, k - 1)
    BY <1>3, <1>7, <2>2 DEF NoneTooFew
  <2>3. CASE \E gr \in Migrations[k].gives : GivenIs(gr, Migrations[k].of, Made(k), r, t, w)
    <3>1. PICK gr \in m.gives : GivenIs(gr, m.of, S, r, t, w)
      BY <1>1, <1>4, <2>3
    <3>2. <<r, t, w>> \in Given(gr, m.of, S)
      BY <1>6, <3>1, GivenAre
    <3>3. <<r, t, w>> \in given
      BY <1>1, <3>2
    <3> QED BY <1>3, <3>3 DEF ToExisting
  <2> QED BY <2>1, <2>2, <2>3
<1>10. DefaultsFit(to.defaults, k)
  <2> SUFFICES ASSUME NEW d \in to.defaults
               PROVE  d = <<d[1], d[2], d[3]>> /\ d[1] \in roles /\ DefaultIs(d[1], d[2], d[3], k)
    BY DEF DefaultsFit
  <2>1. CASE d \in db.defaults
    BY <1>5, <1>7, <2>1, DefaultStays DEF DefaultsFit
  <2>2. CASE d \in ToExisting(more)
    <3>1. PICK gr \in m.gives : d \in GivenDefaults(gr, m.of) /\ d[1] \in roles
      BY <1>1, <2>2 DEF ToExisting
    <3>2. gr \in Grants
      BY <1>6
    <3>3. /\ d = <<d[1], d[2], d[3]>>
          /\ \/ gr = "app" /\ d[1] = "va_app" /\ d[2] \in m.of /\ d[3] \in {"select", "insert"}
             \/ gr = "app" /\ d[1] = "va_read" /\ d[2] \in m.of /\ d[3] = "select"
             \/ gr = "service" /\ d[1] = "va_scoring" /\ d[2] = "scoring" /\ d[3] \in {"select", "insert"}
      BY <3>1, <3>2, GivenDefaultsAre
    <3>4. ("app" \in m.gives => m.of \subseteq AppSchemas) /\ ("service" \in m.gives => k = 14)
      BY <1>1, EachReviewed, EachGranted DEF Reviewed, Granted
    <3>5. k >= 1
      OBVIOUS
    <3> QED BY <3>1, <3>3, <3>4, <3>5 DEF DefaultIs
  <2> QED BY <1>3, <2>1, <2>2
<1>11. to.protected = to.tables
  BY <1>1, <1>3 DEF DbFits
<1> QED BY <1>2, <1>3, <1>4, <1>8, <1>9, <1>10, <1>11 DEF DbFits, RightsFit

\* An upgrade is one migration after the other.
LEMMA MigratedIs ==
  ASSUME NEW n \in 1..16, revision \in 0..16, n > revision
  PROVE  \E db : /\ db[revision] = [tables |-> tables, protected |-> protected, rights |-> rights,
                     defaults |-> defaults]
                 /\ \A k \in (revision + 1)..n : db[k] = Migrate(db[k - 1], Migrations[k])
                 /\ Migrated(n) = db[n]
<1>1. PICK b, start : b = revision
        /\ start = [tables |-> tables, protected |-> protected, rights |-> rights, defaults |-> defaults]
  OBVIOUS
<1>0. b \in 0..16 /\ n > b /\ b \in Nat /\ n \in Nat
  BY <1>1
<1> DEFINE DbAt(f, i) == IF i = b THEN start ELSE Migrate(f[i - 1], Migrations[i])
           Upto(q) == \E f : f = [i \in b..q |-> DbAt(f, i)]
<1>2. \A q \in b..n : Upto(q)
  <2> SUFFICES ASSUME {q \in b..n : ~Upto(q)} # {} PROVE FALSE
    OBVIOUS
  <2>1. {q \in b..n : ~Upto(q)} \in SUBSET Nat
    BY <1>0
  <2> HIDE DEF Upto
  <2>2. PICK q \in b..n : ~Upto(q) /\ \A p \in b..n : ~Upto(p) => q <= p
    <3>1. PICK S : S = {q \in b..n : ~Upto(q)}
      OBVIOUS
    <3>2. \E p \in S : \A k \in S : p <= k
      BY <2>1, <3>1, LeastNumber
    <3> QED BY <3>1, <3>2
  <2>3. CASE q = b
    <3>1. PICK g : g = [i \in b..b |-> start]
      OBVIOUS
    <3>2. \A i \in b..b : i = b
      BY <1>0
    <3>3. g = [i \in b..b |-> DbAt(g, i)]
      BY <3>1, <3>2
    <3> QED BY <2>2, <2>3, <3>3 DEF Upto
  <2>4. CASE q # b
    <3>1. q - 1 \in b..n /\ q - 1 < q /\ q \in Nat /\ ~(q <= q - 1)
      BY <1>0, <2>4
    <3>2. Upto(q - 1)
      BY <2>2, <3>1
    <3>3. PICK f : f = [i \in b..(q - 1) |-> DbAt(f, i)]
      BY <3>2 DEF Upto
    <3>4. PICK g : g = [i \in b..q |-> IF i = q THEN Migrate(f[q - 1], Migrations[q]) ELSE f[i]]
      OBVIOUS
    <3>5. \A i \in b..q : g[i] = DbAt(g, i)
      <4>1. SUFFICES ASSUME NEW i \in b..q PROVE g[i] = DbAt(g, i)
        OBVIOUS
      <4>2. CASE i = q
        <5>1. q \in b..q /\ q - 1 \in b..q /\ q - 1 # q
          BY <1>0, <3>1
        <5>2. g[q] = Migrate(f[q - 1], Migrations[q]) /\ g[q - 1] = f[q - 1]
          BY <3>4, <5>1
        <5> QED BY <2>4, <4>2, <5>2
      <4>3. CASE i # q
        <5>1. i \in b..(q - 1)
          BY <1>0, <3>1, <4>3
        <5>2. g[i] = f[i] /\ f[i] = DbAt(f, i)
          BY <3>3, <3>4, <4>3, <5>1
        <5>3. i # b => i - 1 \in b..q /\ i - 1 # q
          BY <1>0, <3>1, <5>1
        <5>4. i # b => g[i - 1] = f[i - 1]
          BY <3>4, <5>3
        <5> QED BY <5>2, <5>4
      <4> QED BY <4>2, <4>3
    <3>6. g = [i \in b..q |-> DbAt(g, i)]
      BY <3>4, <3>5
    <3> QED BY <2>2, <3>6 DEF Upto
  <2> QED BY <2>3, <2>4
<1>3. Upto(n)
  BY <1>0, <1>2
<1>4. PICK f : f = CHOOSE h : h = [i \in b..n |-> DbAt(h, i)]
  OBVIOUS
<1>5. f = [i \in b..n |-> DbAt(f, i)]
  BY <1>3, <1>4
<1>6. Migrated(n) = f[n]
  BY <1>1, <1>4 DEF Migrated
<1>7. f[b] = start /\ \A k \in (b + 1)..n : f[k] = Migrate(f[k - 1], Migrations[k])
  <2>1. \A i \in b..n : f[i] = DbAt(f, i)
    BY <1>5, Zenon
  <2> HIDE DEF DbAt
  <2>2. b \in b..n /\ \A k \in (b + 1)..n : k \in b..n /\ k # b
    BY <1>0
  <2> QED BY <2>1, <2>2 DEF DbAt
<1> QED BY <1>1, <1>6, <1>7

\* So at its end the database is protected and has the rights that are due.
LEMMA MigratedFits ==
  ASSUME NEW n \in 1..16, n > revision, SchemaInv
  PROVE  DbFits(Migrated(n), n)
<1>0. revision \in 0..16 /\ RolesFit
  BY DEF SchemaInv
<1>1. PICK db : /\ db[revision] = [tables |-> tables, protected |-> protected, rights |-> rights,
                    defaults |-> defaults]
                /\ \A k \in (revision + 1)..n : db[k] = Migrate(db[k - 1], Migrations[k])
                /\ Migrated(n) = db[n]
  BY <1>0, MigratedIs
<1>2. PICK S : S = {k \in revision..n : ~DbFits(db[k], k)}
  OBVIOUS
<1>3. CASE S = {}
  <2>1. n \in revision..n
    BY <1>0
  <2> QED BY <1>1, <1>2, <1>3, <2>1
<1>4. CASE S # {}
  <2>1. S \in SUBSET Nat
    BY <1>0, <1>2
  <2>2. PICK k \in S : \A i \in S : k <= i
    BY <1>4, <2>1, LeastNumber
  <2>3. k \in revision..n /\ ~DbFits(db[k], k)
    BY <1>2, <2>2
  <2>4. DbFits(db[revision], revision)
    BY <1>1 DEF SchemaInv, DbFits
  <2>5. k # revision
    BY <2>3, <2>4
  <2>6. k \in 1..16 /\ k \in (revision + 1)..n /\ k - 1 \in revision..n /\ ~(k <= k - 1)
    BY <1>0, <2>3, <2>5
  <2>7. DbFits(db[k - 1], k - 1)
    BY <1>2, <2>2, <2>6
  <2>8. DbFits(Migrate(db[k - 1], Migrations[k]), k)
    BY <1>0, <2>6, <2>7, MigrateFits
  <2> QED BY <1>1, <2>3, <2>6, <2>8
<1> QED BY <1>3, <1>4

------------------------------------------------------------------------------
(* The roles.                                                                *)

\* What a role is given at a start: X is all that is due to it, and not more.
LEMMA RoleIsGiven ==
  ASSUME SchemaInv, NEW r \in OptionalRoles, Since[r] <= revision, NEW X,
         X = CASE r = "va_profiles" -> GrantProfiles
               [] r = "va_web" -> GrantWeb(tables) \cup IF revision < 11 THEN {} ELSE GrantWebRun
               [] r = "va_identity" -> GrantIdentity(tables)
               [] r = "va_scoring" -> GrantService(tables)
  PROVE  /\ \A g \in X : /\ g = <<g[1], g[2], g[3]>> /\ g[1] \in {r, "va_read"} /\ g[2] \in tables
                         /\ Entitled(g[1], g[2], g[3], revision)
         /\ \A t \in tables, w \in SchemaRight : Entitled(r, t, w, revision) => <<r, t, w>> \in X
<1> DEFINE n == revision
<1>1. n \in 0..16 /\ tables = Made(n)
  BY DEF SchemaInv
<1>2. /\ n >= 1 => Updatable \subseteq Made(n)
      /\ n >= 8 => ProfileTables \subseteq Made(n)
      /\ n >= 9 => Outbox(AppSchemas) \subseteq Made(n)
      /\ n >= 10 => Mutable \subseteq Made(n) /\ <<"web", "outbox">> \in Made(n)
      /\ n >= 15 => <<"identity", "outbox">> \in Made(n)
  BY <1>1, TablesAreThere
<1>3. PICK S : S = tables
  OBVIOUS
<1>4. \A gr \in Grants : \A g \in Given(gr, {}, S) : g = <<g[1], g[2], g[3]>> /\ GivenIs(gr, {}, S, g[1], g[2], g[3])
  <2> SUFFICES ASSUME NEW gr \in Grants, NEW g \in Given(gr, {}, S)
               PROVE  g = <<g[1], g[2], g[3]>> /\ GivenIs(gr, {}, S, g[1], g[2], g[3])
    OBVIOUS
  <2>1. g = <<g[1], g[2], g[3]>>
    BY GivenAre
  <2>2. PICK q, t, w : q = g[1] /\ t = g[2] /\ w = g[3]
    OBVIOUS
  <2>3. <<q, t, w>> \in Given(gr, {}, S)
    BY <2>1, <2>2
  <2>4. GivenIs(gr, {}, S, q, t, w)
    BY <2>3, GivenAre
  <2> QED BY <2>1, <2>2, <2>4
<1>5. \A gr \in Grants : \A q, t, w : GivenIs(gr, {}, S, q, t, w) => <<q, t, w>> \in Given(gr, {}, S)
  BY GivenAre
<1>6. /\ GrantProfiles = Given("profiles", {}, S) /\ GrantWeb(S) = Given("web", {}, S)
      /\ GrantWebRun = Given("web_run", {}, S) /\ GrantIdentity(S) = Given("identity", {}, S)
      /\ GrantService(S) = Given("service", {}, S)
  BY DEF Given
<1>7. {"profiles", "web", "web_run", "identity", "service"} \subseteq Grants
  BY DEF Grants
<1>8. CASE r = "va_profiles"
  <2>1. n >= 8
    BY <1>8 DEF Since
  <2>2. X = Given("profiles", {}, S)
    BY <1>6, <1>8
  <2>3. \A q, t, w : GivenIs("profiles", {}, S, q, t, w) <=> q = r /\ ProfilesMay(t, w)
    BY <1>8 DEF GivenIs
  <2>4. \A t, w : ProfilesMay(t, w) => t \in tables /\ Entitled(r, t, w, n)
    BY <1>1, <1>2, <1>8, <2>1 DEF ProfilesMay, Entitled, ProfileTables, Named
  <2>5. \A t, w : Entitled(r, t, w, n) => ProfilesMay(t, w)
    BY <1>8 DEF Entitled
  <2>6. \A q, t, w : GivenIs("profiles", {}, S, q, t, w) => q = r /\ t \in tables /\ Entitled(q, t, w, n)
    BY <2>3, <2>4
  <2>7. \A t, w : Entitled(r, t, w, n) => GivenIs("profiles", {}, S, r, t, w)
    BY <2>3, <2>5
  <2> QED BY <1>4, <1>5, <1>7, <2>2, <2>6, <2>7
<1>9. CASE r = "va_web"
  <2>1. n >= 10
    BY <1>9 DEF Since
  <2>2. X = Given("web", {}, S) \cup IF n < 11 THEN {} ELSE Given("web_run", {}, S)
    BY <1>3, <1>6, <1>9
  <2>3. \A q, t, w : GivenIs("web", {}, S, q, t, w) =>
          /\ q \in {r, "va_read"} /\ t \in tables /\ Entitled(q, t, w, n)
    BY <1>1, <1>2, <1>3, <1>9, <2>1 DEF GivenIs, Entitled, WebMay
  <2>4. \A q, t, w : n >= 11 /\ GivenIs("web_run", {}, S, q, t, w) =>
          /\ q = r /\ t \in tables /\ Entitled(q, t, w, n)
    BY <1>1, <1>2, <1>9 DEF GivenIs, Entitled, WebRunMay, Updatable
  <2>5. \A t \in tables : \A w : Entitled(r, t, w, n) =>
          GivenIs("web", {}, S, r, t, w) \/ (n >= 11 /\ GivenIs("web_run", {}, S, r, t, w))
    BY <1>3, <1>9 DEF GivenIs, Entitled, WebMay
  <2>6. n < 11 <=> ~(n >= 11)
    BY <1>1
  <2>7. \A g \in X : \/ g \in Given("web", {}, S)
                     \/ n >= 11 /\ g \in Given("web_run", {}, S)
    BY <2>2, <2>6
  <2>8. \A g \in X : /\ g = <<g[1], g[2], g[3]>>
                     /\ \/ GivenIs("web", {}, S, g[1], g[2], g[3])
                        \/ n >= 11 /\ GivenIs("web_run", {}, S, g[1], g[2], g[3])
    BY <1>4, <1>7, <2>7
  <2>9. \A t \in tables : \A w : Entitled(r, t, w, n) => <<r, t, w>> \in X
    BY <1>5, <1>7, <2>2, <2>5, <2>6
  <2> QED BY <2>3, <2>4, <2>8, <2>9
<1>10. CASE r = "va_identity"
  <2>1. n >= 15
    BY <1>10 DEF Since
  <2>2. X = Given("identity", {}, S)
    BY <1>3, <1>6, <1>10
  <2>3. \A q, t, w : GivenIs("identity", {}, S, q, t, w) => q = r /\ t \in tables /\ Entitled(q, t, w, n)
    BY <1>1, <1>2, <1>3, <1>10, <2>1 DEF GivenIs, Entitled, ServiceMay
  <2>4. \A t \in tables : \A w : Entitled(r, t, w, n) => GivenIs("identity", {}, S, r, t, w)
    BY <1>3, <1>10 DEF GivenIs, Entitled, ServiceMay
  <2> QED BY <1>4, <1>5, <1>7, <2>2, <2>3, <2>4
<1>11. CASE r = "va_scoring"
  <2>1. n >= 14
    BY <1>11 DEF Since
  <2>2. X = Given("service", {}, S)
    BY <1>3, <1>6, <1>11
  <2>0. <<"scoring", "outbox">> \in Outbox(AppSchemas)
    BY DEF Outbox, AppSchemas
  <2>3. \A q, t, w : GivenIs("service", {}, S, q, t, w) => q = r /\ t \in tables /\ Entitled(q, t, w, n)
    BY <1>1, <1>2, <1>3, <1>11, <2>0, <2>1 DEF GivenIs, Entitled, ServiceMay
  <2>4. \A t \in tables : \A w : Entitled(r, t, w, n) => GivenIs("service", {}, S, r, t, w)
    BY <1>3, <1>11 DEF GivenIs, Entitled, ServiceMay
  <2> QED BY <1>4, <1>5, <1>7, <2>2, <2>3, <2>4
<1> QED BY <1>8, <1>9, <1>10, <1>11 DEF OptionalRoles

\* The invariant survives each step: roles get their rights at a start,
LEMMA GrantRoleKeeps ==
  ASSUME SchemaInv, NEW r \in OptionalRoles, GrantRole(r)
  PROVE  SchemaInv'
<1>1. PICK X : X = CASE r = "va_profiles" -> GrantProfiles
                     [] r = "va_web" -> GrantWeb(tables) \cup IF revision < 11 THEN {} ELSE GrantWebRun
                     [] r = "va_identity" -> GrantIdentity(tables)
                     [] r = "va_scoring" -> GrantService(tables)
  OBVIOUS
<1>2. /\ Since[r] <= revision /\ r \in roles
      /\ rights' = rights \cup X /\ bare' = bare \ {r}
      /\ defaults' = IF r = "va_scoring" THEN defaults \cup DefaultsService ELSE defaults
      /\ UNCHANGED <<revision, tables, protected, roles, row>>
  BY <1>1, Zenon DEF GrantRole
<1>3. /\ \A g \in X : /\ g = <<g[1], g[2], g[3]>> /\ g[1] \in {r, "va_read"} /\ g[2] \in tables
                      /\ Entitled(g[1], g[2], g[3], revision)
      /\ \A t \in tables, w \in SchemaRight : Entitled(r, t, w, revision) => <<r, t, w>> \in X
  BY <1>1, <1>2, RoleIsGiven, ZenonT(40)
<1>4. "va_read" \in roles
  BY DEF SchemaInv, RolesFit
<1>5. NoneTooMany(rights, tables, revision) /\ NoneTooFew(rights, tables, revision) /\ DefaultsFit(defaults, revision)
  BY DEF SchemaInv, RightsFit
<1>6. NoneTooMany(rights, tables, revision)'
  BY <1>2, <1>3, <1>4, <1>5 DEF NoneTooMany
<1>7. NoneTooFew(rights, tables, revision)'
  BY <1>2, <1>3, <1>5 DEF NoneTooFew
<1>8. DefaultsFit(defaults, revision)'
  <2>1. CASE r = "va_scoring"
    <3>1. revision >= 14
      BY <1>2, <2>1 DEF Since, SchemaInv
    <3>2. \A d \in DefaultsService : d = <<d[1], d[2], d[3]>> /\ d[1] = r /\ DefaultIs(d[1], d[2], d[3], revision)
      BY <2>1, <3>1 DEF DefaultsService, Grant, DefaultIs
    <3> QED BY <1>2, <1>5, <2>1, <3>2 DEF DefaultsFit
  <2>2. CASE r # "va_scoring"
    BY <1>2, <1>5, <2>2 DEF DefaultsFit
  <2> QED BY <2>1, <2>2
<1>9. RolesFit'
  BY <1>2 DEF SchemaInv, RolesFit
<1>10. RowFits'
  BY <1>2 DEF SchemaInv, RowFits
<1> QED BY <1>2, <1>6, <1>7, <1>8, <1>9, <1>10 DEF SchemaInv, RightsFit

\* or are made without them,
LEMMA CreateRoleKeeps ==
  ASSUME SchemaInv, NEW r \in OptionalRoles, CreateRole(r)
  PROVE  SchemaInv'
<1>1. /\ roles' = roles \cup {r} /\ bare' = bare \cup {r}
      /\ UNCHANGED <<revision, tables, protected, rights, defaults, row>>
  BY DEF CreateRole
<1>2. NoneTooMany(rights, tables, revision) /\ NoneTooFew(rights, tables, revision) /\ DefaultsFit(defaults, revision)
  BY DEF SchemaInv, RightsFit
<1>3. NoneTooMany(rights, tables, revision)' /\ DefaultsFit(defaults, revision)'
  BY <1>1, <1>2 DEF NoneTooMany, DefaultsFit
<1>4. NoneTooFew(rights, tables, revision)'
  BY <1>1, <1>2 DEF NoneTooFew
<1>5. RolesFit'
  BY <1>1 DEF SchemaInv, RolesFit, SchemaRole
<1>6. RowFits'
  BY <1>1 DEF SchemaInv, RowFits
<1> QED BY <1>1, <1>3, <1>4, <1>5, <1>6 DEF SchemaInv, RightsFit

\* the database goes up,
LEMMA UpgradeKeeps ==
  ASSUME SchemaInv, NEW n \in Revisions, Upgrade(n)
  PROVE  SchemaInv'
<1>1. PICK db : db = Migrated(n)
  OBVIOUS
<1>2. /\ n > revision /\ revision' = n
      /\ tables' = db.tables /\ protected' = db.protected /\ rights' = db.rights /\ defaults' = db.defaults
      /\ UNCHANGED <<roles, bare, row>>
  BY <1>1 DEF Upgrade
<1>3. n \in 1..16
  BY SchemaAssumption, TheMigrations
<1>4. DbFits(db, n)
  BY <1>1, <1>2, <1>3, MigratedFits
<1>5. NoneTooMany(db.rights, db.tables, n) /\ NoneTooFew(db.rights, db.tables, n) /\ DefaultsFit(db.defaults, n)
  BY <1>4 DEF DbFits, RightsFit
<1>6. NoneTooMany(rights, tables, revision)' /\ NoneTooFew(rights, tables, revision)'
        /\ DefaultsFit(defaults, revision)'
  BY <1>2, <1>5 DEF NoneTooMany, NoneTooFew, DefaultsFit
<1>7. tables' = Made(n) /\ protected' = tables' /\ RightsFit(rights, defaults, tables, revision)'
  BY <1>2, <1>4, <1>6 DEF DbFits, RightsFit
<1>8. RolesFit'
  BY <1>2 DEF SchemaInv, RolesFit
<1>9. tables \subseteq tables'
  <2>1. revision \in 0..16 /\ tables = Made(revision)
    BY DEF SchemaInv
  <2>2. \A k : k \in 1..revision => k \in 1..n
    BY <1>2, <1>3, <2>1
  <2> QED BY <1>7, <2>1, <2>2 DEF Made
<1>10. RowFits'
  BY <1>2, <1>9 DEF SchemaInv, RowFits
<1>11. (revision \in 0..16)' /\ (tables = Made(revision))'
  BY <1>2, <1>3, <1>7 DEF Made
<1> QED BY <1>7, <1>8, <1>10, <1>11 DEF SchemaInv

\* and a client runs a statement.
LEMMA StatementKeeps ==
  ASSUME SchemaInv, NEW r \in Clients, NEW t \in Watched,
         InsertRow(r, t) \/ CloseRow(r, t) \/ ChangeRow(r, t) \/ DeleteRow(r, t)
  PROVE  SchemaInv'
<1>1. UNCHANGED <<revision, tables, protected, roles, rights, defaults, bare>>
  BY DEF InsertRow, CloseRow, ChangeRow, DeleteRow, Becomes
<1>2. RolesFit' /\ RightsFit(rights, defaults, tables, revision)'
  BY <1>1 DEF SchemaInv, RolesFit, RightsFit, NoneTooMany, NoneTooFew, DefaultsFit
<1>3. RowFits
  BY DEF SchemaInv
<1>4. protected = tables
  BY DEF SchemaInv
<1>5. RowFits'
  <2>1. CASE InsertRow(r, t)
    BY <1>1, <2>1 DEF InsertRow, RowFits
  <2>2. CASE CloseRow(r, t)
    <3>1. PICK s \in {"stored", "closed", "changed"} : row = <<t, s>> /\ t \in protected
      BY <1>3, <1>4, <2>2 DEF CloseRow, RowFits
    <3>2. ClosesOnce(t) /\ s = "stored" /\ row' = <<t, "closed">>
      BY <2>2, <3>1 DEF CloseRow, Becomes
    <3> QED BY <1>1, <1>4, <3>1, <3>2 DEF RowFits
  <2>3. CASE ChangeRow(r, t)
    <3>1. t \in protected
      BY <1>3, <1>4, <2>3 DEF ChangeRow, RowFits
    <3>2. t \in Mutable /\ row' = <<t, "changed">>
      BY <2>3, <3>1 DEF ChangeRow, Becomes
    <3> QED BY <1>1, <1>4, <3>1, <3>2 DEF RowFits
  <2>4. CASE DeleteRow(r, t)
    BY <1>3, <1>4, <2>4 DEF DeleteRow, RowFits
  <2> QED BY <2>1, <2>2, <2>3, <2>4
<1> QED BY <1>1, <1>2, <1>5 DEF SchemaInv

\* So it holds.
LEMMA SchemaInvHolds == SchemaSpec => []SchemaInv
<1>1. SchemaInit => SchemaInv
  <2> SUFFICES ASSUME SchemaInit PROVE SchemaInv
    OBVIOUS
  <2>1. Made(0) = {}
    BY DEF Made
  <2>2. RolesFit
    BY DEF SchemaInit, RolesFit, SchemaRole
  <2>3. RightsFit(rights, defaults, tables, revision)
    BY DEF SchemaInit, RightsFit, NoneTooMany, NoneTooFew, DefaultsFit
  <2>4. RowFits
    BY DEF SchemaInit, RowFits
  <2> QED BY <2>1, <2>2, <2>3, <2>4 DEF SchemaInit, SchemaInv
<1>2. SchemaInv /\ [SchemaNext]_schemaVars => SchemaInv'
  <2> SUFFICES ASSUME SchemaInv, [SchemaNext]_schemaVars PROVE SchemaInv'
    OBVIOUS
  <2>1. CASE \E n \in Revisions : Upgrade(n)
    BY <2>1, UpgradeKeeps
  <2>2. CASE \E r \in OptionalRoles : CreateRole(r) \/ GrantRole(r)
    BY <2>2, CreateRoleKeeps, GrantRoleKeeps
  <2>3. CASE \E r \in Clients, t \in Watched : InsertRow(r, t) \/ CloseRow(r, t) \/ ChangeRow(r, t) \/ DeleteRow(r, t)
    BY <2>3, StatementKeeps
  <2>4. CASE UNCHANGED schemaVars
    BY <2>4 DEF schemaVars, SchemaInv, RolesFit, RightsFit, NoneTooMany, NoneTooFew, DefaultsFit, RowFits
  <2> QED BY <2>1, <2>2, <2>3, <2>4 DEF SchemaNext
<1> QED BY <1>1, <1>2, PTL DEF SchemaSpec

\* A right on a table there is is due to a role exactly if the documentation has it.
LEMMA DocumentedIs ==
  ASSUME SchemaInv, NEW r \in SchemaRole, NEW g
  PROVE  g \in (IF Since[r] > revision THEN {} ELSE {h \in Documented(r) : h[1] = r /\ h[2] \in tables}) <=>
           \E t \in tables, w \in SchemaRight : g = <<r, t, w>> /\ Entitled(r, t, w, revision)
<1>1. revision \in 0..16
  BY DEF SchemaInv
<1>2. \A t \in tables : t = <<t[1], t[2]>>
  <2>1. \A k \in 1..16 : \A t \in Migrations[k].makes : t = <<t[1], t[2]>>
    BY EachReviewed DEF Reviewed
  <2>2. \A k \in 1..revision : k \in 1..16
    BY <1>1
  <2> QED BY <2>1, <2>2 DEF SchemaInv, Made
<1> DEFINE D == {h \in Documented(r) : h[1] = r /\ h[2] \in tables}
           E == \E t \in tables, w \in SchemaRight : g = <<r, t, w>> /\ Entitled(r, t, w, revision)
<1> USE <1>1 DEF Since, Documented, Entitled, SchemaRight, Grant, In
<1>3. CASE r = "va_app"
  <2>1. \A t \in tables : \A w : <<r, t, w>> \in Documented(r) <=> w \in SchemaRight /\ AppMay(t, w)
    BY <1>3 DEF GrantApp, GrantOutbox, AppMay
  <2>2. \A h \in Documented(r) : h = <<h[1], h[2], h[3]>>
    BY <1>3 DEF GrantApp, GrantOutbox
  <2> HIDE DEF Documented
  <2>3. g \in D <=> \E t \in tables, w \in SchemaRight : g = <<r, t, w>> /\ AppMay(t, w)
    BY <2>1, <2>2
  <2> QED BY <1>3, <2>3
<1>4. CASE r = "va_read"
  <2>1. \A t \in tables : \A w : <<r, t, w>> \in Documented(r) <=> w \in SchemaRight /\ t[1] # "identity" /\ w = "select"
    BY <1>4
  <2>2. \A h \in Documented(r) : h = <<h[1], h[2], h[3]>>
    BY <1>4
  <2> HIDE DEF Documented
  <2>3. g \in D <=> \E t \in tables, w \in SchemaRight : g = <<r, t, w>> /\ t[1] # "identity" /\ w = "select"
    BY <2>1, <2>2
  <2> QED BY <1>4, <2>3
<1>5. CASE r = "va_profiles"
  <2>1. \A t \in tables : \A w : <<r, t, w>> \in Documented(r) <=> w \in SchemaRight /\ ProfilesMay(t, w)
    BY <1>5 DEF GrantProfiles, ProfilesMay, ProfileTables
  <2>2. \A h \in Documented(r) : h = <<h[1], h[2], h[3]>>
    BY <1>5 DEF GrantProfiles
  <2> HIDE DEF Documented
  <2>3. g \in D <=> \E t \in tables, w \in SchemaRight : g = <<r, t, w>> /\ ProfilesMay(t, w)
    BY <2>1, <2>2
  <2> QED BY <1>5, <2>3
<1>6. CASE r = "va_web"
  <2>1. \A t \in tables : \A w : <<r, t, w>> \in Documented(r) <=>
          w \in SchemaRight /\ (WebMay(t, w) \/ (revision >= 11 /\ WebRunMay(t, w)))
    BY <1>6 DEF GrantWeb, GrantWebRun, WebMay, WebRunMay, Outbox
  <2>2. \A h \in Documented(r) : h = <<h[1], h[2], h[3]>>
    BY <1>6 DEF GrantWeb, GrantWebRun
  <2> HIDE DEF Documented
  <2>3. g \in D <=> \E t \in tables, w \in SchemaRight :
          g = <<r, t, w>> /\ (WebMay(t, w) \/ (revision >= 11 /\ WebRunMay(t, w)))
    BY <2>1, <2>2
  <2> QED BY <1>6, <2>3
<1>7. CASE r = "va_scoring"
  <2>1. \A t \in tables : \A w : <<r, t, w>> \in Documented(r) <=> w \in SchemaRight /\ ServiceMay("scoring", t, w)
    BY <1>7 DEF GrantService, ServiceMay, Outbox, Updatable
  <2>2. \A h \in Documented(r) : h = <<h[1], h[2], h[3]>>
    BY <1>7 DEF GrantService
  <2> HIDE DEF Documented
  <2>3. g \in D <=> \E t \in tables, w \in SchemaRight : g = <<r, t, w>> /\ ServiceMay("scoring", t, w)
    BY <2>1, <2>2
  <2> QED BY <1>7, <2>3
<1>8. CASE r = "va_identity"
  <2>1. \A t \in tables : \A w : <<r, t, w>> \in Documented(r) <=> w \in SchemaRight /\ ServiceMay("identity", t, w)
    BY <1>8 DEF GrantIdentity, ServiceMay, Outbox
  <2>2. \A h \in Documented(r) : h = <<h[1], h[2], h[3]>>
    BY <1>8 DEF GrantIdentity
  <2> HIDE DEF Documented
  <2>3. g \in D <=> \E t \in tables, w \in SchemaRight : g = <<r, t, w>> /\ ServiceMay("identity", t, w)
    BY <2>1, <2>2
  <2> QED BY <1>8, <2>3
<1> QED BY <1>3, <1>4, <1>5, <1>6, <1>7, <1>8 DEF SchemaRole, OptionalRoles

\* In whatever order roles and tables came into being, and wherever a start broke off: each
\* role has the rights of docs/architecture/datenhaltung.md, none more, and but for a role
\* just made none less.
THEOREM TheRightsAreAsDocumented == SchemaSpec => []RightsAreAsDocumented
<1>1. SchemaInv => RightsAreAsDocumented
  <2> SUFFICES ASSUME SchemaInv, NEW r \in roles
               PROVE  LET has == {g \in rights : g[1] = r}
                          owed == IF Since[r] > revision THEN {}
                            ELSE {g \in Documented(r) : g[1] = r /\ g[2] \in tables}
                      IN has \subseteq owed /\ (r \notin bare => owed \subseteq has)
    BY DEF RightsAreAsDocumented
  <2>1. PICK owed : owed = IF Since[r] > revision THEN {} ELSE {g \in Documented(r) : g[1] = r /\ g[2] \in tables}
    OBVIOUS
  <2>2. r \in SchemaRole
    BY DEF SchemaInv, RolesFit
  <2>3. \A g : g \in owed <=> \E t \in tables, w \in SchemaRight : g = <<r, t, w>> /\ Entitled(r, t, w, revision)
    BY <2>1, <2>2, DocumentedIs
  <2>4. NoneTooMany(rights, tables, revision) /\ NoneTooFew(rights, tables, revision)
    BY DEF SchemaInv, RightsFit
  <2>5. \A q, t, w, n : Entitled(q, t, w, n) => w \in SchemaRight
    BY DEF Entitled, AppMay, ProfilesMay, WebMay, WebRunMay, ServiceMay, SchemaRight
  <2>6. \A g \in rights : g[1] = r => g \in owed
    BY <2>3, <2>4, <2>5 DEF NoneTooMany
  <2>7. r \notin bare => \A g \in owed : g \in rights /\ g[1] = r
    BY <2>3, <2>4 DEF NoneTooFew
  <2> QED BY <2>1, <2>6, <2>7
<1> QED BY <1>1, SchemaInvHolds, PTL

\* ddl.py: nobody deletes or overwrites what is stored, not the owner either; a run ends once,
\* an event is published once.
THEOREM TheStoredStays == SchemaSpec => []StoredStays
<1>1. SchemaInv => StoredStays
  BY DEF SchemaInv, RowFits, StoredStays
<1> QED BY <1>1, SchemaInvHolds, PTL

\* Rights are of roles and on tables there are, and every table is protected from its
\* migration on.
THEOREM SchemaTypeIsOK == SchemaSpec => []SchemaTypeOK
<1>1. SchemaInv => SchemaTypeOK
  <2> SUFFICES ASSUME SchemaInv PROVE SchemaTypeOK
    OBVIOUS
  <2>1. \A g \in rights : g[1] \in roles /\ g[2] \in tables
    BY DEF SchemaInv, RightsFit, NoneTooMany
  <2>2. \A d \in defaults : d[1] \in roles
    BY DEF SchemaInv, RightsFit, DefaultsFit
  <2>3. row # <<>> => row[1] \in tables /\ row[2] \in {"stored", "closed", "changed", "gone"}
    BY DEF SchemaInv, RowFits
  <2>4. /\ revision \in 0..Len(Migrations) /\ protected \subseteq tables
        /\ bare \subseteq roles /\ roles \subseteq OptionalRoles \cup {"va_app", "va_read"}
    BY TheMigrations DEF SchemaInv, RolesFit, SchemaRole
  <2> QED BY <2>1, <2>2, <2>3, <2>4 DEF SchemaTypeOK
<1> QED BY <1>1, SchemaInvHolds, PTL

------------------------------------------------------------------------------
(* Outbox.                                                                   *)

\* r has to be in the stream before q.
MustPrecede(r, q) == (r[1] = q[1] /\ r[2] < q[2]) \/ r[1] \in earlier[q[1]]

\* Transactions begin in their order; what one has seen committed stays committed.
TxnInv ==
  /\ \A t, s \in Txn : txn[t] = "none" /\ t < s => txn[s] = "none"
  /\ \A t \in Txn : \A s \in earlier[t] :
       s < t /\ txn[s] = "committed" /\ txn[t] # "none"

\* The stream has committed rows, each after all that have to precede it; what is
\* marked or remembered by JetStream is in it.
LogInv ==
  /\ \A j \in 1..Len(log) : log[j] \in Committed
  /\ \A r, q \in Row : MustPrecede(r, q) =>
       \A j \in 1..Len(log) : log[j] = q => \E i \in 1..(j - 1) : log[i] = r
  /\ \A r \in marked \cup window : InLog(r)

\* A drainer holds committed rows, and with each row those that have to precede it
\* and are not in the stream; the row it marks next is in the stream.
BatchInv(d) ==
  /\ batch[d] \subseteq Committed
  /\ pc[d] \in {"publish", "mark"} => batch[d] # {}
  /\ pc[d] = "mark" => InLog(FirstLeft(d))
  /\ \A q \in batch[d], r \in Row : MustPrecede(r, q) => InLog(r) \/ r \in batch[d]

\* What a pass owes is in the stream or in its last batch.
DueInv(d) ==
  /\ due[d] \subseteq Committed
  /\ pc[d] \in {"publish", "mark"} /\ ~full[d] => \A r \in due[d] : InLog(r) \/ r \in batch[d]
  /\ pc[d] = "done" => \A r \in due[d] : InLog(r)

DrainerInv(d) == BatchInv(d) /\ DueInv(d)

\* The inductive invariant.
OutboxInv == OutboxTypeOK /\ TxnInv /\ LogInv /\ \A d \in Drainer : DrainerInv(d)

------------------------------------------------------------------------------
(* The order of the rows.                                                   *)

\* Rows are pairs of numbers, in a strict total order.
LEMMA RowOrder ==
  /\ \A r \in Row : r[1] \in Txn /\ r[2] \in Nat /\ r[1] \in Nat /\ r = <<r[1], r[2]>>
  /\ \A r \in Row : ~Before(r, r)
  /\ \A r, q \in Row : r # q => Before(r, q) \/ Before(q, r)
  /\ \A r, q \in Row : ~(Before(r, q) /\ Before(q, r))
  BY OutboxAssumption DEF Row, Txn, Before

\* A set of rows that is not empty has a first row.
LEMMA FirstRow ==
  ASSUME NEW S \in SUBSET Row, S # {}
  PROVE  \E r \in S : \A q \in S \ {r} : Before(r, q)
<1> DEFINE L == OpToRel(<, Nat)
           R == LexPairOrdering(L, L, Nat, Nat)
<1>1. IsWellFoundedOn(R, Nat \X Nat)
  BY NatLessThanWellFounded, WFLexPairOrdering
<1>2. S \subseteq Nat \X Nat
  BY OutboxAssumption DEF Row, Txn
<1> HIDE DEF R
<1>3. PICK r \in S : \A q \in S : <<q, r>> \notin R
  BY <1>1, <1>2, WFMin
<1>4. \A q \in S : Before(q, r) => <<q, r>> \in R
  <2> SUFFICES ASSUME NEW q \in S, Before(q, r) PROVE <<q, r>> \in R
    OBVIOUS
  <2>1. q \in Nat \X Nat /\ r \in Nat \X Nat
    BY <1>2
  <2>2. q[1] < r[1] => <<q[1], r[1]>> \in L
    BY <2>1 DEF OpToRel
  <2>3. q[2] < r[2] => <<q[2], r[2]>> \in L
    BY <2>1 DEF OpToRel
  <2> QED BY <2>1, <2>2, <2>3 DEF R, LexPairOrdering, Before
<1> QED BY <1>3, <1>4, RowOrder

\* There are finitely many rows.
LEMMA RowsAreFinite == \A S \in SUBSET Row : IsFiniteSet(S)
<1>1. IsFiniteSet(Txn) /\ IsFiniteSet(1..NumRows)
  BY OutboxAssumption, FS_Interval DEF Txn
<1>2. IsFiniteSet(Row)
  BY <1>1, FS_Product DEF Row
<1> QED BY <1>2, FS_Subset

\* A set of rows has a beginning of every length up to its own.
LEMMA Beginning ==
  ASSUME NEW S \in SUBSET Row, NEW n \in 0..Cardinality(S)
  PROVE  \E b \in SUBSET S : Cardinality(b) = n /\ \A r \in b, q \in S \ b : Before(r, q)
<1> DEFINE Ordered(k) == \E b \in SUBSET S : Cardinality(b) = k /\ \A r \in b, q \in S \ b : Before(r, q)
           Without == {k \in 0..Cardinality(S) : ~Ordered(k)}
<1>0. Cardinality(S) \in Nat
  BY RowsAreFinite, FS_CardinalityType
<1>1. SUFFICES ASSUME Without # {} PROVE FALSE
  OBVIOUS
<1>2. PICK k \in Without : \A m \in Without : k <= m
  <2>1. Without \in SUBSET Nat
    BY <1>0
  <2> HIDE DEF Without
  <2> QED BY <1>1, <2>1, LeastNumber
<1>3. k # 0
  <2>1. Cardinality({}) = 0
    BY FS_EmptySet
  <2>2. Ordered(0)
    BY <2>1
  <2> QED BY <2>2
<1>4. k - 1 \in 0..Cardinality(S) /\ k \in Nat
  BY <1>0, <1>3
<1>5. Ordered(k - 1)
  BY <1>2, <1>4
<1>6. PICK b \in SUBSET S : Cardinality(b) = k - 1 /\ \A r \in b, q \in S \ b : Before(r, q)
  BY <1>5
<1>7. S \ b # {}
  BY <1>0, <1>4, <1>6
<1>8. PICK m \in S \ b : \A q \in (S \ b) \ {m} : Before(m, q)
  <2>1. S \ b \in SUBSET Row
    OBVIOUS
  <2> QED BY <1>7, <2>1, FirstRow
<1>9. Cardinality(b \cup {m}) = k
  BY <1>4, <1>6, <1>8, RowsAreFinite, FS_AddElement
<1>10. \A r \in b \cup {m}, q \in S \ (b \cup {m}) : Before(r, q)
  BY <1>6, <1>8
<1>11. Ordered(k)
  BY <1>8, <1>9, <1>10
<1> QED BY <1>2, <1>11

\* What _pending reads: pending rows, none that comes after one left out, nothing
\* only if nothing is pending, and all of it if that is less than a batch.
LEMMA FirstOfIsFirst ==
  ASSUME NEW S \in SUBSET Row
  PROVE  /\ FirstOf(S) \subseteq S
         /\ \A r \in FirstOf(S), q \in S \ FirstOf(S) : Before(r, q)
         /\ FirstOf(S) = {} => S = {}
         /\ Cardinality(FirstOf(S)) # BatchSize => FirstOf(S) = S
<1> DEFINE n == IF Cardinality(S) < BatchSize THEN Cardinality(S) ELSE BatchSize
           b == FirstOf(S)
<1>1. Cardinality(S) \in Nat /\ n \in 0..Cardinality(S) /\ n \in Nat
  BY RowsAreFinite, FS_CardinalityType, OutboxAssumption
<1>2. b \in SUBSET S /\ Cardinality(b) = n /\ \A r \in b, q \in S \ b : Before(r, q)
  BY <1>1, Beginning DEF FirstOf
<1>3. b = {} => S = {}
  BY <1>1, <1>2, RowsAreFinite, FS_EmptySet, OutboxAssumption
<1>4. n # BatchSize => b = S
  BY <1>1, <1>2, RowsAreFinite, FS_Subset, OutboxAssumption
<1> QED BY <1>2, <1>3, <1>4

------------------------------------------------------------------------------
(* Type correctness.                                                        *)

\* The initial state satisfies the invariant.
LEMMA InitInv == OutboxInit => OutboxInv
<1> SUFFICES ASSUME OutboxInit PROVE OutboxInv
  OBVIOUS
<1>1. OutboxTypeOK
  BY OutboxAssumption, FaultsAssumption DEF OutboxInit, OutboxTypeOK, LongestPause
<1>2. TxnInv /\ LogInv
  BY DEF OutboxInit, TxnInv, LogInv, InLog
<1>3. \A d \in Drainer : DrainerInv(d)
  BY DEF OutboxInit, DrainerInv, BatchInv, DueInv
<1> QED BY <1>1, <1>2, <1>3 DEF OutboxInv

\* The row a drainer publishes and marks next is the first it holds.
LEMMA FirstLeftIsFirst ==
  ASSUME OutboxTypeOK, NEW d \in Drainer, batch[d] # {}
  PROVE  FirstLeft(d) \in batch[d] /\ \A q \in batch[d] \ {FirstLeft(d)} : Before(FirstLeft(d), q)
<1>1. batch[d] \in SUBSET Row
  BY DEF OutboxTypeOK
<1> QED BY <1>1, FirstRow DEF FirstLeft

\* What is read is a set of pending rows.
LEMMA PendingType ==
  Committed \subseteq Row /\ Pending \in SUBSET Row /\ Pending = Committed \ marked
  BY DEF Committed, Pending

\* Every step keeps the variables well typed.
LEMMA NextType ==
  ASSUME OutboxInv, [OutboxNext]_outboxVars
  PROVE  OutboxTypeOK'
<1> USE OutboxAssumption, FaultsAssumption DEF drain
<1>1. CASE UNCHANGED outboxVars
  BY <1>1 DEF OutboxInv, OutboxTypeOK, outboxVars, outboxState
<1>2. ASSUME NEW t \in Txn, Begin(t) \/ Finish(t) PROVE OutboxTypeOK'
  <2>1. CASE Begin(t)
    <3>1. {s \in Txn : txn[s] = "committed"} \in SUBSET Txn
      OBVIOUS
    <3> QED BY <2>1, <3>1 DEF OutboxInv, OutboxTypeOK, Begin
  <2>2. CASE Finish(t)
    BY <2>2 DEF OutboxInv, OutboxTypeOK, Finish
  <2> QED BY <1>2, <2>1, <2>2
<1>3. ASSUME NEW d \in Drainer, pc[d] \in {"publish", "mark"} PROVE FirstLeft(d) \in Row
  BY <1>3, FirstLeftIsFirst DEF OutboxInv, OutboxTypeOK, DrainerInv, BatchInv
<1>4. ASSUME NEW d \in Drainer, Pass(d) PROVE OutboxTypeOK'
  <2>1. CASE StartPass(d)
    BY <2>1, PendingType DEF OutboxInv, OutboxTypeOK, StartPass
  <2>2. CASE Read(d)
    <3>1. FirstOf(Pending) \in SUBSET Row
      BY PendingType, FirstOfIsFirst
    <3> QED BY <2>2, <3>1 DEF OutboxInv, OutboxTypeOK, Read
  <2>3. CASE PublishRow(d)
    BY <2>3, <1>3 DEF OutboxInv, OutboxTypeOK, PublishRow, Store
  <2>4. CASE Mark(d)
    BY <2>4, <1>3 DEF OutboxInv, OutboxTypeOK, Mark
  <2>5. CASE EndPass(d)
    BY <2>5 DEF OutboxInv, OutboxTypeOK, EndPass, LongestPause
  <2> QED BY <1>4, <2>1, <2>2, <2>3, <2>4, <2>5 DEF Pass
<1>5. ASSUME NEW d \in Drainer, PublishFails(d) PROVE OutboxTypeOK'
  <2>0. FirstLeft(d) \in Row
    BY <1>5, <1>3 DEF PublishFails
  <2>1. log' \in Seq(Row) /\ window' \subseteq Row
    <3>1. CASE UNCHANGED <<log, window>>
      BY <3>1 DEF OutboxInv, OutboxTypeOK
    <3>2. CASE Store(FirstLeft(d))
      BY <3>2, <2>0 DEF OutboxInv, OutboxTypeOK, Store
    <3> QED BY <1>5, <3>1, <3>2 DEF PublishFails
  <2> QED BY <1>5, <2>1 DEF OutboxInv, OutboxTypeOK, PublishFails, Rest, Fault, LongestPause
<1>6. ASSUME NEW d \in Drainer, Crash(d) PROVE OutboxTypeOK'
  BY <1>6 DEF OutboxInv, OutboxTypeOK, Crash, Rest, Fault, LongestPause
<1>7. CASE Forget
  BY <1>7 DEF OutboxInv, OutboxTypeOK, Forget, Fault
<1> QED BY <1>1, <1>2, <1>4, <1>5, <1>6, <1>7 DEF OutboxNext

------------------------------------------------------------------------------
(* What the steps keep.                                                     *)

\* A row goes into the stream when everything that has to precede it is there.
LEMMA StoreKeepsOrder ==
  ASSUME OutboxTypeOK, LogInv, NEW r \in Committed, Store(r),
         \A q \in Row : MustPrecede(q, r) => InLog(q),
         UNCHANGED <<txn, earlier, marked>>
  PROVE  /\ LogInv'
         /\ InLog(r)'
         /\ \A q \in Row : InLog(q) => InLog(q)'
<1>1. r \in Row /\ log \in Seq(Row) /\ Committed' = Committed
  BY DEF Committed, OutboxTypeOK
<1>2. CASE r \in window
  BY <1>1, <1>2 DEF Store, LogInv, InLog, MustPrecede
<1>3. CASE r \notin window
  <2>1. log' = Append(log, r) /\ window' = window \cup {r}
    BY <1>3 DEF Store
  <2>2. /\ Len(log) \in Nat /\ Len(log') = Len(log) + 1 /\ log'[Len(log) + 1] = r
        /\ \A j \in 1..Len(log) : log'[j] = log[j]
    BY <1>1, <2>1
  <2>3. InLog(r)' /\ \A q \in Row : InLog(q) => InLog(q)'
    BY <2>2 DEF InLog
  <2>4. \A j \in 1..Len(log') : log'[j] \in Committed'
    BY <1>1, <2>2 DEF LogInv
  <2>5. \A p, q \in Row : MustPrecede(p, q)' =>
          \A j \in 1..Len(log') : log'[j] = q => \E i \in 1..(j - 1) : log'[i] = p
    <3> SUFFICES ASSUME NEW p \in Row, NEW q \in Row, MustPrecede(p, q),
                        NEW j \in 1..Len(log'), log'[j] = q
                 PROVE  \E i \in 1..(j - 1) : log'[i] = p
      BY DEF MustPrecede
    <3>1. CASE j \in 1..Len(log)
      <4>1. PICK i \in 1..(j - 1) : log[i] = p
        BY <2>2, <3>1 DEF LogInv
      <4> QED BY <2>2, <3>1, <4>1
    <3>2. CASE j = Len(log) + 1
      BY <2>2, <3>2 DEF InLog
    <3> QED BY <2>2, <3>1, <3>2
  <2>6. \A q \in marked' \cup window' : InLog(q)'
    BY <2>1, <2>3 DEF LogInv, OutboxTypeOK
  <2> QED BY <2>3, <2>4, <2>5, <2>6 DEF LogInv
<1> QED BY <1>2, <1>3

\* What precedes the row a drainer publishes next is in the stream.
LEMMA NextIsDue ==
  ASSUME OutboxTypeOK, TxnInv, NEW d \in Drainer, BatchInv(d), batch[d] # {}
  PROVE  /\ FirstLeft(d) \in Committed
         /\ \A q \in Row : MustPrecede(q, FirstLeft(d)) => InLog(q)
<1>1. FirstLeft(d) \in batch[d] /\ \A q \in batch[d] \ {FirstLeft(d)} : Before(FirstLeft(d), q)
  BY FirstLeftIsFirst
<1>2. FirstLeft(d) \in Committed /\ FirstLeft(d) \in Row
  BY <1>1 DEF BatchInv, OutboxTypeOK
<1>3. ASSUME NEW q \in Row, MustPrecede(q, FirstLeft(d)) PROVE InLog(q)
  <2>1. Before(q, FirstLeft(d))
    BY <1>2, <1>3, RowOrder DEF MustPrecede, Before, TxnInv
  <2>2. q \notin batch[d]
    BY <1>1, <1>2, <2>1, RowOrder
  <2> QED BY <1>1, <1>3, <2>2 DEF BatchInv
<1> QED BY <1>2, <1>3

\* A drainer that does not move keeps its invariant when the stream and the committed
\* rows only grow.
LEMMA OthersKeep ==
  ASSUME OutboxTypeOK, NEW d \in Drainer, DrainerInv(d),
         pc'[d] = pc[d], batch'[d] = batch[d], full'[d] = full[d], due'[d] = due[d],
         Committed \subseteq Committed',
         \A q \in Row : InLog(q) => InLog(q)',
         \A q \in Committed, r \in Row : MustPrecede(r, q)' => MustPrecede(r, q)
  PROVE  DrainerInv(d)'
<1>1. FirstLeft(d)' = FirstLeft(d)
  BY DEF FirstLeft
<1>2. batch[d] \subseteq Row /\ due[d] \subseteq Row
  BY DEF OutboxTypeOK
<1>3. pc[d] = "mark" => FirstLeft(d) \in Row
  BY <1>2, FirstLeftIsFirst DEF DrainerInv, BatchInv
<1>4. BatchInv(d)'
  BY <1>1, <1>2, <1>3 DEF DrainerInv, BatchInv
<1>5. DueInv(d)'
  BY <1>2 DEF DrainerInv, DueInv
<1> QED BY <1>4, <1>5 DEF DrainerInv

------------------------------------------------------------------------------
(* The steps.                                                               *)

\* A transaction that begins or ends disturbs no row, sent or held.
LEMMA SenderKeeps ==
  ASSUME OutboxInv, NEW t \in Txn, Begin(t) \/ Finish(t)
  PROVE  TxnInv' /\ LogInv' /\ \A d \in Drainer : DrainerInv(d)'
<1> USE DEF drain
<1>0. OutboxTypeOK /\ TxnInv /\ LogInv /\ \A d \in Drainer : DrainerInv(d)
  BY DEF OutboxInv
<1>1. \A s \in Txn : s \in Nat
  BY OutboxAssumption DEF Txn
<1>2. TxnInv'
  <2>1. CASE Begin(t)
    BY <2>1, <1>0, <1>1 DEF Begin, TxnInv, OutboxTypeOK
  <2>2. CASE Finish(t)
    BY <2>2, <1>0, <1>1 DEF Finish, TxnInv, OutboxTypeOK
  <2> QED BY <2>1, <2>2
<1>3. Committed \subseteq Committed'
  <2>1. \A u \in Txn : txn[u] = "committed" => txn'[u] = "committed"
    BY <1>0 DEF Begin, Finish, OutboxTypeOK
  <2> QED BY <2>1, RowOrder DEF Committed
<1>4. \A q \in Committed, r \in Row : MustPrecede(r, q)' => MustPrecede(r, q)
  <2>1. \A q \in Committed : q[1] \in Txn /\ txn[q[1]] = "committed"
    BY RowOrder DEF Committed
  <2> QED BY <2>1, <1>0 DEF MustPrecede, Begin, Finish, OutboxTypeOK
<1>5. UNCHANGED <<marked, log, window, pc, batch, full, due>>
  BY DEF Begin, Finish
<1>6. LogInv'
  BY <1>0, <1>3, <1>4, <1>5 DEF LogInv, InLog
<1>7. \A d \in Drainer : DrainerInv(d)'
  BY <1>0, <1>3, <1>4, <1>5, OthersKeep DEF InLog
<1> QED BY <1>2, <1>6, <1>7

\* A step of a drainer leaves what the senders know alone.
LEMMA TablesKeep ==
  ASSUME OutboxInv, UNCHANGED <<txn, earlier>>
  PROVE  /\ TxnInv'
         /\ Committed' = Committed
         /\ \A r, q : MustPrecede(r, q)' <=> MustPrecede(r, q)
  BY DEF OutboxInv, TxnInv, Committed, MustPrecede

\* StartPass, Read and EndPass: the stream and its marks stay.
LEMMA ReaderKeeps ==
  ASSUME OutboxInv, NEW d \in Drainer, StartPass(d) \/ Read(d) \/ EndPass(d)
  PROVE  TxnInv' /\ LogInv' /\ \A e \in Drainer : DrainerInv(e)'
<1>0. OutboxTypeOK /\ TxnInv /\ LogInv /\ \A e \in Drainer : DrainerInv(e)
  BY DEF OutboxInv
<1>1. UNCHANGED <<txn, earlier, marked, log, window>>
  BY DEF StartPass, Read, EndPass
<1>2. TxnInv' /\ Committed' = Committed /\ \A r, q : MustPrecede(r, q)' <=> MustPrecede(r, q)
  BY <1>1, TablesKeep
<1>3. \A r : InLog(r)' <=> InLog(r)
  BY <1>1 DEF InLog
<1>4. LogInv'
  BY <1>0, <1>1, <1>2, <1>3 DEF LogInv
<1>5. ASSUME NEW e \in Drainer, e # d PROVE DrainerInv(e)'
  <2>1. pc'[e] = pc[e] /\ batch'[e] = batch[e] /\ full'[e] = full[e] /\ due'[e] = due[e]
    BY <1>0, <1>5 DEF StartPass, Read, EndPass, OutboxTypeOK
  <2> QED BY <2>1, <1>0, <1>2, <1>3, OthersKeep
<1>6. DrainerInv(d)'
  <2>1. CASE StartPass(d)
    BY <2>1, <1>0, <1>2, <1>3 DEF StartPass, DrainerInv, BatchInv, DueInv, OutboxTypeOK
  <2>2. CASE Read(d)
    <3> DEFINE b == FirstOf(Pending)
    <3>1. /\ b \subseteq Pending
          /\ \A r \in b, q \in Pending \ b : Before(r, q)
          /\ b = {} => Pending = {}
          /\ Cardinality(b) # BatchSize => b = Pending
      BY PendingType, FirstOfIsFirst
    <3>2. /\ batch'[d] = b /\ due'[d] = due[d]
          /\ full'[d] = (Cardinality(b) = BatchSize)
          /\ pc'[d] = IF b = {} THEN "done" ELSE "publish"
      BY <2>2, <1>0 DEF Read, OutboxTypeOK
    <3> HIDE DEF b
    <3>3. \A r \in Committed : r \in Row /\ (InLog(r) \/ r \in Pending)
      BY <1>0, PendingType DEF LogInv
    <3>4. ASSUME NEW q \in b, NEW r \in Row, MustPrecede(r, q) PROVE InLog(r) \/ r \in b
      <4>1. q \in Committed /\ q \in Row /\ q \in Pending
        BY <3>1, PendingType
      <4>2. r \in Committed /\ Before(r, q)
        BY <4>1, <3>4, <1>0, RowOrder DEF Committed, TxnInv, MustPrecede, Before
      <4>3. r \in Pending \ b => Before(q, r)
        BY <3>1
      <4> QED BY <4>1, <4>2, <4>3, <3>3, RowOrder
    <3>5. BatchInv(d)'
      BY <3>1, <3>2, <3>4, <1>2, <1>3, PendingType DEF BatchInv
    <3>6. DueInv(d)'
      BY <3>1, <3>2, <3>3, <1>0, <1>2, <1>3 DEF DueInv, DrainerInv
    <3> QED BY <3>5, <3>6 DEF DrainerInv
  <2>3. CASE EndPass(d)
    BY <2>3, <1>0, <1>2, <1>3 DEF EndPass, DrainerInv, BatchInv, DueInv, OutboxTypeOK
  <2> QED BY <2>1, <2>2, <2>3
<1> QED BY <1>2, <1>4, <1>5, <1>6

\* PublishRow: the row is in the stream, in its place.
LEMMA PublisherKeeps ==
  ASSUME OutboxInv, NEW d \in Drainer, PublishRow(d)
  PROVE  TxnInv' /\ LogInv' /\ \A e \in Drainer : DrainerInv(e)'
<1>0. OutboxTypeOK /\ TxnInv /\ LogInv /\ \A e \in Drainer : DrainerInv(e)
  BY DEF OutboxInv
<1>1. UNCHANGED <<txn, earlier, marked, batch, full, due>> /\ Store(FirstLeft(d)) /\ pc[d] = "publish"
  BY DEF PublishRow
<1>2. TxnInv' /\ Committed' = Committed /\ \A r, q : MustPrecede(r, q)' <=> MustPrecede(r, q)
  BY <1>1, TablesKeep
<1>3. batch[d] # {} /\ BatchInv(d)
  BY <1>0, <1>1 DEF DrainerInv, BatchInv
<1>r. PICK r : r = FirstLeft(d)
  OBVIOUS
<1>4. /\ LogInv' /\ InLog(r)'
      /\ \A q \in Row : InLog(q) => InLog(q)'
  BY <1>r, <1>0, <1>1, <1>3, NextIsDue, StoreKeepsOrder
<1>5. ASSUME NEW e \in Drainer, e # d PROVE DrainerInv(e)'
  <2>1. pc'[e] = pc[e]
    BY <1>0, <1>5 DEF PublishRow, OutboxTypeOK
  <2> QED BY <2>1, <1>0, <1>1, <1>2, <1>4, OthersKeep
<1>6. DrainerInv(d)'
  <2>1. pc'[d] = "mark"
    BY <1>0 DEF PublishRow, OutboxTypeOK
  <2>2. FirstLeft(d)' = r
    BY <1>r, <1>1 DEF FirstLeft
  <2>3. batch[d] \subseteq Row /\ due[d] \subseteq Row
    BY <1>0 DEF OutboxTypeOK
  <2>4. InLog(FirstLeft(d))'
    BY <1>4, <2>2
  <2>5. BatchInv(d)'
    BY <1>1, <1>2, <1>3, <1>4, <2>1, <2>3, <2>4 DEF BatchInv
  <2>6. DueInv(d)'
    BY <1>0, <1>1, <1>2, <1>4, <2>1, <2>3 DEF DrainerInv, DueInv
  <2> QED BY <2>5, <2>6 DEF DrainerInv
<1> QED BY <1>2, <1>4, <1>5, <1>6

\* Mark: the row that leaves the batch is in the stream.
LEMMA MarkerKeeps ==
  ASSUME OutboxInv, NEW d \in Drainer, Mark(d)
  PROVE  TxnInv' /\ LogInv' /\ \A e \in Drainer : DrainerInv(e)'
<1>0. OutboxTypeOK /\ TxnInv /\ LogInv /\ \A e \in Drainer : DrainerInv(e)
  BY DEF OutboxInv
<1>1. UNCHANGED <<txn, earlier, log, window, full, due>> /\ pc[d] = "mark"
  BY DEF Mark
<1>2. TxnInv' /\ Committed' = Committed /\ \A r, q : MustPrecede(r, q)' <=> MustPrecede(r, q)
  BY <1>1, TablesKeep
<1>3. \A r : InLog(r)' <=> InLog(r)
  BY <1>1 DEF InLog
<1>4. PICK r : r = FirstLeft(d)
  OBVIOUS
<1>5. /\ r \in batch[d] /\ InLog(r) /\ marked' = marked \cup {r}
      /\ batch' = [batch EXCEPT ![d] = @ \ {r}]
      /\ pc' = [pc EXCEPT ![d] = IF batch[d] # {r} THEN "publish" ELSE IF full[d] THEN "read" ELSE "done"]
  BY <1>0, <1>1, <1>4, FirstLeftIsFirst DEF Mark, DrainerInv, BatchInv
<1>6. LogInv'
  BY <1>0, <1>1, <1>2, <1>3, <1>5 DEF LogInv
<1>7. ASSUME NEW e \in Drainer, e # d PROVE DrainerInv(e)'
  <2>1. pc'[e] = pc[e] /\ batch'[e] = batch[e]
    BY <1>0, <1>5, <1>7 DEF OutboxTypeOK
  <2> QED BY <2>1, <1>0, <1>1, <1>2, <1>3, OthersKeep
<1>8. DrainerInv(d)'
  <2>1. /\ batch'[d] = batch[d] \ {r}
        /\ pc'[d] = IF batch[d] # {r} THEN "publish" ELSE IF full[d] THEN "read" ELSE "done"
    BY <1>0, <1>5 DEF OutboxTypeOK
  <2>2. BatchInv(d)'
    BY <1>0, <1>2, <1>3, <1>5, <2>1 DEF DrainerInv, BatchInv
  <2>3. DueInv(d)'
    BY <1>0, <1>1, <1>2, <1>3, <1>5, <2>1 DEF DrainerInv, DueInv
  <2> QED BY <2>2, <2>3 DEF DrainerInv
<1> QED BY <1>2, <1>6, <1>7, <1>8

\* PublishFails and Crash: the drainer lets go of everything, the row it was at is in
\* the stream or not.
LEMMA FailureKeeps ==
  ASSUME OutboxInv, NEW d \in Drainer, PublishFails(d) \/ Crash(d)
  PROVE  TxnInv' /\ LogInv' /\ \A e \in Drainer : DrainerInv(e)'
<1>0. OutboxTypeOK /\ TxnInv /\ LogInv /\ \A e \in Drainer : DrainerInv(e)
  BY DEF OutboxInv
<1>1. UNCHANGED <<txn, earlier, marked, full>> /\ Rest(d)
  BY DEF PublishFails, Crash
<1>2. TxnInv' /\ Committed' = Committed /\ \A r, q : MustPrecede(r, q)' <=> MustPrecede(r, q)
  BY <1>1, TablesKeep
<1>3. LogInv' /\ \A q \in Row : InLog(q) => InLog(q)'
  <2>1. CASE UNCHANGED <<log, window>>
    BY <2>1, <1>0, <1>1, <1>2 DEF LogInv, InLog
  <2>2. CASE PublishFails(d) /\ Store(FirstLeft(d))
    <3>1. batch[d] # {} /\ BatchInv(d)
      BY <1>0, <2>2 DEF PublishFails, DrainerInv, BatchInv
    <3>2. PICK r : r = FirstLeft(d)
      OBVIOUS
    <3> QED BY <1>0, <1>1, <2>2, <3>1, <3>2, NextIsDue, StoreKeepsOrder
  <2> QED BY <2>1, <2>2 DEF PublishFails, Crash
<1>4. ASSUME NEW e \in Drainer, e # d PROVE DrainerInv(e)'
  <2>1. pc'[e] = pc[e] /\ batch'[e] = batch[e] /\ due'[e] = due[e]
    BY <1>0, <1>1, <1>4 DEF Rest, OutboxTypeOK
  <2> QED BY <2>1, <1>0, <1>1, <1>2, <1>3, OthersKeep
<1>5. DrainerInv(d)'
  <2>1. pc'[d] = "idle" /\ batch'[d] = {} /\ due'[d] = {}
    BY <1>0, <1>1 DEF Rest, OutboxTypeOK
  <2> QED BY <2>1 DEF DrainerInv, BatchInv, DueInv
<1> QED BY <1>2, <1>3, <1>4, <1>5

\* Forget: what JetStream no longer remembers stays in the stream.
LEMMA WindowKeeps ==
  ASSUME OutboxInv, Forget
  PROVE  TxnInv' /\ LogInv' /\ \A e \in Drainer : DrainerInv(e)'
<1>0. OutboxTypeOK /\ TxnInv /\ LogInv /\ \A e \in Drainer : DrainerInv(e)
  BY DEF OutboxInv
<1>1. UNCHANGED <<txn, earlier, marked, log, pc, batch, full, due>> /\ window' \subseteq window
  BY DEF Forget, drain
<1>2. TxnInv' /\ Committed' = Committed /\ \A r, q : MustPrecede(r, q)' <=> MustPrecede(r, q)
  BY <1>1, TablesKeep
<1>3. \A r : InLog(r)' <=> InLog(r)
  BY <1>1 DEF InLog
<1>4. LogInv'
  BY <1>0, <1>1, <1>2, <1>3 DEF LogInv
<1> QED BY <1>0, <1>1, <1>2, <1>3, <1>4, OthersKeep

\* Every step keeps the invariant.
LEMMA NextInv == OutboxInv /\ [OutboxNext]_outboxVars => OutboxInv'
<1> SUFFICES ASSUME OutboxInv, [OutboxNext]_outboxVars PROVE OutboxInv'
  OBVIOUS
<1>1. OutboxTypeOK'
  BY NextType
<1>2. TxnInv' /\ LogInv' /\ \A d \in Drainer : DrainerInv(d)'
  <2>1. CASE UNCHANGED outboxVars
    <3>1. OutboxTypeOK /\ TxnInv /\ LogInv /\ \A d \in Drainer : DrainerInv(d)
      BY DEF OutboxInv
    <3>2. UNCHANGED <<txn, earlier, marked, log, window, pc, batch, full, due>>
      BY <2>1 DEF outboxVars, outboxState
    <3>3. TxnInv' /\ Committed' = Committed /\ \A r, q : MustPrecede(r, q)' <=> MustPrecede(r, q)
      BY <3>2, TablesKeep
    <3>4. \A r : InLog(r)' <=> InLog(r)
      BY <3>2 DEF InLog
    <3>5. LogInv'
      BY <3>1, <3>2, <3>3, <3>4 DEF LogInv
    <3> QED BY <3>1, <3>2, <3>3, <3>4, <3>5, OthersKeep
  <2>2. CASE \E t \in Txn : Begin(t) \/ Finish(t)
    BY <2>2, SenderKeeps
  <2>3. CASE \E d \in Drainer : Pass(d)
    BY <2>3, ReaderKeeps, PublisherKeeps, MarkerKeeps DEF Pass
  <2>4. CASE \E d \in Drainer : PublishFails(d) \/ Crash(d)
    BY <2>4, FailureKeeps
  <2>5. CASE Forget
    BY <2>5, WindowKeeps
  <2> QED BY <2>1, <2>2, <2>3, <2>4, <2>5 DEF OutboxNext
<1> QED BY <1>1, <1>2 DEF OutboxInv

------------------------------------------------------------------------------
(* The theorems.                                                            *)

\* The invariant gives what is promised.
LEMMA InvGivesOrder == OutboxInv => SentAsCommitted
<1> SUFFICES ASSUME OutboxInv PROVE OrderKept /\ NothingLost
  BY DEF SentAsCommitted
<1>0. OutboxTypeOK /\ TxnInv /\ LogInv /\ \A d \in Drainer : DrainerInv(d)
  BY DEF OutboxInv
<1>1. Len(log) \in Nat
  BY <1>0 DEF OutboxTypeOK
<1>2. ASSUME NEW r, InLog(r)
      PROVE  FirstIn(r) \in 1..Len(log) /\ log[FirstIn(r)] = r
             /\ \A j \in 1..Len(log) : log[j] = r => FirstIn(r) <= j
  <2> DEFINE At == {i \in 1..Len(log) : log[i] = r}
  <2>1. PICK i \in At : \A j \in At : i <= j
    <3>1. At \in SUBSET Nat /\ At # {}
      BY <1>1, <1>2 DEF InLog
    <3> HIDE DEF At
    <3> QED BY <3>1, LeastNumber
  <2>2. i \in 1..Len(log) /\ log[i] = r /\ \A j \in 1..(i - 1) : log[j] # r
    BY <1>1, <2>1
  <2>3. /\ FirstIn(r) \in 1..Len(log) /\ log[FirstIn(r)] = r
        /\ \A j \in 1..(FirstIn(r) - 1) : log[j] # r
    BY <2>2 DEF FirstIn
  <2> QED BY <1>1, <2>3
<1>3. OrderKept
  <2> SUFFICES ASSUME NEW r \in Row, NEW q \in Row, MustPrecede(r, q), InLog(q)
               PROVE  InLog(r) /\ FirstIn(r) < FirstIn(q)
    BY DEF OrderKept, SentBefore, MustPrecede
  <2>1. FirstIn(q) \in 1..Len(log) /\ log[FirstIn(q)] = q
    BY <1>2
  <2>2. PICK i \in 1..(FirstIn(q) - 1) : log[i] = r
    BY <1>0, <2>1 DEF LogInv
  <2>3. i \in 1..Len(log) /\ i < FirstIn(q)
    BY <1>1, <2>1, <2>2
  <2>4. InLog(r)
    BY <2>2, <2>3 DEF InLog
  <2>5. FirstIn(r) \in 1..Len(log) /\ FirstIn(r) <= i
    BY <1>2, <2>2, <2>3, <2>4
  <2> QED BY <1>1, <2>1, <2>3, <2>4, <2>5
<1>4. NothingLost
  BY <1>0 DEF NothingLost, LogInv, InLog, DrainerInv, DueInv
<1> QED BY <1>3, <1>4

\* The invariant holds in every reachable state.
THEOREM OutboxInvariant == OutboxSpec => []OutboxInv
<1>1. OutboxInit => OutboxInv
  BY InitInv
<1>2. OutboxInv /\ [OutboxNext]_outboxVars => OutboxInv'
  BY NextInv
<1> QED BY <1>1, <1>2, PTL DEF OutboxSpec

\* However many transactions write and drainers publish, and whatever fails, dies or is
\* published twice, the stream has the events of a transaction in their order, those
\* of a later one after those of one that was committed before it began, nothing
\* that was rolled back, and after a pass everything that was committed before it.
THEOREM OutboxSendsAsCommitted == OutboxSpec => []SentAsCommitted
  BY OutboxInvariant, InvGivesOrder, PTL

------------------------------------------------------------------------------
(* Batch.                                                                    *)

\* What a service sends.
Emits == [c \in Name |->
  CASE c = "market-data"  -> {"fetched", "failed"}
    [] c = "scoring"      -> {"scored", "no_data", "failed"}
    [] c = "notification" -> {"reported", "failed"}
    [] OTHER              -> {}]

OfRun(i, kind) == events[i].own /\ events[i].kind = kind

\* What c may send, of this run or of another one.
MaySend(c, x) == x.kind \in Emits[c] /\ (x.own /\ x.kind = "reported" => Has("scored"))

\* What the tracker has seen of the run.
Seen(kind) == \E i \in 1..taken["batch"] : OfRun(i, kind)

\* The tracker stands where the events it has seen and the dead letters have brought it.
TrackerInv ==
  /\ HasFailed <=> died \/ Seen("failed") \/ Seen("no_data")
  /\ tracked.status \in {"success", "partial"} => Seen("reported")
  /\ Seen("reported") => tracked.status # "none"
  /\ Seen("scored") => tracked.universe = Size
  /\ tracked.scored # 0 => \E i \in 1..Len(events) : events[i] = Own("scored", tracked.scored)
  /\ tracked.status = "success" => \E i \in 1..Len(events) : events[i] = Own("scored", Size)

\* A report has its scoring before it; an outbox holds what its service sends.
OrderInv ==
  /\ \A i \in 1..Len(events) : OfRun(i, "reported") => \E j \in 1..(i - 1) : OfRun(j, "scored")
  /\ \A c \in Name : \A i \in 1..Len(unsent[c]) : MaySend(c, unsent[c][i])

\* A handler runs on an event that is there.
WorkInv ==
  /\ \A c \in working : For(c) # {}
  /\ stage \in {"start", "end"} => working = {}
  /\ stage = "start" => tracked.status = "none" /\ exit = -1 /\ \A i \in 1..Len(events) : ~events[i].own
  /\ stage \in {"start", "chain"} => looks = 0

\* The event that takes the chain on, and who has it before him.
Onward(c, kind) ==
  \/ c = "market-data" /\ kind = "requested"
  \/ c = "scoring" /\ kind = "fetched"
  \/ c = "notification" /\ kind = "scored"
  \/ c = "batch" /\ kind \in {"reported", "failed", "no_data"}
ChainInv ==
  Has("requested") /\ tracked.status = "none" =>
    \E c \in Name : \E i \in For(c) : events[i].own /\ Onward(c, events[i].kind)

\* Who was found quiet stays so, since only those behind him may still send.
QuietInv ==
  /\ stage = "settle" => /\ looks < 8 /\ tracked.status # "none"
                         /\ \A i \in 1..4 : i <= looks => Quiet(Wired[i])
  /\ stage \in {"close", "end"} /\ ~gaveUp /\ Has("requested") =>
       tracked.status # "none" /\ \A c \in Name : Quiet(c)
  /\ stage = "abort" => gaveUp

HeardInv == died /\ ~silent => Has("failed") \/ Has("no_data")

OutcomeInv ==
  stage = "end" =>
    /\ Has("requested") /\ ~gaveUp => (exit = 0 <=> tracked.status \in {"success", "partial"})
    /\ exit # 0 => alarmed \/ HasFailed

BatchRunInv ==
  /\ BatchTypeOK /\ OrderInv /\ WorkInv /\ TrackerInv /\ ChainInv /\ QuietInv /\ HeardInv /\ OutcomeInv

------------------------------------------------------------------------------
(* Consumers and their kinds.                                                *)

LEMMA Consumers ==
  /\ Name = {"market-data", "scoring", "notification", "batch"}
  /\ KindsOf["market-data"] = {"requested"} /\ KindsOf["scoring"] = {"fetched"}
  /\ KindsOf["notification"] = {"scored", "failed", "no_data"}
  /\ KindsOf["batch"] = {"fetched", "scored", "reported", "failed", "no_data"}
  /\ Emits["market-data"] = {"fetched", "failed"} /\ Emits["scoring"] = {"scored", "no_data", "failed"}
  /\ Emits["notification"] = {"reported", "failed"} /\ Emits["batch"] = {}
<1>1. Wired[1] = "market-data" /\ Wired[2] = "scoring" /\ Wired[3] = "notification" /\ Wired[4] = "batch"
  BY DEF Wired
<1>2. \A i \in 1..4 : i = 1 \/ i = 2 \/ i = 3 \/ i = 4
  OBVIOUS
<1>3. Name = {"market-data", "scoring", "notification", "batch"}
  BY <1>1, <1>2 DEF Name
<1> QED BY <1>3 DEF KindsOf, Emits

\* Nobody sends what one before him, or he himself but for a failure, takes.
LEMMA Behind ==
  /\ \A c \in Name : \E j \in 1..4 : c = Wired[j]
  /\ \A i \in 1..4 : Wired[i] \in Name
  /\ \A i, j \in 1..4 : i < j => Emits[Wired[j]] \cap KindsOf[Wired[i]] = {}
<1>1. Wired[1] = "market-data" /\ Wired[2] = "scoring" /\ Wired[3] = "notification" /\ Wired[4] = "batch"
  BY DEF Wired
<1>2. \A i \in 1..4 : i = 1 \/ i = 2 \/ i = 3 \/ i = 4
  OBVIOUS
<1> HIDE DEF Wired
<1>3. \A i, j \in 1..4 : i < j =>
        (i = 1 /\ j \in {2, 3, 4}) \/ (i = 2 /\ j \in {3, 4}) \/ (i = 3 /\ j = 4)
  OBVIOUS
<1> QED BY <1>1, <1>2, <1>3, Consumers

\* What the services send on is of the event's run and of their kinds, and takes the
\* chain of this run on.
LEMMA FollowUpsAre ==
  ASSUME NEW c \in Name, c # "batch", NEW e \in Note, e.kind \in KindsOf[c], NEW out \in FollowUps(e)
  PROVE  /\ out \in Seq(Note)
         /\ \A i \in 1..Len(out) : /\ out[i].own = e.own /\ out[i].kind \in Emits[c]
                                   /\ out[i].kind = "reported" => e.kind = "scored"
         /\ e.own /\ e.kind \in {"requested", "fetched", "scored"} =>
              /\ Len(out) = 1
              /\ \E d \in Name : out[1].kind \in KindsOf[d] /\ Onward(d, out[1].kind)
<1>1. 0 \in 0..Size /\ \A n \in 1..Size : n \in 0..Size
  BY BatchAssumption
<1>2. e.own \in BOOLEAN
  BY DEF Note
<1>3. ASSUME NEW q \in Answers(e.kind)
      PROVE  /\ q[1] \in Emits[c] /\ q[1] \in Kind /\ q[2] \in 0..Size
             /\ q[1] = "reported" => e.kind = "scored"
             /\ \E d \in Name : q[1] \in KindsOf[d] /\ Onward(d, q[1])
  <2>1. CASE e.kind = "requested"
    <3>1. c = "market-data" /\ q[1] \in {"fetched", "failed"} /\ q[2] = 0
      BY <1>3, <2>1, Consumers DEF Answers
    <3> QED BY <1>1, <3>1, Consumers DEF Kind, Onward
  <2>2. CASE e.kind = "fetched"
    <3>1. c = "scoring" /\ q[1] \in {"scored", "no_data", "failed"} /\ q[2] \in 0..Size
      BY <1>1, <1>3, <2>2, Consumers DEF Answers
    <3> QED BY <3>1, Consumers DEF Kind, Onward
  <2>3. CASE e.kind = "scored"
    <3>1. c = "notification" /\ q[1] \in {"reported", "failed"} /\ q[2] = 0
      BY <1>3, <2>3, Consumers DEF Answers
    <3> QED BY <1>1, <2>3, <3>1, Consumers DEF Kind, Onward
  <2>4. CASE e.kind \notin {"requested", "fetched", "scored"}
    <3>1. Answers(e.kind) = {}
      BY <2>4 DEF Answers
    <3> QED BY <1>3, <3>1
  <2> QED BY <2>1, <2>2, <2>3, <2>4
<1>4. CASE out = <<>>
  <2>1. ~e.own \/ Answers(e.kind) = {}
    <3>1. CASE \E q \in Answers(e.kind) : out = <<[own |-> e.own, kind |-> q[1], scored |-> q[2]]>>
      BY <1>4, <3>1
    <3> QED BY <3>1 DEF FollowUps
  <2>2. e.kind = "requested" => <<"failed", 0>> \in Answers(e.kind)
    BY DEF Answers
  <2>3. e.kind = "fetched" => <<"failed", 0>> \in Answers(e.kind)
    BY DEF Answers
  <2>4. e.kind = "scored" => <<"failed", 0>> \in Answers(e.kind)
    BY DEF Answers
  <2>5. ~e.own \/ e.kind \notin {"requested", "fetched", "scored"}
    BY <2>1, <2>2, <2>3, <2>4
  <2>6. out \in Seq(Note) /\ \A i \in 1..Len(out) : FALSE
    BY <1>4
  <2> QED BY <2>5, <2>6
<1>5. CASE out # <<>>
  <2>1. PICK q \in Answers(e.kind) : out = <<[own |-> e.own, kind |-> q[1], scored |-> q[2]]>>
    BY <1>5 DEF FollowUps
  <2>2. PICK x : x = [own |-> e.own, kind |-> q[1], scored |-> q[2]]
    OBVIOUS
  <2>3. x \in Note /\ x.own = e.own /\ x.kind = q[1]
    BY <1>2, <1>3, <2>1, <2>2 DEF Note
  <2>4. out = <<x>> /\ Len(out) = 1 /\ out[1] = x /\ \A i \in 1..Len(out) : out[i] = x
    BY <2>1, <2>2
  <2>5. out \in Seq(Note)
    BY <2>3, <2>4
  <2> QED BY <1>3, <2>1, <2>3, <2>4, <2>5
<1> QED BY <1>4, <1>5

------------------------------------------------------------------------------
(* The stream.                                                               *)

LEMMA BatchTypes ==
  ASSUME BatchTypeOK
  PROVE  /\ events \in Seq(Note) /\ Len(events) \in Nat
         /\ \A i \in 1..Len(events) : events[i] \in Note
         /\ \A c \in Name : taken[c] \in 0..Len(events) /\ unsent[c] \in Seq(Note)
         /\ tracked.universe \in {0, Size} /\ tracked.scored \in 0..Size
         /\ tracked.status \in {"none", "success", "partial", "no_data", "failed"}
<1>1. events \in Seq(Note)
  BY DEF BatchTypeOK
<1>2. \A i \in 1..Len(events) : events[i] \in Note
  BY <1>1
<1> QED BY <1>1, <1>2 DEF BatchTypeOK

\* It only grows.
LEMMA EventsGrow ==
  ASSUME events \in Seq(Note), NEW s \in Seq(Note), events' = events \o s
  PROVE  /\ events' \in Seq(Note) /\ Len(events') = Len(events) + Len(s)
         /\ Len(events) \in Nat /\ Len(s) \in Nat
         /\ \A i \in 1..Len(events) : i \in 1..Len(events') /\ events'[i] = events[i]
         /\ \A i \in 1..Len(events') : i > Len(events) =>
              i - Len(events) \in 1..Len(s) /\ events'[i] = s[i - Len(events)]
         /\ \A i \in 1..Len(s) : Len(events) + i \in 1..Len(events') /\ events'[Len(events) + i] = s[i]
<1>1. /\ events \o s \in Seq(Note)
      /\ Len(events \o s) = Len(events) + Len(s)
      /\ \A i \in 1..(Len(events) + Len(s)) :
           (events \o s)[i] = IF i <= Len(events) THEN events[i] ELSE s[i - Len(events)]
  BY ConcatProperties
<1>2. Len(events) \in Nat /\ Len(s) \in Nat
  OBVIOUS
<1> QED BY <1>1, <1>2

LEMMA SentTogether ==
  ASSUME NEW s \in Seq(Note), NEW t \in Seq(Note), NEW u \in Seq(Note)
  PROVE  (s \o t) \o u = s \o (t \o u)
BY ConcatAssociative

LEMMA NextIs ==
  ASSUME BatchTypeOK, NEW c \in Name, For(c) # {}
  PROVE  NextFor(c) \in For(c) /\ \A j \in For(c) : NextFor(c) <= j
<1>1. For(c) \in SUBSET Nat
  BY BatchTypes DEF For
<1>2. \E i \in For(c) : \A j \in For(c) : i <= j
  BY <1>1, LeastNumber
<1> QED BY <1>2 DEF NextFor

\* c is through with event n, and s is sent.
Sends(c, n, s) ==
  /\ c \in working /\ n \in For(c) /\ \A j \in For(c) : n <= j
  /\ taken' = [taken EXCEPT ![c] = n] /\ working' = working \ {c}
  /\ s \in Seq(Note) /\ events' = events \o s
  /\ \A i \in 1..Len(s) : MaySend(c, s[i])
  /\ UNCHANGED <<transport, gaveUp, stage, looks, alarmed, exit>>

\* What was there stays, and what is new is of the sender's kinds.
LEMMA HasStays ==
  ASSUME BatchRunInv, NEW c \in Name, NEW n, NEW s, Sends(c, n, s)
  PROVE  /\ \A kind : Has(kind) => Has(kind)'
         /\ \A kind : Has(kind)' => Has(kind) \/ kind \in Emits[c]
         /\ Has("requested")' => Has("requested")
<1>1. /\ \A i \in 1..Len(events) : i \in 1..Len(events') /\ events'[i] = events[i]
      /\ \A i \in 1..Len(events') : i > Len(events) =>
           i - Len(events) \in 1..Len(s) /\ events'[i] = s[i - Len(events)]
      /\ Len(events) \in Nat /\ Len(events') \in Nat
  BY BatchTypes, EventsGrow DEF BatchRunInv, Sends
<1>2. ASSUME NEW kind, Has(kind) PROVE Has(kind)'
  BY <1>1, <1>2 DEF Has
<1>3. ASSUME NEW kind, Has(kind)' PROVE Has(kind) \/ kind \in Emits[c]
  <2>1. PICK i \in 1..Len(events') : events'[i].own /\ events'[i].kind = kind
    BY <1>3 DEF Has
  <2>2. CASE i \in 1..Len(events)
    BY <1>1, <2>1, <2>2 DEF Has
  <2>3. CASE i > Len(events)
    <3>1. PICK j \in 1..Len(s) : events'[i] = s[j]
      BY <1>1, <2>3
    <3> QED BY <2>1, <3>1 DEF Sends, MaySend
  <2> QED BY <1>1, <2>1, <2>2, <2>3
<1>4. "requested" \notin Emits[c]
  BY Consumers
<1> QED BY <1>2, <1>3, <1>4

LEMMA ForGrows ==
  ASSUME BatchRunInv, NEW c \in Name, NEW n, NEW s, Sends(c, n, s)
  PROVE  /\ \A d \in Name : \A i \in For(d) : d # c \/ i # n => i \in For(d)'
         /\ \A d \in Name : \A i \in For(d)' :
              i \in For(d) \/ (i > Len(events) /\ events'[i].kind \in KindsOf[d] \cap Emits[c])
         /\ \A d \in Name : \A i \in 1..Len(s) : s[i].kind \in KindsOf[d] => Len(events) + i \in For(d)'
<1>1. /\ \A i \in 1..Len(events) : i \in 1..Len(events') /\ events'[i] = events[i]
      /\ \A i \in 1..Len(events') : i > Len(events) =>
           i - Len(events) \in 1..Len(s) /\ events'[i] = s[i - Len(events)]
      /\ \A i \in 1..Len(s) : Len(events) + i \in 1..Len(events') /\ events'[Len(events) + i] = s[i]
      /\ Len(events) \in Nat /\ Len(events') \in Nat
  BY BatchTypes, EventsGrow DEF BatchRunInv, Sends
<1>2. /\ taken \in [Name -> 0..Len(events)] /\ n \in 1..Len(events) /\ n > taken[c]
      /\ \A d \in Name : taken[d] \in 0..Len(events)
  BY BatchTypes DEF BatchRunInv, BatchTypeOK, Sends, For
<1>3. taken'[c] = n /\ \A d \in Name : d # c => taken'[d] = taken[d]
  BY <1>2 DEF Sends
<1>4. ASSUME NEW d \in Name, NEW i \in For(d), d # c \/ i # n
      PROVE  i \in For(d)'
  <2>1. i \in 1..Len(events) /\ i > taken[d] /\ events[i].kind \in KindsOf[d]
    BY DEF For
  <2>2. i > taken'[d]
    <3>1. CASE d # c
      BY <1>3, <2>1, <3>1
    <3>2. CASE d = c /\ i # n
      <4>1. n <= i
        BY <3>2 DEF Sends
      <4> QED BY <1>2, <1>3, <2>1, <3>2, <4>1
    <3> QED BY <1>4, <3>1, <3>2
  <2> QED BY <1>1, <2>1, <2>2 DEF For
<1>5. ASSUME NEW d \in Name, NEW i \in For(d)'
      PROVE  i \in For(d) \/ (i > Len(events) /\ events'[i].kind \in KindsOf[d] \cap Emits[c])
  <2>1. i \in 1..Len(events') /\ i > taken'[d] /\ events'[i].kind \in KindsOf[d]
    BY <1>5 DEF For
  <2>2. CASE i \in 1..Len(events)
    <3>1. i > taken[d]
      BY <1>2, <1>3, <2>1
    <3> QED BY <1>1, <2>1, <2>2, <3>1 DEF For
  <2>3. CASE i > Len(events)
    <3>1. PICK j \in 1..Len(s) : events'[i] = s[j]
      BY <1>1, <2>1, <2>3
    <3> QED BY <2>1, <2>3, <3>1 DEF Sends, MaySend
  <2> QED BY <1>1, <2>1, <2>2, <2>3
<1>6. ASSUME NEW d \in Name, NEW i \in 1..Len(s), s[i].kind \in KindsOf[d]
      PROVE  Len(events) + i \in For(d)'
  <2>1. Len(events) + i \in 1..Len(events') /\ events'[Len(events) + i].kind \in KindsOf[d]
    BY <1>1, <1>6
  <2>2. Len(events) + i > taken'[d]
    <3>1. PICK m : m = taken'[d]
      OBVIOUS
    <3>2. m \in 0..Len(events)
      BY <1>1, <1>2, <1>3, <3>1
    <3> QED BY <1>1, <3>1, <3>2
  <2> QED BY <2>1, <2>2 DEF For
<1> QED BY <1>4, <1>5, <1>6

\* What the outboxes hold.
OutboxesInv ==
  /\ unsent \in [Name -> Seq(Note)]
  /\ \A c \in Name : \A i \in 1..Len(unsent[c]) : MaySend(c, unsent[c][i])

\* Sending keeps what does not speak of the tracker.
LEMMA SendsKeep ==
  ASSUME BatchRunInv, NEW c \in Name, NEW n, NEW s, Sends(c, n, s), OutboxesInv',
         tracked.status # "none" => tracked'.status # "none"
  PROVE  /\ events' \in Seq(Note) /\ taken' \in [Name -> 0..Len(events')] /\ working' \subseteq Name
         /\ OrderInv' /\ WorkInv' /\ QuietInv' /\ OutcomeInv'
<1>1. /\ events' \in Seq(Note) /\ Len(events) <= Len(events')
      /\ \A i \in 1..Len(events) : i \in 1..Len(events') /\ events'[i] = events[i]
      /\ \A i \in 1..Len(events') : i > Len(events) =>
           i - Len(events) \in 1..Len(s) /\ events'[i] = s[i - Len(events)]
      /\ Len(events) \in Nat /\ Len(events') \in Nat
  BY BatchTypes, EventsGrow DEF BatchRunInv, Sends
<1>2. taken \in [Name -> 0..Len(events)] /\ n \in 1..Len(events) /\ working \subseteq Name /\ c \in working
  BY DEF BatchRunInv, BatchTypeOK, Sends, For
<1>3. taken' \in [Name -> 0..Len(events')] /\ working' \subseteq Name
  <2>1. 0..Len(events) \subseteq 0..Len(events') /\ n \in 0..Len(events)
    BY <1>1, <1>2
  <2> QED BY <1>2, <2>1 DEF Sends
<1>4. stage' = stage /\ stage \notin {"start", "end"} /\ looks' = looks /\ gaveUp' = gaveUp
  BY <1>2 DEF Sends, BatchRunInv, WorkInv
<1>5. OrderInv'
  <2>1. ASSUME NEW i \in 1..Len(events'), events'[i].own, events'[i].kind = "reported"
        PROVE  \E j \in 1..(i - 1) : OfRun(j, "scored")'
    <3>1. CASE i \in 1..Len(events)
      <4>1. PICK j \in 1..(i - 1) : OfRun(j, "scored")
        BY <1>1, <2>1, <3>1 DEF BatchRunInv, OrderInv, OfRun
      <4>2. j \in 1..Len(events)
        BY <1>1, <3>1
      <4> QED BY <1>1, <4>1, <4>2 DEF OfRun
    <3>2. CASE i > Len(events)
      <4>1. PICK k \in 1..Len(s) : events'[i] = s[k]
        BY <1>1, <3>2
      <4>2. Has("scored")
        BY <2>1, <4>1 DEF Sends, MaySend
      <4>3. PICK j \in 1..Len(events) : events[j].own /\ events[j].kind = "scored"
        BY <4>2 DEF Has
      <4>4. j \in 1..(i - 1)
        BY <1>1, <3>2
      <4> QED BY <1>1, <4>3, <4>4 DEF OfRun
    <3> QED BY <1>1, <3>1, <3>2
  <2> QED BY <2>1 DEF OrderInv, OutboxesInv, OfRun
<1>6. WorkInv'
  <2>1. ASSUME NEW d \in working' PROVE For(d)' # {}
    <3>1. d \in Name /\ d # c /\ For(d) # {}
      BY <1>2 DEF Sends, BatchRunInv, WorkInv
    <3> QED BY <3>1, ForGrows
  <2> QED BY <1>4, <2>1 DEF WorkInv, BatchRunInv
<1>7. ~Quiet(c)
  BY <1>2 DEF Quiet
<1>8. QuietInv'
  <2>1. ASSUME stage = "settle", NEW i \in 1..4, i <= looks
        PROVE  Quiet(Wired[i])'
    <3>1. PICK j \in 1..4 : c = Wired[j]
      BY Behind
    <3>2. looks \in 0..8
      BY DEF BatchRunInv, BatchTypeOK
    <3>3. ~(j <= looks)
      BY <1>7, <2>1, <3>1 DEF BatchRunInv, QuietInv
    <3>4. i < j
      BY <2>1, <3>2, <3>3
    <3>5. PICK d \in Name : d = Wired[i]
      BY Behind
    <3>6. Emits[c] \cap KindsOf[d] = {}
      BY <3>1, <3>4, <3>5, Behind
    <3>7. Quiet(d)
      BY <2>1, <3>5 DEF BatchRunInv, QuietInv
    <3>8. For(d)' = {}
      BY <3>6, <3>7, ForGrows DEF Quiet
    <3>9. d \notin working'
      BY <3>7 DEF Quiet, Sends
    <3> QED BY <3>5, <3>8, <3>9 DEF Quiet
  <2>2. stage \in {"close", "end"} /\ Has("requested")' => gaveUp
    BY <1>7, HasStays DEF BatchRunInv, QuietInv
  <2>3. stage = "settle" => looks < 8 /\ tracked'.status # "none"
    BY DEF BatchRunInv, QuietInv
  <2>4. stage = "abort" => gaveUp
    BY DEF BatchRunInv, QuietInv
  <2> QED BY <1>4, <2>1, <2>2, <2>3, <2>4 DEF QuietInv
<1>9. OutcomeInv'
  BY <1>4 DEF OutcomeInv
<1> QED BY <1>1, <1>3, <1>5, <1>6, <1>8, <1>9

------------------------------------------------------------------------------
(* The services.                                                             *)

\* s may be sent by c, and takes the chain on if the event n does.
MayFollow(c, n, s) ==
  /\ s \in Seq(Note)
  /\ \A i \in 1..Len(s) : MaySend(c, s[i])
  /\ events[n].own /\ events[n].kind \in {"requested", "fetched", "scored"} =>
       \E i \in 1..Len(s) : s[i].own /\ \E d \in Name : s[i].kind \in KindsOf[d] /\ Onward(d, s[i].kind)

\* What is left in the outbox, and what the handler sends.
LEMMA SentIs ==
  ASSUME BatchRunInv, NEW c \in Name, c # "batch", NEW n \in For(c), NEW out \in FollowUps(events[n])
  PROVE  out \in Seq(Note) /\ MayFollow(c, n, unsent[c] \o out)
<1>1. PICK s : s = unsent[c] \o out
  OBVIOUS
<1>2. PICK e : e = events[n]
  OBVIOUS
<1>3. n \in 1..Len(events) /\ e.kind \in KindsOf[c] /\ e \in Note
  BY <1>2, BatchTypes DEF For, BatchRunInv
<1>4. e.own /\ e.kind = "scored" => Has("scored")
  BY <1>2, <1>3 DEF Has
<1>5. /\ out \in Seq(Note)
      /\ \A i \in 1..Len(out) : /\ out[i].own = e.own /\ out[i].kind \in Emits[c]
                                /\ out[i].kind = "reported" => e.kind = "scored"
      /\ e.own /\ e.kind \in {"requested", "fetched", "scored"} =>
           /\ Len(out) = 1
           /\ \E d \in Name : out[1].kind \in KindsOf[d] /\ Onward(d, out[1].kind)
  BY <1>2, <1>3, FollowUpsAre
<1>6. PICK u : u = unsent[c]
  OBVIOUS
<1>7. u \in Seq(Note) /\ \A i \in 1..Len(u) : MaySend(c, u[i])
  BY <1>6, BatchTypes DEF BatchRunInv, OrderInv
<1>8. /\ s \in Seq(Note) /\ Len(s) = Len(u) + Len(out)
      /\ \A i \in 1..(Len(u) + Len(out)) : s[i] = IF i <= Len(u) THEN u[i] ELSE out[i - Len(u)]
      /\ Len(u) \in Nat /\ Len(out) \in Nat
  BY <1>1, <1>5, <1>6, <1>7, ConcatProperties
<1>9. \A i \in 1..Len(s) :
        (i \in 1..Len(u) /\ s[i] = u[i]) \/ (i - Len(u) \in 1..Len(out) /\ s[i] = out[i - Len(u)])
  <2>1. SUFFICES ASSUME NEW i \in 1..Len(s)
                 PROVE  \/ i \in 1..Len(u) /\ s[i] = u[i]
                        \/ i - Len(u) \in 1..Len(out) /\ s[i] = out[i - Len(u)]
    OBVIOUS
  <2>2. i \in 1..(Len(u) + Len(out))
    BY <1>8
  <2>3. CASE i <= Len(u)
    <3>1. i \in 1..Len(u)
      BY <1>8, <2>2, <2>3
    <3> QED BY <1>8, <2>2, <2>3, <3>1
  <2>4. CASE ~(i <= Len(u))
    <3>1. i - Len(u) \in 1..Len(out)
      BY <1>8, <2>2, <2>4
    <3> QED BY <1>8, <2>2, <2>4, <3>1
  <2> QED BY <2>3, <2>4
<1>10. e.own /\ e.kind \in {"requested", "fetched", "scored"} =>
        \E i \in 1..Len(s) : s[i].own /\ \E d \in Name : s[i].kind \in KindsOf[d] /\ Onward(d, s[i].kind)
  <2>1. SUFFICES ASSUME e.own, e.kind \in {"requested", "fetched", "scored"}
                 PROVE  \E i \in 1..Len(s) : s[i].own /\ \E d \in Name : s[i].kind \in KindsOf[d] /\ Onward(d, s[i].kind)
    OBVIOUS
  <2>2. Len(u) + 1 \in 1..Len(s) /\ s[Len(u) + 1] = out[1]
    <3>1. Len(out) = 1 /\ Len(u) \in Nat
      BY <1>5, <1>8, <2>1
    <3>2. PICK k : k = Len(u) + 1
      OBVIOUS
    <3>3. k \in 1..(Len(u) + Len(out)) /\ ~(k <= Len(u)) /\ k - Len(u) = 1
      BY <3>1, <3>2
    <3> QED BY <1>8, <3>2, <3>3
  <2>3. 1 \in 1..Len(out)
    BY <1>5, <2>1
  <2> QED BY <1>5, <2>1, <2>2, <2>3
<1>11. \A i \in 1..Len(out) : MaySend(c, out[i])
  BY <1>4, <1>5 DEF MaySend
<1>12. \A i \in 1..Len(s) : MaySend(c, s[i])
  BY <1>7, <1>9, <1>11
<1>13. MayFollow(c, n, s)
  BY <1>2, <1>8, <1>10, <1>12 DEF MayFollow
<1> QED BY <1>5, <1>1, <1>13

LEMMA ThroughIs ==
  ASSUME BatchRunInv, NEW c \in Name, Through(c), NEW n, n = NextFor(c),
         NEW s \in Seq(Note), events' = events \o s,
         \A i \in 1..Len(s) : MaySend(c, s[i])
  PROVE  Sends(c, n, s) /\ n \in For(c)
<1>1. For(c) # {}
  BY DEF BatchRunInv, WorkInv, Through
<1> QED BY <1>1, NextIs DEF BatchRunInv, Through, Sends

\* The tracker has not seen what others send.
LEMMA SeenStays ==
  ASSUME BatchRunInv, NEW c \in Name, c # "batch", NEW n, NEW s, Sends(c, n, s)
  PROVE  \A kind : Seen(kind)' <=> Seen(kind)
<1>1. \A i \in 1..Len(events) : i \in 1..Len(events') /\ events'[i] = events[i]
  BY BatchTypes, EventsGrow DEF BatchRunInv, Sends
<1>2. /\ "batch" \in Name /\ taken'["batch"] = taken["batch"]
      /\ taken["batch"] \in 0..Len(events) /\ Len(events) \in Nat
  BY Consumers, BatchTypes DEF BatchRunInv, BatchTypeOK, Sends
<1>3. \A i \in 1..taken["batch"] : i \in 1..Len(events)
  BY <1>2
<1> QED BY <1>1, <1>2, <1>3 DEF Seen, OfRun

\* An event stays in the stream.
LEMMA ScoredStays ==
  ASSUME BatchRunInv, NEW c \in Name, NEW n, NEW s, Sends(c, n, s)
  PROVE  \A x : (\E i \in 1..Len(events) : events[i] = x) => \E i \in 1..Len(events') : events'[i] = x
BY BatchTypes, EventsGrow DEF BatchRunInv, Sends

\* An own outbox after a step.
LEMMA OutboxStays ==
  ASSUME BatchRunInv, NEW c \in Name, NEW n, NEW s, Sends(c, n, s), NEW u \in Seq(Note),
         unsent' = [unsent EXCEPT ![c] = u],
         \A i \in 1..Len(u) : MaySend(c, u[i])
  PROVE  OutboxesInv'
<1>1. unsent \in [Name -> Seq(Note)] /\ (Has("scored") => Has("scored")')
  BY HasStays DEF BatchRunInv, BatchTypeOK
<1>2. unsent' \in [Name -> Seq(Note)]
  BY <1>1
<1>3. ASSUME NEW d \in Name, NEW i \in 1..Len(unsent'[d])
      PROVE  /\ unsent'[d][i].kind \in Emits[d]
             /\ unsent'[d][i].own /\ unsent'[d][i].kind = "reported" => Has("scored")'
  <2>1. CASE d = c
    <3>1. unsent'[d] = u
      BY <1>1, <2>1
    <3> QED BY <1>1, <1>3, <2>1, <3>1 DEF MaySend
  <2>2. CASE d # c
    <3>1. unsent'[d] = unsent[d]
      BY <1>1, <2>2
    <3> QED BY <1>1, <1>3, <3>1 DEF BatchRunInv, OrderInv, MaySend
  <2> QED BY <2>1, <2>2
<1> QED BY <1>2, <1>3 DEF OutboxesInv, MaySend

\* The chain goes on where somebody other than the sender has it before him, or the
\* sender had another event.
LEMMA ChainStays ==
  ASSUME BatchRunInv, NEW c \in Name, NEW n, NEW s, Sends(c, n, s),
         tracked'.status = "none" => tracked.status = "none",
         Onward(c, events[n].kind) /\ events[n].own /\ tracked'.status = "none" =>
           \E i \in 1..Len(s) : s[i].own /\ \E d \in Name : s[i].kind \in KindsOf[d] /\ Onward(d, s[i].kind)
  PROVE  ChainInv'
<1>1. SUFFICES ASSUME Has("requested")', tracked'.status = "none"
               PROVE  \E d \in Name : \E i \in For(d)' : events'[i].own /\ Onward(d, events'[i].kind)
  BY DEF ChainInv
<1>2. PICK d, i : d \in Name /\ i \in For(d) /\ events[i].own /\ Onward(d, events[i].kind)
  BY <1>1, HasStays DEF BatchRunInv, ChainInv
<1>3. /\ \A k \in 1..Len(events) : events'[k] = events[k]
      /\ \A k \in 1..Len(s) : events'[Len(events) + k] = s[k]
  BY BatchTypes, EventsGrow DEF BatchRunInv, Sends
<1>4. CASE d # c \/ i # n
  <2>1. i \in For(d)'
    BY <1>2, <1>4, ForGrows
  <2>2. i \in 1..Len(events)
    BY <1>2 DEF For
  <2> QED BY <1>2, <1>3, <2>1, <2>2
<1>5. CASE d = c /\ i = n
  <2>1. PICK k \in 1..Len(s), g \in Name : s[k].own /\ s[k].kind \in KindsOf[g] /\ Onward(g, s[k].kind)
    BY <1>1, <1>2, <1>5
  <2>2. Len(events) + k \in For(g)'
    BY <2>1, ForGrows
  <2> QED BY <1>3, <2>1, <2>2
<1> QED BY <1>4, <1>5

\* What the tracker can hold.
Tracked == [universe : {0, Size}, scored : 0..Size,
            status : {"none", "success", "partial", "no_data", "failed"}]

LEMMA StepKeeps ==
  ASSUME BatchRunInv, NEW c \in Name, NEW n, NEW s, Sends(c, n, s), OutboxesInv',
         tracked' \in Tracked, died' \in BOOLEAN, silent' \in BOOLEAN, faults' \in 0..MaxFaults,
         tracked.status # "none" => tracked'.status # "none",
         TrackerInv', ChainInv', HeardInv'
  PROVE  BatchRunInv'
<1>1. /\ events' \in Seq(Note) /\ taken' \in [Name -> 0..Len(events')] /\ working' \subseteq Name
      /\ OrderInv' /\ WorkInv' /\ QuietInv' /\ OutcomeInv'
  BY SendsKeep
<1>2. BatchTypeOK /\ UNCHANGED <<transport, gaveUp, stage, looks, alarmed, exit>>
  BY DEF BatchRunInv, Sends
<1>3. gaveUp' \in BOOLEAN /\ alarmed' \in BOOLEAN
  BY <1>2 DEF BatchTypeOK
<1>4. BatchTypeOK'
  BY <1>1, <1>2, <1>3 DEF BatchTypeOK, OutboxesInv, Tracked
<1> QED BY <1>1, <1>4 DEF BatchRunInv

LEMMA HandleKeeps ==
  ASSUME BatchRunInv, NEW c \in Name, Handle(c)
  PROVE  BatchRunInv'
<1>1. PICK n : n = NextFor(c)
  OBVIOUS
<1>2. c # "batch" /\ Through(c) /\ UNCHANGED <<tracked, died, silent, faults>>
  BY DEF Handle
<1>3. PICK out \in FollowUps(events[n]) : events' = events \o unsent[c] \o out
  BY <1>1 DEF Handle
<1>4. PICK s : s = unsent[c] \o out
  OBVIOUS
<1>5. n \in For(c)
  BY <1>1, <1>2, NextIs DEF BatchRunInv, WorkInv, Through
<1>6. out \in Seq(Note) /\ MayFollow(c, n, s)
  <2>1. out \in Seq(Note) /\ MayFollow(c, n, unsent[c] \o out)
    BY <1>2, <1>5, SentIs
  <2> QED BY <1>4, <2>1
<1>7. events' = events \o s
  <2>1. PICK u : u = unsent[c]
    OBVIOUS
  <2>2. events \in Seq(Note) /\ u \in Seq(Note) /\ out \in Seq(Note)
    BY <1>6, <2>1, BatchTypes DEF BatchRunInv
  <2>3. (events \o u) \o out = events \o (u \o out)
    BY <2>2, SentTogether
  <2> QED BY <1>3, <1>4, <2>1, <2>3
<1>8. Sends(c, n, s)
  BY <1>1, <1>2, <1>6, <1>7, ThroughIs DEF MayFollow
<1>9. OutboxesInv'
  <2>1. <<>> \in Seq(Note) /\ Len(<<>>) = 0
    OBVIOUS
  <2>2. unsent' = [unsent EXCEPT ![c] = <<>>]
    BY DEF Handle
  <2>3. \A i \in 1..Len(<<>>) : FALSE
    BY <2>1
  <2> QED BY <1>8, <2>1, <2>2, <2>3, OutboxStays
<1>10. TrackerInv'
  BY <1>2, <1>8, SeenStays, ScoredStays DEF TrackerInv, HasFailed, BatchRunInv
<1>11. ChainInv'
  <2>1. Onward(c, events[n].kind) => events[n].kind \in {"requested", "fetched", "scored"}
    BY <1>2 DEF Onward
  <2> QED BY <1>2, <1>6, <1>8, <2>1, ChainStays DEF MayFollow
<1>12. HeardInv'
  BY <1>2, <1>8, HasStays DEF HeardInv, BatchRunInv
<1>13. tracked' \in Tracked /\ died' \in BOOLEAN /\ silent' \in BOOLEAN /\ faults' \in 0..MaxFaults
  BY <1>2 DEF BatchRunInv, BatchTypeOK, Tracked
<1> QED BY <1>2, <1>8, <1>9, <1>10, <1>11, <1>12, <1>13, StepKeeps

\* A dead letter: whatever was published before, the tracker knows of a failure, and
\* so do others unless it is silent.
LEMMA DeadLetterIs ==
  ASSUME BatchRunInv, NEW c \in Name, c # "batch", Through(c), NEW n, n = NextFor(c),
         NEW p \in Seq(Note), OnDeadLetter(c, p),
         \A i \in 1..Len(p) : MaySend(c, p[i])
  PROVE  \E s : /\ Sends(c, n, s)
                /\ tracked' = IF HasFailed THEN tracked ELSE [tracked EXCEPT !.status = "failed"]
                /\ silent' \in BOOLEAN
                /\ silent' = TRUE \/ Has("failed")' \/ Has("no_data")'
<1>1. PICK e : e = events[n]
  OBVIOUS
<1>2. n \in For(c) /\ n \in 1..Len(events) /\ e.kind \in KindsOf[c] /\ e \in Note
  BY <1>1, NextIs, BatchTypes DEF BatchRunInv, WorkInv, Through, For
<1>3. silent \in BOOLEAN
  BY DEF BatchRunInv, BatchTypeOK
<1>4. tracked' = IF HasFailed THEN tracked ELSE [tracked EXCEPT !.status = "failed"]
  BY DEF OnDeadLetter
<1>5. \/ e.kind \in {"failed", "no_data"} /\ events' = events \o p /\ silent' = (silent \/ ~e.own)
      \/ e.kind \notin {"failed", "no_data"} /\ silent' = (silent \/ ~e.own)
           /\ events' = events \o p \o <<[e EXCEPT !.kind = "failed"]>>
      \/ events' = events \o p /\ silent' = TRUE
  BY <1>1 DEF OnDeadLetter
<1>6. events' = events \o p => Sends(c, n, p)
  BY ThroughIs
<1>10. silent' = (silent \/ ~e.own) => silent' = TRUE \/ (silent' = FALSE /\ e.own)
  <2>1. CASE silent \/ ~e.own
    BY <2>1, Zenon
  <2>2. CASE ~(silent \/ ~e.own)
    BY <2>2, Zenon
  <2> QED BY <2>1, <2>2
<1>7. CASE e.kind \in {"failed", "no_data"} /\ events' = events \o p /\ silent' = (silent \/ ~e.own)
  <2>1. silent' = TRUE \/ (silent' = FALSE /\ e.own)
    BY <1>7, <1>10
  <2>2. e.own => Has("failed") \/ Has("no_data")
    BY <1>1, <1>2, <1>7 DEF Has
  <2>3. e.own => Has("failed")' \/ Has("no_data")'
    BY <1>6, <1>7, <2>2, HasStays
  <2>4. silent' \in BOOLEAN
    BY <2>1, Zenon
  <2> QED BY <1>4, <1>6, <1>7, <2>1, <2>3, <2>4, Zenon
<1>8. CASE events' = events \o p /\ silent' = TRUE
  BY <1>4, <1>6, <1>8, Zenon
<1>9. CASE e.kind \notin {"failed", "no_data"} /\ silent' = (silent \/ ~e.own)
           /\ events' = events \o p \o <<[e EXCEPT !.kind = "failed"]>>
  <2>1. PICK x : x = [e EXCEPT !.kind = "failed"]
    OBVIOUS
  <2>2. "failed" \in Emits[c]
    BY <1>2, Consumers
  <2>3. x \in Note /\ x.own = e.own /\ x.kind = "failed"
    BY <1>2, <2>1 DEF Note, Kind
  <2>4. PICK s : s = p \o <<x>>
    OBVIOUS
  <2>5. /\ s \in Seq(Note) /\ Len(s) = Len(p) + 1 /\ s[Len(p) + 1] = x /\ Len(p) \in Nat
        /\ \A i \in 1..Len(s) : (i \in 1..Len(p) /\ s[i] = p[i]) \/ s[i] = x
    BY <2>3, <2>4
  <2>6. events' = events \o s
    <3>1. events \in Seq(Note) /\ p \in Seq(Note) /\ <<x>> \in Seq(Note)
      BY <2>3, BatchTypes DEF BatchRunInv
    <3>2. (events \o p) \o <<x>> = events \o (p \o <<x>>)
      BY <3>1, SentTogether
    <3> QED BY <1>9, <2>1, <2>4, <3>2
  <2>7. \A i \in 1..Len(s) : MaySend(c, s[i])
    BY <2>2, <2>3, <2>5 DEF MaySend
  <2>8. Sends(c, n, s)
    <3>1. s \in Seq(Note)
      BY <2>5
    <3> QED BY <2>6, <2>7, <3>1, ThroughIs
  <2>9. e.own => Has("failed")'
    <3>1. /\ \A i \in 1..Len(s) : Len(events) + i \in 1..Len(events') /\ events'[Len(events) + i] = s[i]
      BY <2>5, <2>6, BatchTypes, EventsGrow DEF BatchRunInv
    <3>2. PICK i \in 1..Len(s) : s[i] = x
      BY <2>5
    <3> QED BY <2>3, <3>1, <3>2 DEF Has
  <2>10. silent' = TRUE \/ (silent' = FALSE /\ e.own)
    BY <1>9, <1>10
  <2>11. silent' \in BOOLEAN
    BY <2>10, Zenon
  <2> QED BY <1>4, <2>8, <2>9, <2>10, <2>11, Zenon
<1> QED BY <1>5, <1>7, <1>8, <1>9

LEMMA HandleFailsKeeps ==
  ASSUME BatchRunInv, NEW c \in Name, HandleFails(c)
  PROVE  BatchRunInv'
<1>1. PICK n : n = NextFor(c)
  OBVIOUS
<1>2. c # "batch" /\ Through(c) /\ died' = TRUE /\ Fault
  BY DEF HandleFails
<1>3. PICK out \in FollowUps(events[n]) :
        \/ OnDeadLetter(c, <<>>) /\ UNCHANGED unsent
        \/ OnDeadLetter(c, unsent[c] \o out) /\ UNCHANGED unsent
        \/ OnDeadLetter(c, <<>>) /\ unsent' = [unsent EXCEPT ![c] = @ \o out]
  BY <1>1 DEF HandleFails
<1>4. PICK all : all = unsent[c] \o out
  OBVIOUS
<1>5. n \in For(c)
  BY <1>1, <1>2, NextIs DEF BatchRunInv, WorkInv, Through
<1> DEFINE Sound(t) == t \in Seq(Note) /\ \A i \in 1..Len(t) : MaySend(c, t[i])
<1>6. Sound(all)
  <2>1. MayFollow(c, n, unsent[c] \o out)
    BY <1>2, <1>5, SentIs
  <2> QED BY <1>4, <2>1 DEF MayFollow
<1>7. Sound(<<>>) /\ Sound(unsent[c])
  <2>1. <<>> \in Seq(Note) /\ \A i \in 1..Len(<<>>) : FALSE
    OBVIOUS
  <2> QED BY <2>1, BatchTypes DEF BatchRunInv, OrderInv
<1> HIDE DEF Sound
<1>8. unsent = [unsent EXCEPT ![c] = unsent[c]]
  BY DEF BatchRunInv, BatchTypeOK
<1>9. PICK p, u : OnDeadLetter(c, p) /\ Sound(p) /\ Sound(u) /\ unsent' = [unsent EXCEPT ![c] = u]
  <2>1. CASE OnDeadLetter(c, <<>>) /\ UNCHANGED unsent
    BY <1>7, <1>8, <2>1
  <2>2. CASE OnDeadLetter(c, all) /\ UNCHANGED unsent
    BY <1>6, <1>7, <1>8, <2>2
  <2>3. CASE OnDeadLetter(c, <<>>) /\ unsent' = [unsent EXCEPT ![c] = all]
    BY <1>6, <1>7, <2>3
  <2> QED BY <1>3, <1>4, <2>1, <2>2, <2>3
<1>10. PICK s : /\ Sends(c, n, s)
                /\ tracked' = IF HasFailed THEN tracked ELSE [tracked EXCEPT !.status = "failed"]
                /\ silent' \in BOOLEAN
                /\ silent' = TRUE \/ Has("failed")' \/ Has("no_data")'
  <2>1. p \in Seq(Note)
    BY <1>9 DEF Sound
  <2>2. \A i \in 1..Len(p) : MaySend(c, p[i])
    BY <1>9 DEF Sound
  <2> QED BY <1>1, <1>2, <1>9, <2>1, <2>2, DeadLetterIs
<1>11. OutboxesInv'
  <2>1. u \in Seq(Note)
    BY <1>9 DEF Sound
  <2>2. \A i \in 1..Len(u) : MaySend(c, u[i])
    BY <1>9 DEF Sound
  <2> QED BY <1>9, <1>10, <2>1, <2>2, OutboxStays
<1>12. /\ tracked' \in Tracked /\ tracked'.status \in {"no_data", "failed"}
       /\ tracked'.universe = tracked.universe /\ tracked'.scored = tracked.scored
  <2>1. tracked \in Tracked
    BY DEF BatchRunInv, BatchTypeOK, Tracked
  <2>2. CASE HasFailed
    BY <1>10, <2>1, <2>2 DEF HasFailed
  <2>3. CASE ~HasFailed
    BY <1>10, <2>1, <2>3 DEF Tracked
  <2> QED BY <2>2, <2>3
<1>13. TrackerInv'
  <2>1. HasFailed' /\ tracked'.status \notin {"none", "success", "partial"}
    BY <1>12 DEF HasFailed
  <2>2. Seen("scored")' => tracked'.universe = Size
    BY <1>2, <1>10, <1>12, SeenStays DEF BatchRunInv, TrackerInv
  <2>3. tracked'.scored # 0 => \E i \in 1..Len(events') : events'[i] = Own("scored", tracked'.scored)
    BY <1>10, <1>12, ScoredStays DEF BatchRunInv, TrackerInv
  <2>4. died'
    BY <1>2, Zenon
  <2> QED BY <2>1, <2>2, <2>3, <2>4 DEF TrackerInv
<1>14. ChainInv'
  BY <1>12 DEF ChainInv
<1>15. HeardInv'
  BY <1>10, Zenon DEF HeardInv
<1>16. died' \in BOOLEAN /\ faults' \in 0..MaxFaults
  BY <1>2, FaultsAssumption DEF Fault, BatchRunInv, BatchTypeOK
<1> QED BY <1>10, <1>11, <1>12, <1>13, <1>14, <1>15, <1>16, StepKeeps

------------------------------------------------------------------------------
(* The tracker.                                                              *)

LEMMA TrackedSees ==
  ASSUME BatchRunInv, NEW n, Sends("batch", n, <<>>)
  PROVE  /\ events' = events /\ n \in 1..Len(events)
         /\ \A kind \in KindsOf["batch"] : Seen(kind)' <=> Seen(kind) \/ OfRun(n, kind)
         /\ events[n].own /\ events[n].kind = "reported" => Seen("scored")
<1>1. events' = events
  BY BatchTypes, ConcatEmptySeq DEF BatchRunInv, Sends
<1>2. PICK m : m = taken["batch"]
  OBVIOUS
<1>3. m \in 0..Len(events) /\ n \in 1..Len(events) /\ n > m /\ Len(events) \in Nat /\ "batch" \in Name
  BY <1>2, BatchTypes, Consumers DEF BatchRunInv, Sends, For
<1>4. taken'["batch"] = n
  BY <1>3 DEF BatchRunInv, BatchTypeOK, Sends
<1>5. \A i \in 1..Len(events) : i > m /\ events[i].kind \in KindsOf["batch"] => n <= i
  BY <1>2 DEF Sends, For
<1>6. ASSUME NEW kind \in KindsOf["batch"], Seen(kind)'
      PROVE  Seen(kind) \/ OfRun(n, kind)
  <2>1. PICK i \in 1..n : OfRun(i, kind)
    BY <1>1, <1>4, <1>6 DEF Seen, OfRun
  <2>2. i \in 1..m \/ i > m
    BY <1>3
  <2>3. i > m => n <= i
    BY <1>3, <1>5, <2>1 DEF OfRun
  <2>4. i \in 1..m \/ i = n
    BY <1>3, <2>2, <2>3
  <2> QED BY <1>2, <2>1, <2>4 DEF Seen
<1>7. ASSUME NEW kind, Seen(kind) \/ OfRun(n, kind)
      PROVE  Seen(kind)'
  <2>1. PICK i \in 1..n : OfRun(i, kind)
    BY <1>2, <1>3, <1>7 DEF Seen
  <2> QED BY <1>1, <1>4, <2>1 DEF Seen, OfRun
<1>8. ASSUME events[n].own, events[n].kind = "reported"
      PROVE  Seen("scored")
  <2>1. PICK j \in 1..(n - 1) : OfRun(j, "scored")
    BY <1>3, <1>8 DEF BatchRunInv, OrderInv, OfRun
  <2>2. j \in 1..Len(events) /\ j < n
    BY <1>3
  <2>3. "scored" \in KindsOf["batch"]
    BY Consumers
  <2>4. j \in 1..m
    BY <1>3, <1>5, <2>1, <2>2, <2>3 DEF OfRun
  <2> QED BY <1>2, <2>1, <2>4 DEF Seen
<1> QED BY <1>1, <1>3, <1>6, <1>7, <1>8

\* What the tracker makes of an event of the run.
LEMMA TrackIs ==
  ASSUME NEW t \in Tracked, tracked = t, NEW e \in Note, e.kind \in KindsOf["batch"], NEW u, u = Track(e)
  PROVE  /\ u \in Tracked
         /\ ~e.own => u = t
         /\ e.own /\ e.kind = "fetched" => u.status = t.status /\ u.scored = t.scored /\ u.universe = Size
         /\ e.own /\ e.kind = "scored" => u.status = t.status /\ u.scored = e.scored /\ u.universe = Size
         /\ e.own /\ e.kind \notin {"fetched", "scored"} => u.universe = t.universe /\ u.scored = t.scored
         /\ e.own /\ e.kind = "reported" /\ ~HasFailed =>
              u.status \in {"partial", "success"} /\ (u.status = "success" => t.universe <= t.scored)
         /\ e.own /\ e.kind = "reported" /\ HasFailed => u.status = t.status
         /\ e.own /\ e.kind \in {"failed", "no_data"} => u.status \in {"failed", "no_data"}
<1>1. e.own \in BOOLEAN /\ e.scored \in 0..Size /\ Size \in Nat /\ t.universe \in {0, Size} /\ t.scored \in 0..Size
  BY BatchAssumption DEF Note, Tracked
<1>2. CASE ~e.own \/ (HasFailed /\ e.kind \notin {"fetched", "scored"})
  <2>1. u = t
    BY <1>2 DEF Track
  <2>2. HasFailed => t.status \in {"failed", "no_data"}
    BY DEF HasFailed
  <2> QED BY <1>2, <2>1, <2>2
<1>3. CASE e.own /\ e.kind = "fetched"
  <2>1. u = [t EXCEPT !.universe = Size]
    BY <1>3 DEF Track
  <2> QED BY <1>1, <1>3, <2>1 DEF Tracked
<1>4. CASE e.own /\ e.kind = "scored"
  <2>1. u = [t EXCEPT !.universe = Size, !.scored = e.scored]
    BY <1>4 DEF Track
  <2> QED BY <1>1, <1>4, <2>1 DEF Tracked
<1>5. CASE e.own /\ e.kind = "reported" /\ ~HasFailed
  <2>1. u = [t EXCEPT !.status = IF t.universe > t.scored THEN "partial" ELSE "success"]
    BY <1>5 DEF Track
  <2>2. PICK w \in {"partial", "success"} : u = [t EXCEPT !.status = w] /\ (w = "success" => t.universe <= t.scored)
    BY <1>1, <2>1
  <2> QED BY <1>1, <1>5, <2>2 DEF Tracked
<1>6. CASE e.own /\ e.kind \in {"failed", "no_data"} /\ ~HasFailed
  <2>1. u = [t EXCEPT !.status = e.kind]
    BY <1>6 DEF Track
  <2> QED BY <1>6, <2>1 DEF Tracked
<1>7. e.kind \in {"fetched", "scored", "reported", "failed", "no_data"}
  BY Consumers
<1> QED BY <1>1, <1>2, <1>3, <1>4, <1>5, <1>6, <1>7

LEMMA TrackerStays ==
  ASSUME BatchRunInv, NEW n, Sends("batch", n, <<>>), tracked' = Track(events[n]), died' = died
  PROVE  /\ tracked' \in Tracked /\ TrackerInv'
         /\ tracked.status # "none" => tracked'.status # "none"
         /\ Onward("batch", events[n].kind) /\ events[n].own => tracked'.status # "none"
<1>1. PICK e : e = events[n]
  OBVIOUS
<1>2. PICK t : t = tracked
  OBVIOUS
<1>3. PICK u : u = Track(e)
  OBVIOUS
<1>4. e \in Note /\ t \in Tracked /\ e.kind \in KindsOf["batch"]
  BY <1>1, <1>2, BatchTypes, TrackedSees DEF BatchRunInv, BatchTypeOK, Tracked, Sends, For
<1>5. /\ u \in Tracked
      /\ ~e.own => u = t
      /\ e.own /\ e.kind = "fetched" => u.status = t.status /\ u.scored = t.scored /\ u.universe = Size
      /\ e.own /\ e.kind = "scored" => u.status = t.status /\ u.scored = e.scored /\ u.universe = Size
      /\ e.own /\ e.kind \notin {"fetched", "scored"} => u.universe = t.universe /\ u.scored = t.scored
      /\ e.own /\ e.kind = "reported" /\ ~HasFailed =>
           u.status \in {"partial", "success"} /\ (u.status = "success" => t.universe <= t.scored)
      /\ e.own /\ e.kind = "reported" /\ HasFailed => u.status = t.status
      /\ e.own /\ e.kind \in {"failed", "no_data"} => u.status \in {"failed", "no_data"}
  BY <1>2, <1>3, <1>4, TrackIs
<1>6. tracked' = u /\ events' = events /\ (HasFailed <=> t.status \in {"no_data", "failed"})
  BY <1>1, <1>2, <1>3, TrackedSees DEF HasFailed
<1>7. e.kind \in {"fetched", "scored", "reported", "failed", "no_data"}
  BY <1>4, Consumers
<1>8. /\ \A kind \in {"scored", "reported", "failed", "no_data"} :
           Seen(kind)' <=> Seen(kind) \/ (e.own /\ e.kind = kind)
      /\ e.own /\ e.kind = "reported" => Seen("scored")
  BY <1>1, TrackedSees, Consumers DEF OfRun
<1>9. /\ t.status \in {"no_data", "failed"} <=> died \/ Seen("failed") \/ Seen("no_data")
      /\ t.status \in {"success", "partial"} => Seen("reported")
      /\ Seen("reported") => t.status # "none"
      /\ Seen("scored") => t.universe = Size
  BY <1>2 DEF BatchRunInv, TrackerInv, HasFailed
<1>10. t.status \in {"none", "success", "partial", "no_data", "failed"}
  BY <1>4 DEF Tracked
<1>11. HasFailed' <=> died' \/ Seen("failed")' \/ Seen("no_data")'
  <2>1. HasFailed' <=> u.status \in {"no_data", "failed"}
    BY <1>6 DEF HasFailed
  <2>2. u.status \in {"no_data", "failed"} <=>
          t.status \in {"no_data", "failed"} \/ (e.own /\ e.kind \in {"failed", "no_data"})
    BY <1>5, <1>6, <1>7
  <2>3. Seen("failed")' \/ Seen("no_data")' <=>
          Seen("failed") \/ Seen("no_data") \/ (e.own /\ e.kind \in {"failed", "no_data"})
    BY <1>8
  <2> QED BY <1>9, <2>1, <2>2, <2>3, Zenon
<1>12. (u.status \in {"success", "partial"} => Seen("reported")') /\ (Seen("reported")' => u.status # "none")
  BY <1>5, <1>6, <1>7, <1>8, <1>9, <1>10
<1>13. Seen("scored")' => u.universe = Size
  BY <1>5, <1>7, <1>8, <1>9
<1>14. u.scored # 0 => \E i \in 1..Len(events) : events[i] = Own("scored", u.scored)
  <2>1. CASE e.own /\ e.kind = "scored"
    <3>1. e = Own("scored", u.scored) /\ n \in 1..Len(events)
      BY <1>4, <1>5, <2>1, TrackedSees DEF Own, Note
    <3> QED BY <1>1, <3>1
  <2>2. CASE ~(e.own /\ e.kind = "scored")
    <3>1. u.scored = t.scored
      BY <1>5, <1>7, <2>2
    <3> QED BY <1>2, <3>1 DEF BatchRunInv, TrackerInv
  <2> QED BY <2>1, <2>2
<1>15. u.status = "success" => \E i \in 1..Len(events) : events[i] = Own("scored", Size)
  <2>1. CASE u.status = "success" /\ t.status # "success"
    <3>1. t.universe = Size /\ t.universe <= t.scored
      BY <1>5, <1>6, <1>7, <1>8, <1>9, <2>1
    <3>2. t.scored = Size /\ t.scored # 0
      BY <1>4, <3>1, BatchAssumption DEF Tracked
    <3> QED BY <1>2, <3>2 DEF BatchRunInv, TrackerInv
  <2>2. CASE t.status = "success"
    BY <1>2, <2>2 DEF BatchRunInv, TrackerInv
  <2> QED BY <2>1, <2>2
<1>16. TrackerInv'
  BY <1>6, <1>11, <1>12, <1>13, <1>14, <1>15 DEF TrackerInv
<1>17. t.status # "none" => u.status # "none"
  BY <1>5, <1>6, <1>7
<1>18. Onward("batch", e.kind) /\ e.own => u.status # "none"
  <2>1. Onward("batch", e.kind) => e.kind \in {"reported", "failed", "no_data"}
    BY DEF Onward
  <2> QED BY <1>5, <1>6, <2>1
<1> QED BY <1>1, <1>2, <1>5, <1>6, <1>16, <1>17, <1>18

LEMMA HandleTrackedKeeps ==
  ASSUME BatchRunInv, HandleTracked
  PROVE  BatchRunInv'
<1>1. PICK n : n = NextFor("batch")
  OBVIOUS
<1>2. /\ "batch" \in Name /\ Through("batch") /\ tracked' = Track(events[n])
      /\ UNCHANGED <<events, unsent, died, silent, faults>>
  BY <1>1, Consumers DEF HandleTracked
<1>3. <<>> \in Seq(Note) /\ \A i \in 1..Len(<<>>) : FALSE
  OBVIOUS
<1>4. Sends("batch", n, <<>>)
  <2>1. events' = events \o <<>>
    BY <1>2, BatchTypes, ConcatEmptySeq DEF BatchRunInv
  <2> QED BY <1>1, <1>2, <1>3, <2>1, ThroughIs
<1>5. OutboxesInv'
  <2>1. PICK w : w = unsent["batch"]
    OBVIOUS
  <2>2. w \in Seq(Note) /\ unsent' = [unsent EXCEPT !["batch"] = w]
    BY <1>2, <2>1, BatchTypes DEF BatchRunInv, BatchTypeOK
  <2>3. \A i \in 1..Len(w) : MaySend("batch", w[i])
    BY <1>2, <2>1 DEF BatchRunInv, OrderInv
  <2> QED BY <1>2, <1>4, <2>2, <2>3, OutboxStays
<1>6. /\ tracked' \in Tracked /\ TrackerInv'
      /\ tracked.status # "none" => tracked'.status # "none"
      /\ Onward("batch", events[n].kind) /\ events[n].own => tracked'.status # "none"
  BY <1>2, <1>4, TrackerStays
<1>7. ChainInv'
  BY <1>2, <1>4, <1>6, ChainStays
<1>8. HeardInv'
  BY <1>2 DEF HeardInv, Has, BatchRunInv
<1>9. died' \in BOOLEAN /\ silent' \in BOOLEAN /\ faults' \in 0..MaxFaults
  BY <1>2 DEF BatchRunInv, BatchTypeOK
<1> QED BY <1>2, <1>4, <1>5, <1>6, <1>7, <1>8, <1>9, StepKeeps

------------------------------------------------------------------------------
(* main.py.                                                                  *)

LEMMA StreamStays ==
  ASSUME BatchRunInv, UNCHANGED <<events, taken, unsent, tracked, died, silent>>
  PROVE  /\ OrderInv' /\ TrackerInv' /\ ChainInv' /\ HeardInv'
         /\ \A c : For(c)' = For(c)
         /\ \A kind : Has(kind)' <=> Has(kind)
<1>1. \A c : For(c)' = For(c)
  BY DEF For
<1>2. \A kind : (Has(kind)' <=> Has(kind)) /\ (Seen(kind)' <=> Seen(kind))
  BY DEF Has, Seen, OfRun
<1>3. OrderInv'
  BY <1>2 DEF BatchRunInv, OrderInv, OfRun, MaySend
<1>4. TrackerInv'
  BY <1>2 DEF BatchRunInv, TrackerInv, HasFailed
<1>5. ChainInv'
  BY <1>1, <1>2 DEF BatchRunInv, ChainInv
<1>6. HeardInv'
  BY <1>2 DEF BatchRunInv, HeardInv
<1> QED BY <1>1, <1>2, <1>3, <1>4, <1>5, <1>6

LEMMA BusStays ==
  ASSUME BatchRunInv, UnchangedBus
  PROVE  /\ OrderInv' /\ TrackerInv' /\ ChainInv' /\ HeardInv'
         /\ \A c : For(c)' = For(c) /\ Quiet(c)' = Quiet(c)
         /\ \A kind : Has(kind)' <=> Has(kind)
<1>1. UNCHANGED <<transport, events, taken, working, unsent, tracked, died, silent>>
  BY DEF UnchangedBus
<1> QED BY <1>1, StreamStays DEF Quiet

LEMMA TakeNextKeeps ==
  ASSUME BatchRunInv, NEW c \in Name, TakeNext(c)
  PROVE  BatchRunInv'
<1>1. /\ stage \in {"chain", "settle"} /\ c \notin working /\ For(c) # {}
      /\ working' = working \cup {c}
      /\ UNCHANGED <<transport, events, taken, unsent, tracked, died, silent, gaveUp, stage, looks,
                     alarmed, exit, faults>>
  BY DEF TakeNext
<1>2. /\ OrderInv' /\ TrackerInv' /\ ChainInv' /\ HeardInv'
      /\ \A d : For(d)' = For(d)
      /\ \A kind : Has(kind)' <=> Has(kind)
  BY <1>1, StreamStays
<1>3. BatchTypeOK'
  BY <1>1 DEF BatchRunInv, BatchTypeOK
<1>4. WorkInv'
  BY <1>1, <1>2 DEF BatchRunInv, WorkInv
<1>5. QuietInv'
  <2>1. \A d : Quiet(d) => Quiet(d)'
    BY <1>1, <1>2 DEF Quiet
  <2> QED BY <1>1, <2>1 DEF BatchRunInv, QuietInv
<1>6. OutcomeInv'
  BY <1>1 DEF OutcomeInv
<1> QED BY <1>2, <1>3, <1>4, <1>5, <1>6 DEF BatchRunInv

LEMMA StartChainKeeps ==
  ASSUME BatchRunInv, StartChain
  PROVE  BatchRunInv'
<1>1. PICK x : x = Own("requested", 0)
  OBVIOUS
<1>2. x \in Note /\ x.own /\ x.kind = "requested"
  BY <1>1, BatchAssumption DEF Own, Note, Kind
<1>3. /\ stage = "start" /\ stage' = "chain" /\ events' = events \o <<x>>
      /\ UNCHANGED <<transport, taken, working, unsent, tracked, died, silent, gaveUp, looks, alarmed,
                     exit, faults>>
  <2>1. Append(events, x) = events \o <<x>>
    BY <1>2, BatchTypes, AppendIsConcat DEF BatchRunInv
  <2> QED BY <1>1, <2>1 DEF StartChain, Main
<1>4. <<x>> \in Seq(Note) /\ Len(<<x>>) = 1 /\ <<x>>[1] = x
  BY <1>2
<1>5. /\ events' \in Seq(Note) /\ Len(events') = Len(events) + 1 /\ Len(events) \in Nat
      /\ \A i \in 1..Len(events) : i \in 1..Len(events') /\ events'[i] = events[i]
      /\ Len(events) + 1 \in 1..Len(events') /\ events'[Len(events) + 1] = x
      /\ \A i \in 1..Len(events') : i \in 1..Len(events) \/ i = Len(events) + 1
  BY <1>3, <1>4, BatchTypes, EventsGrow DEF BatchRunInv
<1>6. /\ working = {} /\ looks = 0 /\ tracked.status = "none"
      /\ \A i \in 1..Len(events) : ~events[i].own
  BY <1>3 DEF BatchRunInv, WorkInv
<1>7. \A kind : Has(kind) => Has(kind)'
  BY <1>5 DEF Has
<1>8. /\ taken \in [Name -> 0..Len(events)] /\ "batch" \in Name /\ "market-data" \in Name
      /\ taken["batch"] \in 0..Len(events) /\ taken["market-data"] \in 0..Len(events)
  BY Consumers DEF BatchRunInv, BatchTypeOK
<1>9. \A kind : Seen(kind)' <=> Seen(kind)
  <2>1. \A i \in 1..taken["batch"] : i \in 1..Len(events)
    BY <1>5, <1>8
  <2> QED BY <1>3, <1>5, <2>1 DEF Seen, OfRun
<1>10. BatchTypeOK'
  <2>1. 0..Len(events) \subseteq 0..Len(events')
    BY <1>5
  <2>2. taken' \in [Name -> 0..Len(events')]
    BY <1>3, <1>8, <2>1
  <2> QED BY <1>3, <1>5, <2>2 DEF BatchRunInv, BatchTypeOK
<1>11. OrderInv'
  <2>1. \A i \in 1..Len(events') : ~(events'[i].own /\ events'[i].kind = "reported")
    BY <1>2, <1>5, <1>6
  <2>2. \A c \in Name : \A i \in 1..Len(unsent'[c]) :
          /\ unsent'[c][i].kind \in Emits[c]
          /\ unsent'[c][i].own /\ unsent'[c][i].kind = "reported" => Has("scored")'
    BY <1>3, <1>7 DEF BatchRunInv, OrderInv, MaySend
  <2> QED BY <2>1, <2>2 DEF OrderInv, OfRun, MaySend
<1>12. WorkInv'
  BY <1>3, <1>6 DEF WorkInv
<1>13. TrackerInv'
  BY <1>3, <1>5, <1>9 DEF BatchRunInv, TrackerInv, HasFailed
<1>14. ChainInv'
  <2>1. PICK k : k = Len(events) + 1
    OBVIOUS
  <2>2. k \in 1..Len(events') /\ k > taken'["market-data"] /\ events'[k] = x
    BY <1>3, <1>5, <1>8, <2>1
  <2>3. k \in For("market-data")'
    BY <1>2, <2>2, Consumers DEF For
  <2> QED BY <1>2, <1>8, <2>2, <2>3 DEF ChainInv, Onward
<1>15. QuietInv' /\ OutcomeInv'
  BY <1>3 DEF QuietInv, OutcomeInv
<1>16. HeardInv'
  BY <1>3, <1>7 DEF BatchRunInv, HeardInv
<1> QED BY <1>10, <1>11, <1>12, <1>13, <1>14, <1>15, <1>16 DEF BatchRunInv

LEMMA StartFailsKeeps ==
  ASSUME BatchRunInv, StartFails
  PROVE  BatchRunInv'
<1>1. /\ stage = "start" /\ stage' = "end" /\ Fault /\ alarmed' = TRUE /\ exit' \in {1, 4}
      /\ UnchangedBus /\ UNCHANGED <<gaveUp, looks>>
  BY DEF StartFails, Main
<1>2. /\ OrderInv' /\ TrackerInv' /\ ChainInv' /\ HeardInv'
      /\ \A kind : Has(kind)' <=> Has(kind)
  BY <1>1, BusStays
<1>3. ~Has("requested") /\ working = {}
  BY <1>1 DEF BatchRunInv, WorkInv, Has
<1>4. BatchTypeOK'
  <2>1. faults' \in 0..MaxFaults
    BY <1>1, FaultsAssumption DEF Fault, BatchRunInv, BatchTypeOK
  <2> QED BY <1>1, <2>1 DEF BatchRunInv, BatchTypeOK, UnchangedBus
<1>5. WorkInv' /\ QuietInv' /\ OutcomeInv'
  BY <1>1, <1>2, <1>3 DEF WorkInv, QuietInv, OutcomeInv, UnchangedBus
<1> QED BY <1>2, <1>4, <1>5 DEF BatchRunInv

LEMMA ChainEndsKeeps ==
  ASSUME BatchRunInv, ChainEnds
  PROVE  BatchRunInv'
<1>1. UnchangedBus /\ UNCHANGED <<gaveUp, looks, alarmed, exit, faults>>
  BY DEF ChainEnds
<1>2. /\ OrderInv' /\ TrackerInv' /\ ChainInv' /\ HeardInv'
      /\ \A c : For(c)' = For(c) /\ Quiet(c)' = Quiet(c)
      /\ \A kind : Has(kind)' <=> Has(kind)
  BY <1>1, BusStays
<1>3. stage = "chain" /\ looks = 0
  BY DEF BatchRunInv, WorkInv, ChainEnds, Main
<1>4. \/ stage' = "close" /\ working = {} /\ \A c \in Name : For(c) = {}
      \/ stage' = "settle" /\ tracked.status # "none"
  BY DEF ChainEnds, Main
<1>5. BatchTypeOK'
  BY <1>1, <1>4 DEF BatchRunInv, BatchTypeOK, UnchangedBus
<1>6. WorkInv'
  BY <1>1, <1>2, <1>4 DEF BatchRunInv, WorkInv, UnchangedBus
<1>7. QuietInv'
  <2>1. CASE stage' = "close" /\ working = {} /\ \A c \in Name : For(c) = {}
    <3>1. \A c \in Name : Quiet(c)
      BY <2>1 DEF Quiet
    <3>2. Has("requested") => tracked.status # "none"
      BY <2>1 DEF BatchRunInv, ChainInv
    <3> QED BY <1>1, <1>2, <2>1, <3>1, <3>2 DEF QuietInv, UnchangedBus
  <2>2. CASE stage' = "settle" /\ tracked.status # "none"
    BY <1>1, <1>3, <2>2 DEF QuietInv, UnchangedBus
  <2> QED BY <1>4, <2>1, <2>2
<1>8. OutcomeInv'
  BY <1>4 DEF OutcomeInv
<1> QED BY <1>2, <1>5, <1>6, <1>7, <1>8 DEF BatchRunInv

LEMMA LookKeeps ==
  ASSUME BatchRunInv, Look
  PROVE  BatchRunInv'
<1>1. PICK c : c = Wired[(looks % 4) + 1]
  OBVIOUS
<1>2. PICK n : n = IF Quiet(c) THEN looks + 1 ELSE 0
  OBVIOUS
<1>3. /\ stage = "settle" /\ looks' = n /\ stage' = IF n = 8 THEN "close" ELSE "settle"
      /\ UnchangedBus /\ UNCHANGED <<gaveUp, alarmed, exit, faults>>
  BY <1>1, <1>2 DEF Look
<1>4. /\ OrderInv' /\ TrackerInv' /\ ChainInv' /\ HeardInv'
      /\ \A d : For(d)' = For(d) /\ Quiet(d)' = Quiet(d)
      /\ \A kind : Has(kind)' <=> Has(kind)
  BY <1>3, BusStays
<1>5. /\ looks \in 0..7 /\ tracked.status # "none"
      /\ \A i \in 1..4 : i <= looks => Quiet(Wired[i])
  <2>1. looks \in 0..8
    BY DEF BatchRunInv, BatchTypeOK
  <2> QED BY <1>3, <2>1 DEF BatchRunInv, QuietInv
<1>6. n \in 0..8
  BY <1>2, <1>5
<1>7. \A i \in 1..4 : i <= n => Quiet(Wired[i])
  <2>1. SUFFICES ASSUME NEW i \in 1..4, i <= n PROVE Quiet(Wired[i])
    OBVIOUS
  <2>2. Quiet(c) /\ n = looks + 1
    BY <1>2, <2>1
  <2>3. CASE i <= looks
    BY <1>5, <2>3
  <2>4. CASE ~(i <= looks)
    <3>1. i = looks + 1 /\ looks \in 0..3
      BY <1>5, <2>1, <2>2, <2>4
    <3>2. looks % 4 = looks
      BY <3>1
    <3> QED BY <1>1, <2>2, <3>1, <3>2
  <2> QED BY <2>3, <2>4
<1>8. BatchTypeOK'
  BY <1>3, <1>6 DEF BatchRunInv, BatchTypeOK, UnchangedBus
<1>9. WorkInv'
  BY <1>3, <1>4 DEF BatchRunInv, WorkInv, UnchangedBus
<1>10. QuietInv'
  <2>1. n = 8 => \A d \in Name : Quiet(d)
    BY <1>7, Behind
  <2>2. n # 8 => n < 8
    BY <1>6
  <2> QED BY <1>3, <1>4, <1>5, <1>7, <2>1, <2>2 DEF QuietInv, UnchangedBus
<1>11. OutcomeInv'
  BY <1>3 DEF OutcomeInv
<1> QED BY <1>4, <1>8, <1>9, <1>10, <1>11 DEF BatchRunInv

LEMMA GiveUpKeeps ==
  ASSUME BatchRunInv, GiveUp
  PROVE  BatchRunInv'
<1>1. /\ stage' = "close" /\ gaveUp' = TRUE
      /\ UnchangedBus /\ UNCHANGED <<looks, alarmed, exit, faults>>
  BY DEF GiveUp
<1>2. /\ OrderInv' /\ TrackerInv' /\ ChainInv' /\ HeardInv'
      /\ \A c : For(c)' = For(c)
  BY <1>1, BusStays
<1>3. BatchTypeOK'
  BY <1>1 DEF BatchRunInv, BatchTypeOK, UnchangedBus
<1>4. WorkInv' /\ QuietInv' /\ OutcomeInv'
  BY <1>1, <1>2 DEF BatchRunInv, WorkInv, QuietInv, OutcomeInv, UnchangedBus
<1> QED BY <1>2, <1>3, <1>4 DEF BatchRunInv

LEMMA MainFailsKeeps ==
  ASSUME BatchRunInv, MainFails
  PROVE  BatchRunInv'
<1>1. /\ stage' = "abort" /\ gaveUp' = TRUE /\ Fault
      /\ UnchangedBus /\ UNCHANGED <<looks, alarmed, exit>>
  BY DEF MainFails
<1>2. /\ OrderInv' /\ TrackerInv' /\ ChainInv' /\ HeardInv'
      /\ \A c : For(c)' = For(c)
  BY <1>1, BusStays
<1>3. BatchTypeOK'
  <2>1. faults' \in 0..MaxFaults
    BY <1>1, FaultsAssumption DEF Fault, BatchRunInv, BatchTypeOK
  <2> QED BY <1>1, <2>1 DEF BatchRunInv, BatchTypeOK, UnchangedBus
<1>4. WorkInv' /\ QuietInv' /\ OutcomeInv'
  BY <1>1, <1>2 DEF BatchRunInv, WorkInv, QuietInv, OutcomeInv, UnchangedBus
<1> QED BY <1>2, <1>3, <1>4 DEF BatchRunInv

\* Closed, the bus has no handler running; if it had one, the wait for it was given up.
LEMMA CloseBusStays ==
  ASSUME BatchRunInv, CloseBus
  PROVE  /\ OrderInv' /\ TrackerInv' /\ ChainInv' /\ HeardInv'
         /\ working' = {} /\ gaveUp' \in BOOLEAN
         /\ gaveUp => gaveUp'
         /\ ~gaveUp' => \A c : Quiet(c)' = Quiet(c)
         /\ \A kind : Has(kind)' <=> Has(kind)
         /\ UNCHANGED <<transport, events, taken, unsent, tracked, died, silent, looks, faults>>
<1>1. /\ UNCHANGED <<transport, events, taken, unsent, tracked, died, silent, looks, faults>>
      /\ (working = {} /\ UNCHANGED <<working, gaveUp>>) \/ (working' = {} /\ gaveUp' = TRUE)
  BY DEF CloseBus
<1>2. /\ OrderInv' /\ TrackerInv' /\ ChainInv' /\ HeardInv'
      /\ \A c : For(c)' = For(c)
      /\ \A kind : Has(kind)' <=> Has(kind)
  BY <1>1, StreamStays
<1>3. gaveUp \in BOOLEAN
  BY DEF BatchRunInv, BatchTypeOK
<1>4. CASE working = {} /\ UNCHANGED <<working, gaveUp>>
  BY <1>1, <1>2, <1>3, <1>4 DEF Quiet
<1>5. CASE working' = {} /\ gaveUp' = TRUE
  BY <1>1, <1>2, <1>5
<1> QED BY <1>1, <1>4, <1>5

LEMMA FinishRunKeeps ==
  ASSUME BatchRunInv, FinishRun
  PROVE  BatchRunInv'
<1>1. PICK w : w = tracked.status
  OBVIOUS
<1>2. /\ stage = "close" /\ stage' = "end" /\ CloseBus
      /\ exit' = CASE w \in {"success", "partial"} -> 0 [] w = "no_data" -> 3 [] OTHER -> 1
      /\ alarmed' = (w = "none")
  BY <1>1 DEF FinishRun, Main
<1>3. /\ OrderInv' /\ TrackerInv' /\ ChainInv' /\ HeardInv'
      /\ working' = {} /\ gaveUp' \in BOOLEAN
      /\ gaveUp => gaveUp'
      /\ ~gaveUp' => \A c : Quiet(c)' = Quiet(c)
      /\ \A kind : Has(kind)' <=> Has(kind)
      /\ UNCHANGED <<transport, events, taken, unsent, tracked, died, silent, looks, faults>>
  BY <1>2, CloseBusStays
<1>4. w \in {"none", "success", "partial", "no_data", "failed"}
  BY <1>1, BatchTypes DEF BatchRunInv
<1>5. exit' \in {0, 1, 3} /\ (exit' = 0 <=> w \in {"success", "partial"})
  BY <1>2, <1>4
<1>6. alarmed' \in BOOLEAN /\ (w = "none" => alarmed')
  BY <1>2, Zenon
<1>7. BatchTypeOK'
  BY <1>2, <1>3, <1>5, <1>6 DEF BatchRunInv, BatchTypeOK
<1>8. WorkInv'
  BY <1>2, <1>3 DEF WorkInv
<1>9. QuietInv'
  BY <1>2, <1>3 DEF BatchRunInv, QuietInv
<1>10. OutcomeInv'
  <2>1. tracked'.status = w
    BY <1>1, <1>3
  <2>2. w \in {"no_data", "failed"} => HasFailed'
    BY <2>1 DEF HasFailed
  <2>3. exit' # 0 => alarmed' \/ HasFailed'
    BY <1>4, <1>5, <1>6, <2>2
  <2> QED BY <1>5, <2>1, <2>3 DEF OutcomeInv
<1> QED BY <1>3, <1>7, <1>8, <1>9, <1>10 DEF BatchRunInv

LEMMA FinishAbortedKeeps ==
  ASSUME BatchRunInv, FinishAborted
  PROVE  BatchRunInv'
<1>1. stage = "abort" /\ stage' = "end" /\ CloseBus /\ exit' = 1 /\ alarmed' = TRUE
  BY DEF FinishAborted, Main
<1>2. /\ OrderInv' /\ TrackerInv' /\ ChainInv' /\ HeardInv'
      /\ working' = {} /\ gaveUp' \in BOOLEAN
      /\ gaveUp => gaveUp'
      /\ UNCHANGED <<transport, events, taken, unsent, tracked, died, silent, looks, faults>>
  BY <1>1, CloseBusStays
<1>3. gaveUp'
  BY <1>1, <1>2 DEF BatchRunInv, QuietInv
<1>4. BatchTypeOK'
  BY <1>1, <1>2 DEF BatchRunInv, BatchTypeOK
<1>5. WorkInv' /\ QuietInv' /\ OutcomeInv'
  BY <1>1, <1>2, <1>3 DEF WorkInv, QuietInv, OutcomeInv
<1> QED BY <1>2, <1>4, <1>5 DEF BatchRunInv

------------------------------------------------------------------------------
LEMMA BatchInitInv == BatchInit => BatchRunInv
<1> SUFFICES ASSUME BatchInit PROVE BatchRunInv
  OBVIOUS
<1>1. /\ transport \in {"in_process", "nats"} /\ taken = [c \in Name |-> 0] /\ working = {}
      /\ unsent = [c \in Name |-> <<>>]
      /\ tracked = [universe |-> 0, scored |-> 0, status |-> "none"]
      /\ died = FALSE /\ silent = FALSE /\ gaveUp = FALSE /\ stage = "start" /\ looks = 0
      /\ alarmed = FALSE /\ exit = -1 /\ faults = 0
  BY DEF BatchInit
<1>2. /\ events \in Seq(Note) /\ Len(events) \in Nat
      /\ \A i \in 1..Len(events) : ~events[i].own
  <2>1. CASE events = <<>>
    BY <2>1
  <2>2. CASE events # <<>>
    <3>1. PICK k \in OtherRuns : events = <<[own |-> FALSE, kind |-> k, scored |-> 0]>>
      BY <2>2 DEF BatchInit
    <3>2. PICK x : x = [own |-> FALSE, kind |-> k, scored |-> 0]
      OBVIOUS
    <3>3. x \in Note /\ ~x.own
      BY <3>2, BatchAssumption DEF Note
    <3> QED BY <3>1, <3>2, <3>3
  <2> QED BY <2>1, <2>2
<1>3. /\ 0 \in 0..Size /\ 0 \in 0..Len(events) /\ 0 \in 0..MaxFaults /\ "batch" \in Name
  BY <1>2, BatchAssumption, FaultsAssumption, Consumers
<1>4. tracked \in Tracked
  BY <1>1, <1>3 DEF Tracked
<1>5. BatchTypeOK
  <2>1. taken \in [Name -> 0..Len(events)]
    BY <1>1, <1>3
  <2>2. unsent \in [Name -> Seq(Note)]
    <3>1. <<>> \in Seq(Note)
      OBVIOUS
    <3> QED BY <1>1, <3>1
  <2>3. {died, silent, gaveUp, alarmed} \subseteq BOOLEAN
    BY <1>1
  <2>4. working \subseteq Name /\ stage \in {"start", "chain", "settle", "close", "abort", "end"}
        /\ looks \in 0..8 /\ exit \in {-1, 0, 1, 3, 4} /\ faults \in 0..MaxFaults
    BY <1>1, <1>3
  <2> QED BY <1>1, <1>2, <1>4, <2>1, <2>2, <2>3, <2>4 DEF BatchTypeOK, Tracked
<1>6. OrderInv
  <2>1. \A c \in Name : \A i \in 1..Len(unsent[c]) : FALSE
    BY <1>1
  <2> QED BY <1>2, <2>1 DEF OrderInv, OfRun
<1>7. \A kind : ~Seen(kind) /\ ~Has(kind)
  BY <1>1, <1>2, <1>3 DEF Seen, Has
<1>8. TrackerInv
  BY <1>1, <1>7, Zenon DEF TrackerInv, HasFailed
<1> QED BY <1>1, <1>2, <1>5, <1>6, <1>7, <1>8
     DEF BatchRunInv, WorkInv, ChainInv, QuietInv, HeardInv, OutcomeInv

LEMMA BatchNextInv == BatchRunInv /\ [BatchNext]_batchVars => BatchRunInv'
<1> SUFFICES ASSUME BatchRunInv, [BatchNext]_batchVars PROVE BatchRunInv'
  OBVIOUS
<1>1. CASE \E c \in Name : TakeNext(c) \/ Handle(c) \/ HandleFails(c)
  BY <1>1, TakeNextKeeps, HandleKeeps, HandleFailsKeeps
<1>2. CASE HandleTracked
  BY <1>2, HandleTrackedKeeps
<1>3. CASE StartChain \/ StartFails \/ ChainEnds
  BY <1>3, StartChainKeeps, StartFailsKeeps, ChainEndsKeeps
<1>4. CASE Look \/ GiveUp \/ MainFails \/ FinishRun \/ FinishAborted
  BY <1>4, LookKeeps, GiveUpKeeps, MainFailsKeeps, FinishRunKeeps, FinishAbortedKeeps
<1>5. CASE UNCHANGED batchVars
  <2>1. UnchangedBus /\ UNCHANGED <<gaveUp, stage, looks, alarmed, exit, faults>>
    BY <1>5 DEF batchVars, batchState, UnchangedBus
  <2>2. /\ OrderInv' /\ TrackerInv' /\ ChainInv' /\ HeardInv'
        /\ \A c : For(c)' = For(c) /\ Quiet(c)' = Quiet(c)
        /\ \A kind : Has(kind)' <=> Has(kind)
    BY <2>1, BusStays
  <2>3. BatchTypeOK'
    BY <2>1 DEF BatchRunInv, BatchTypeOK, UnchangedBus
  <2>4. WorkInv' /\ QuietInv' /\ OutcomeInv'
    BY <2>1, <2>2 DEF BatchRunInv, WorkInv, QuietInv, OutcomeInv, UnchangedBus, HasFailed
  <2> QED BY <2>2, <2>3, <2>4 DEF BatchRunInv
<1> QED BY <1>1, <1>2, <1>3, <1>4, <1>5 DEF BatchNext

\* The process and the stream stay in step: each action keeps the invariant.
THEOREM BatchInvariant == BatchSpec => []BatchRunInv
BY BatchInitInv, BatchNextInv, PTL DEF BatchSpec

\* Once the process is at its end the tracker has seen all the run has sent.
LEMMA EndIs == BatchRunInv => EndIsTrue
<1> SUFFICES ASSUME BatchRunInv PROVE EndIsTrue
  OBVIOUS
<1>1. \A kind : Seen(kind) => Has(kind)
  <2>1. taken["batch"] \in 0..Len(events) /\ Len(events) \in Nat
    BY Consumers, BatchTypes DEF BatchRunInv
  <2>2. \A i \in 1..taken["batch"] : i \in 1..Len(events)
    BY <2>1
  <2> QED BY <2>2 DEF Seen, Has, OfRun
<1>2. ExitIsTrue
  <2>1. SUFFICES ASSUME stage = "end", Has("requested"), ~gaveUp
                 PROVE  /\ exit = 0 <=> Has("reported") /\ ~Has("failed") /\ ~Has("no_data") /\ ~died
                        /\ tracked.status # "none"
                        /\ tracked.status = "success" => \E i \in 1..Len(events) : events[i] = Own("scored", Size)
    BY DEF ExitIsTrue
  <2>2. tracked.status # "none" /\ For("batch") = {}
    BY <2>1, Consumers DEF BatchRunInv, QuietInv, Quiet
  <2>3. \A kind \in {"reported", "failed", "no_data"} : Has(kind) <=> Seen(kind)
    <3>1. SUFFICES ASSUME NEW kind \in {"reported", "failed", "no_data"}, Has(kind) PROVE Seen(kind)
      BY <1>1
    <3>2. PICK i \in 1..Len(events) : events[i].own /\ events[i].kind = kind
      BY <3>1 DEF Has
    <3>3. ~(i > taken["batch"])
      BY <2>2, <3>2, Consumers DEF For
    <3>4. i \in 1..taken["batch"]
      BY <3>3, Consumers, BatchTypes DEF BatchRunInv
    <3> QED BY <3>2, <3>4 DEF Seen, OfRun
  <2>4. exit = 0 <=> tracked.status \in {"success", "partial"}
    BY <2>1 DEF BatchRunInv, OutcomeInv
  <2>5. tracked.status \in {"success", "partial"} <=> ~HasFailed
    BY <2>2, BatchTypes DEF BatchRunInv, HasFailed
  <2>6. /\ HasFailed <=> died \/ Seen("failed") \/ Seen("no_data")
        /\ tracked.status \in {"success", "partial"} => Seen("reported")
        /\ tracked.status = "success" => \E i \in 1..Len(events) : events[i] = Own("scored", Size)
    BY DEF BatchRunInv, TrackerInv
  <2> QED BY <2>2, <2>3, <2>4, <2>5, <2>6
<1>3. FailureIsHeard
  BY <1>1 DEF BatchRunInv, OutcomeInv, TrackerInv, HeardInv, FailureIsHeard
<1> QED BY <1>2, <1>3 DEF EndIsTrue

\* Whatever the transport and the faults: unless a wait was given up, NATS was lost or a
\* handler cut off, the exit code of the batch is the end the stream shows; and no failure
\* passes unheard but a dead letter that NATS refuses to tell of or that is of another run.
THEOREM EndTrue == BatchSpec => []EndIsTrue
BY BatchInvariant, EndIs, PTL
===============================================================================
