------------------------------ MODULE Identity --------------------------------
(***************************************************************************)
(* Accounts, logins and sessions of the web-api.  The tables of the schema *)
(* identity only grow; what counts is the youngest row of an account, the  *)
(* latest seen_at of a session and whether it has a revocation.            *)
(*                                                                         *)
(*   services/web-api/src/va_web_api/identity/{service,domain}.py          *)
(*   services/web-api/src/va_web_api/adapters/postgres/identity_store.py   *)
(*   services/web-api/src/va_web_api/api/{auth,account,admin}.py           *)
(*                                                                         *)
(* Every call of the store is a transaction of its own, so requests of     *)
(* several threads and instances interleave between them.  A request takes *)
(* the time once, when its use case begins.  Passwords are right or wrong. *)
(***************************************************************************)
EXTENDS Naturals, Sequences, FiniteSets

CONSTANTS User, Admin,      \* names of accounts; those with the role admin
          Known,            \* accounts there are at the start
          Open,             \* the users of the sessions opened before the start
          WrongLogins,           \* the wrong logins before the start
          Ip, NoIp,         \* addresses; a failed password change has none
          Idle, Absolute, TouchEvery,   \* SessionPolicy
          MaxFailures, Window,          \* LockoutPolicy
          MaxTime, MaxRequests          \* bounds

ASSUME IdentityAssumption ==
  /\ Known \subseteq User /\ Admin \subseteq Known /\ Open \in Seq(Known) /\ NoIp \notin Ip
  /\ WrongLogins \in Seq([name : User, ip : Ip, at : {0}, reason : {"wrong_password"}])
  /\ {Idle, Absolute, TouchEvery, MaxFailures, Window, MaxTime, MaxRequests} \subseteq Nat
  /\ Idle > 0 /\ TouchEvery > 0 /\ MaxFailures > 0

VARIABLES
  accounts,   \* user_account, status and password of each name
  sessions,   \* in the order they were opened
  logins,     \* login_event, in the order of the ids
  requests,   \* in the order they began
  clock

identityVars == <<accounts, sessions, logins, requests, clock>>

Time == 0..MaxTime
OwnOps == {"view", "change", "revoke_all"}
AdminOps == {"create", "disable", "enable", "reset"}
\* "check": the look at the session of an open WebSocket.
Ops == {"login", "logout", "check"} \cup OwnOps \cup AdminOps

Account == [exists : BOOLEAN, active : BOOLEAN, must : BOOLEAN]
Session == [user : User, created : Time, seen : Time, revoked : BOOLEAN]
LoginEvent == [name : User, ip : Ip \cup {NoIp}, at : Time,
               reason : {"ok", "wrong_password", "unknown_user", "locked", "disabled"}]
\* there: how many sessions had been opened when the request began.
Request == [op : Ops, user : User, ip : Ip \cup {NoIp}, sid : Nat, at : Time, seen : Time, there : Nat,
            step : {"lock", "verify", "open", "log", "find", "accept", "set", "revoke",
                    "done", "refused", "denied"}]

IdentityInit ==
  /\ accounts = [u \in User |-> [exists |-> u \in Known, active |-> TRUE, must |-> FALSE]]
  /\ sessions = [s \in DOMAIN Open |->
                   [user |-> Open[s], created |-> 0, seen |-> 0, revoked |-> FALSE]]
  /\ logins = WrongLogins
  /\ requests = <<>>
  /\ clock = 0

Tick ==
  /\ clock < MaxTime
  /\ clock' = clock + 1
  /\ UNCHANGED <<accounts, sessions, logins, requests>>

------------------------------------------------------------------------------
(* domain.py                                                                 *)

\* SessionPolicy.is_active
IsActive(s, now) ==
  /\ ~sessions[s].revoked
  /\ now < sessions[s].created + Absolute
  /\ now < sessions[s].seen + Idle

NeedsTouch(seen, now) == now >= seen + TouchEvery

Failures_Ever(i, now) ==
  /\ logins[i].reason \in {"wrong_password", "unknown_user"}
  /\ logins[i].at <= now

\* FAILURE_REASONS and LockoutPolicy.since: a refusal is no failure itself.
Failures(i, now) ==
  /\ logins[i].reason \in {"wrong_password", "unknown_user"}
  /\ logins[i].at <= now /\ now <= logins[i].at + Window

\* _FAILURES, for a set of events: those after the last success among them.
FailuresAmong(E, now) ==
  Cardinality({i \in E : Failures(i, now) /\ \A j \in E : logins[j].reason = "ok" /\ logins[j].at <= now => j < i})

\* LockoutPolicy.is_locked: by name, or by address if there is one.
IsLocked(r) ==
  LET now == requests[r].at IN
    \/ FailuresAmong({i \in DOMAIN logins : logins[i].name = requests[r].user}, now) >= MaxFailures
    \/ requests[r].ip # NoIp /\ FailuresAmong({i \in DOMAIN logins : logins[i].ip = requests[r].ip}, now) >= MaxFailures

------------------------------------------------------------------------------
(* Requests.                                                                 *)

Step(r, step) == requests' = [requests EXCEPT ![r].step = step]

\* record_login, and the step after it.
Log(r, reason, step) ==
  /\ logins' = Append(logins, [name |-> requests[r].user, ip |-> requests[r].ip, at |-> requests[r].at,
                               reason |-> reason])
  /\ Step(r, step)

NewRequest(op, u, ip, s, step) ==
  /\ Len(requests) < MaxRequests
  /\ requests' = Append(requests, [op |-> op, user |-> u, ip |-> ip, sid |-> s, at |-> clock, seen |-> 0,
                                   there |-> Len(sessions), step |-> step])
  /\ UNCHANGED <<accounts, sessions, logins, clock>>

\* POST /auth/login
SendLogin(u, ip) == NewRequest("login", u, ip, 0, "lock")

\* Any other request comes with the cookie of a session; user is the account it is
\* about.
SendWithCookie(op, s, u) == NewRequest(op, u, NoIp, s, "find")

SendLogout(s) == SendWithCookie("logout", s, sessions[s].user)
SendCheck(s) == SendWithCookie("check", s, sessions[s].user)
SendOwn(op, s) == SendWithCookie(op, s, sessions[s].user)

\* Only an administrator, and on another account than their own (OwnAccount).
SendAdmin(op, s, u) ==
  /\ sessions[s].user \in Admin
  /\ op # "enable" => u # sessions[s].user
  /\ SendWithCookie(op, s, u)

\* _ensure_not_locked, of a login and of a change of the password.
EnsureNotLocked(r) ==
  /\ requests[r].step = "lock"
  /\ IF IsLocked(r) THEN Log(r, "locked", "refused") ELSE Step(r, "verify") /\ UNCHANGED logins
  /\ UNCHANGED <<accounts, sessions, clock>>

\* find_user, and the check of the password.
VerifyLogin(r) ==
  /\ requests[r].step = "verify" /\ requests[r].op = "login"
  /\ LET a == accounts[requests[r].user] IN
       \/ ~a.exists /\ Log(r, "unknown_user", "refused")
       \/ a.exists /\ Log(r, "wrong_password", "refused")
       \/ a.exists /\ ~a.active /\ Log(r, "disabled", "refused")
       \/ a.exists /\ a.active /\ Step(r, "open") /\ UNCHANGED logins
  /\ UNCHANGED <<accounts, sessions, clock>>

\* get_user, and the check of the old password.
VerifyChange(r) ==
  /\ requests[r].step = "verify" /\ requests[r].op = "change"
  /\ \/ Log(r, "wrong_password", "refused")
     \/ Step(r, "set") /\ UNCHANGED logins
  /\ UNCHANGED <<accounts, sessions, clock>>

\* create_session, in seconds since the login began.
OpenSession(r) ==
  /\ requests[r].step = "open"
  /\ sessions' = Append(sessions, [user |-> requests[r].user, created |-> requests[r].at,
                                   seen |-> requests[r].at, revoked |-> FALSE])
  /\ Step(r, "log")
  /\ UNCHANGED <<accounts, logins, clock>>

LogSuccess(r) ==
  /\ requests[r].step = "log"
  /\ Log(r, "ok", "done")
  /\ UNCHANGED <<accounts, sessions, clock>>

\* authenticate, up to find_session.  A logout only asks whether there is a session.
FindSession(r) ==
  /\ requests[r].step = "find"
  /\ LET q == requests[r] IN
       IF q.op = "logout" THEN Step(r, "revoke")
       ELSE IF IsActive(q.sid, q.at)
              THEN requests' = [requests EXCEPT ![r].step = "accept", ![r].seen = sessions[q.sid].seen]
              ELSE Step(r, "denied")
  /\ UNCHANGED <<accounts, sessions, logins, clock>>

\* What follows authenticate.  What an administrator asks for needs a password of
\* their own (session_admin).
AfterAccept(op, must) ==
  CASE op \in {"view", "check"} -> "done"
    [] op \in AdminOps -> IF must THEN "refused" ELSE "set"
    [] op = "change" -> "lock"
    [] op = "revoke_all" -> "revoke"

\* touch_session: session_seen gets a row, and the latest one counts.
Touch(s, at) ==
  sessions' = IF sessions[s].seen < at THEN [sessions EXCEPT ![s].seen = at] ELSE sessions

\* The rest of authenticate.
Accept(r) ==
  /\ requests[r].step = "accept"
  /\ LET q == requests[r]  a == accounts[sessions[q.sid].user] IN
       IF ~a.active
         THEN Step(r, "denied") /\ UNCHANGED sessions
         ELSE /\ Step(r, AfterAccept(q.op, a.must))
              /\ IF q.op # "check" /\ NeedsTouch(q.seen, q.at) THEN Touch(q.sid, q.at) ELSE UNCHANGED sessions
  /\ UNCHANGED <<accounts, logins, clock>>

SetTo(r, account, step) ==
  /\ accounts' = [accounts EXCEPT ![requests[r].user] = account]
  /\ Step(r, step)
  /\ UNCHANGED <<sessions, logins, clock>>

\* UserExists, from the key of the name, or UnknownUser.
Refuse(r) ==
  /\ requests[r].step = "set"
  /\ (requests[r].op = "create") = accounts[requests[r].user].exists
  /\ Step(r, "refused")
  /\ UNCHANGED <<accounts, sessions, logins, clock>>

CreateAccount(r) ==
  /\ requests[r].step = "set" /\ requests[r].op = "create"
  /\ ~accounts[requests[r].user].exists
  /\ SetTo(r, [exists |-> TRUE, active |-> TRUE, must |-> TRUE], "done")

\* set_active: only a disabling ends sessions.
SetActive(r) ==
  LET a == accounts[requests[r].user] IN
    /\ requests[r].step = "set" /\ a.exists
    /\ \/ requests[r].op = "disable" /\ SetTo(r, [a EXCEPT !.active = FALSE], "revoke")
       \/ requests[r].op = "enable" /\ SetTo(r, [a EXCEPT !.active = TRUE], "done")

\* A reset leaves a password for one login.
SetPassword(r) ==
  LET a == accounts[requests[r].user] IN
    /\ requests[r].step = "set" /\ a.exists /\ requests[r].op \in {"change", "reset"}
    /\ SetTo(r, [a EXCEPT !.must = (requests[r].op = "reset")], "revoke")

Ended_All(q) == {s \in DOMAIN sessions : sessions[s].user = q.user}

\* The sessions a request ends: its own, those of the account, or all but its own.
Ended(q) ==
  IF q.op = "logout" THEN {q.sid}
  ELSE {s \in DOMAIN sessions : sessions[s].user = q.user /\ (q.op = "change" => s # q.sid)}

\* revoke_session, revoke_sessions.
Revoke(r) ==
  /\ requests[r].step = "revoke"
  /\ sessions' = [s \in DOMAIN sessions |->
                    [sessions[s] EXCEPT !.revoked = @ \/ s \in Ended(requests[r])]]
  /\ Step(r, "done")
  /\ UNCHANGED <<accounts, logins, clock>>

------------------------------------------------------------------------------
IdentityNext ==
  \/ Tick
  \/ \E u \in User, ip \in Ip : SendLogin(u, ip)
  \/ \E s \in DOMAIN sessions :
       \/ SendLogout(s) \/ SendCheck(s)
       \/ \E op \in OwnOps : SendOwn(op, s)
       \/ \E op \in AdminOps, u \in User : SendAdmin(op, s, u)
  \/ \E r \in DOMAIN requests :
       \/ EnsureNotLocked(r) \/ VerifyLogin(r) \/ VerifyChange(r) \/ OpenSession(r) \/ LogSuccess(r)
       \/ FindSession(r) \/ Accept(r)
       \/ Refuse(r) \/ CreateAccount(r) \/ SetActive(r) \/ SetPassword(r) \/ Revoke(r)

IdentitySpec == IdentityInit /\ [][IdentityNext]_identityVars

------------------------------------------------------------------------------
(* Properties.                                                               *)

IdentityTypeOK ==
  /\ accounts \in [User -> Account]
  /\ sessions \in Seq(Session)
  /\ logins \in Seq(LoginEvent)
  /\ requests \in Seq(Request)
  /\ clock \in Time

\* Requests in which a user did something, and authenticate is through.
Uses(s) == {r \in DOMAIN requests : /\ requests[r].sid = s /\ requests[r].op \notin {"login", "logout", "check"}
                                    /\ requests[r].step \notin {"find", "accept", "denied"}}
UsedAt(s) == {sessions[s].created} \cup {requests[r].at : r \in Uses(s)}

\* nutzer.md: a session ends 12 h after the last activity and 30 days after the
\* login.  An open tab is no activity.  Though not every request is recorded
\* (TouchEvery), one that is used does not end before Idle - TouchEvery, and
\* overlapping requests that are recorded in another order do not shorten it.
SessionsLast ==
  \A s \in DOMAIN sessions :
    /\ \A r \in Uses(s) : /\ requests[r].at < sessions[s].created + Absolute
                          /\ \E t \in UsedAt(s) :
                               /\ t < requests[r].at \/ t = sessions[s].created
                               /\ requests[r].at < t + Idle
    /\ IsActive(s, clock) => \E t \in UsedAt(s) : clock < t + Idle
    /\ ~sessions[s].revoked /\ clock < sessions[s].created + Absolute =>
         \A t \in UsedAt(s) : clock + TouchEvery <= t + Idle => IsActive(s, clock)

\* When a change of the password, a reset, a disabling or a logout is answered,
\* every session it was to end that was open when it began has ended, whatever
\* ran beside it; and a session nobody asked to end is left alone.
MayEnd(q, s) ==
  \/ q.op = "logout" /\ q.sid = s
  \/ q.op = "change" /\ q.user = sessions[s].user /\ q.sid # s
  \/ q.op \in {"revoke_all", "disable", "reset"} /\ q.user = sessions[s].user

SessionsEnd ==
  /\ \A r \in DOMAIN requests : requests[r].step = "done" =>
       \A s \in 1..requests[r].there : MayEnd(requests[r], s) => sessions[s].revoked
  /\ \A s \in DOMAIN sessions : sessions[s].revoked =>
       \E r \in DOMAIN requests : requests[r].step = "done" /\ MayEnd(requests[r], s)

\* A session is open as long as it should be, and no longer.
SessionsEndAsSet == SessionsLast /\ SessionsEnd

\* Whoever is refused as locked had MaxFailures wrong passwords in the Window
\* before, for this name or from this address: being refused does not prolong
\* the lock, and wrong passwords in a change lock no address.
LockedForReason ==
  \A i \in DOMAIN logins : logins[i].reason = "locked" =>
    \E S \in {{j \in 1..(i - 1) : logins[j].name = logins[i].name},
              {j \in 1..(i - 1) : logins[j].ip = logins[i].ip /\ logins[j].ip # NoIp}} :
      Cardinality({j \in S : /\ logins[j].reason \in {"wrong_password", "unknown_user"}
                             /\ logins[i].at <= logins[j].at + Window}) >= MaxFailures
==============================================================================
