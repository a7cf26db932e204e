----------------------------- MODULE AuthService -----------------------------
(***************************************************************************)
(* Login, refresh-token rotation and login rate limiting:                  *)
(* backend/services/auth_service.py on top of redis_service.py.            *)
(*                                                                         *)
(* The routes are plain functions that FastAPI runs in a pool of threads,  *)
(* so requests interleave at every call to Redis, and a call that raises   *)
(* falls back to a dictionary of the process, for that one call.  A token  *)
(* is named by the request that issues it (its jti is a fresh UUID).  The  *)
(* expiry of tokens, after days, is beyond what the model looks at.        *)
(***************************************************************************)
EXTENDS Naturals, FiniteSets

CONSTANTS Users,        \* accounts, each with its tenant; also the rate-limit keys
          Logins,       \* POST /auth/login requests; bounds their number
          Refreshes,    \* POST /auth/refresh requests; bounds their number
          NoUser,       \* the account of a request that has not arrived
          NoToken,      \* the token of a refresh that has not arrived
          MaxAttempts,  \* login attempts per window (10 in the code)
          Faults        \* a Redis call raises, Redis loses its data, the API crashes

ASSUME AuthConstants ==
  /\ IsFiniteSet(Logins)
  /\ Logins \cap Refreshes = {}
  /\ NoUser \notin Users
  /\ NoToken \notin Logins \cup Refreshes
  /\ MaxAttempts \in Nat \ {0}
  /\ Faults \subseteq {"outage", "restart", "crash"}

VARIABLES active,    \* accounts whose user and tenant have status "active"
          redis,     \* refresh tokens Redis knows
          memory,    \* refresh tokens in the process's dictionary
          attempts,  \* login attempts counted for each account, in both stores
          login,     \* login requests
          refresh,   \* refresh requests
          happened   \* history: the kinds of faults that have occurred

vars == <<active, redis, memory, attempts, login, refresh, happened>>

Tokens == Logins \cup Refreshes

-----------------------------------------------------------------------------
\* count and expires are the Redis key (no key: 0), local the dictionary's entry.
Attempts == [count: Nat, expires: BOOLEAN, local: Nat]

NoAttempts == [count |-> 0, expires |-> FALSE, local |-> 0]

\* read is what a thread has read from the dictionary and not yet written back.
Login == [phase: {"idle", "first", "fallback", "recount", "admitted", "verified",
                  "done", "limited", "rejected", "lost"},
          user: Users \cup {NoUser}, read: Nat]

Refresh == [phase: {"idle", "valid", "current", "inactive", "revoked",
                    "done", "refused", "lockedout", "lost"},
            user: Users \cup {NoUser}, token: Tokens \cup {NoToken}]

LoginEnded(l) == login[l].phase \in {"idle", "done", "limited", "rejected", "lost"}

RefreshEnded(r) == refresh[r].phase \in {"idle", "done", "refused", "lockedout", "lost"}

\* Mutant of Subject: `payload.get("jti")` where "sub" is meant.
SubjectOfJti(t) == t

\* The account a token was issued to (the sub and tenant_id claims).
Subject(t) == IF t \in Logins THEN login[t].user ELSE refresh[t].user

\* A client holds the token: its request was answered.
Issued(t) ==
  IF t \in Logins THEN login[t].phase = "done" ELSE refresh[t].phase = "done"

\* A Redis call is answered, is not executed, or is executed and not answered.
Outcomes == {"ok"} \cup IF "outage" \in Faults THEN {"failed", "unanswered"} ELSE {}

Executed(outcome) == outcome # "failed"

FallsBack(outcome) == outcome # "ok"

Notice(outcome) ==
  happened' = IF FallsBack(outcome) THEN happened \cup {"outage"} ELSE happened

\* Mutant of Judged: `attempts < max_attempts`.
JudgedStrictly(n) == IF n < MaxAttempts THEN "admitted" ELSE "limited"

\* The phase of a login that was the n-th attempt.
Judged(n) == IF n <= MaxAttempts THEN "admitted" ELSE "limited"

-----------------------------------------------------------------------------
Init ==
  /\ active = Users
  /\ redis = {}
  /\ memory = {}
  /\ attempts = [u \in Users |-> NoAttempts]
  /\ login = [l \in Logins |-> [phase |-> "idle", user |-> NoUser, read |-> 0]]
  /\ refresh = [r \in Refreshes |-> [phase |-> "idle", user |-> NoUser, token |-> NoToken]]
  /\ happened = {}

\* check_rate_limit: INCR, and its answer decides unless the key is new.
IncrAttempts(l, u) ==
  /\ login[l].phase = "idle"
  /\ \E outcome \in Outcomes :
       LET n == attempts[u].count + 1 IN
       /\ Notice(outcome)
       /\ attempts' = IF Executed(outcome)
                      THEN [attempts EXCEPT ![u].count = n] ELSE attempts
       /\ login' = [login EXCEPT ![l].user = u,
            ![l].phase = CASE FallsBack(outcome) -> "fallback"
                           [] ~FallsBack(outcome) /\ n = 1 -> "first"
                           [] OTHER -> Judged(n)]
  /\ UNCHANGED <<active, redis, memory, refresh>>

\* Mutant of ExpireAttempts: the window is never set.
ExpireNever(l) ==
  /\ login[l].phase = "first"
  /\ login' = [login EXCEPT ![l].phase = Judged(1)]
  /\ UNCHANGED <<active, redis, memory, attempts, refresh, happened>>

\* check_rate_limit: EXPIRE, by the login that created the key; a key that is
\* gone again is not created.
ExpireAttempts(l) ==
  LET u == login[l].user IN
  /\ login[l].phase = "first"
  /\ \E outcome \in Outcomes :
       /\ Notice(outcome)
       /\ attempts' = IF Executed(outcome) /\ attempts[u].count > 0
                      THEN [attempts EXCEPT ![u].expires = TRUE] ELSE attempts
       /\ login' = [login EXCEPT
            ![l].phase = IF FallsBack(outcome) THEN "fallback" ELSE Judged(1)]
  /\ UNCHANGED <<active, redis, memory, refresh>>

\* check_rate_limit after an exception: `get(key, 0) + 1` ...
ReadLocal(l) ==
  /\ login[l].phase = "fallback"
  /\ login' = [login EXCEPT ![l].phase = "recount",
                            ![l].read = attempts[login[l].user].local]
  /\ UNCHANGED <<active, redis, memory, attempts, refresh, happened>>

\* ... and the store of the sum, another bytecode: a thread may come in between.
WriteLocal(l) ==
  LET n == login[l].read + 1 IN
  /\ login[l].phase = "recount"
  /\ attempts' = [attempts EXCEPT ![login[l].user].local = n]
  /\ login' = [login EXCEPT ![l].phase = Judged(n)]
  /\ UNCHANGED <<active, redis, memory, refresh, happened>>

\* The account's status and the password are checked; the password may be wrong.
Authenticate(l) ==
  /\ login[l].phase = "admitted"
  /\ \/ /\ login[l].user \in active
        /\ login' = [login EXCEPT ![l].phase = "verified"]
     \/ login' = [login EXCEPT ![l].phase = "rejected"]
  /\ UNCHANGED <<active, redis, memory, attempts, refresh, happened>>

\* Mutant of Store: the key is the account's, not the token's.
StorePerUser(t) ==
  \E outcome \in Outcomes :
    /\ Notice(outcome)
    /\ redis' = IF Executed(outcome)
                THEN {s \in redis : Subject(s) # Subject(t)} \cup {t} ELSE redis
    /\ memory' = IF FallsBack(outcome) THEN memory \cup {t} ELSE memory

\* Mutant of Store: the dictionary gets every token, not only as a fallback.
StoreTwice(t) ==
  \E outcome \in Outcomes :
    /\ Notice(outcome)
    /\ redis' = IF Executed(outcome) THEN redis \cup {t} ELSE redis
    /\ memory' = memory \cup {t}

\* store_refresh_token.
Store(t) ==
  \E outcome \in Outcomes :
    /\ Notice(outcome)
    /\ redis' = IF Executed(outcome) THEN redis \cup {t} ELSE redis
    /\ memory' = IF FallsBack(outcome) THEN memory \cup {t} ELSE memory

FinishLogin(l) ==
  /\ login[l].phase = "verified"
  /\ Store(l)
  /\ login' = [login EXCEPT ![l].phase = "done"]
  /\ UNCHANGED <<active, attempts, refresh>>

-----------------------------------------------------------------------------
\* is_refresh_token_valid, of a token whose JWT decodes.
CheckToken(r, t) ==
  /\ refresh[r].phase = "idle"
  /\ Issued(t)
  /\ \E outcome \in Outcomes :
       /\ Notice(outcome)
       /\ refresh' = [refresh EXCEPT ![r] =
            [phase |-> IF t \in (IF FallsBack(outcome) THEN memory ELSE redis)
                       THEN "valid" ELSE "refused",
             user |-> Subject(t), token |-> t]]
  /\ UNCHANGED <<active, redis, memory, attempts, login>>

CheckStatus(r) ==
  /\ refresh[r].phase = "valid"
  /\ refresh' = [refresh EXCEPT
       ![r].phase = IF refresh[r].user \in active THEN "current" ELSE "inactive"]
  /\ UNCHANGED <<active, redis, memory, attempts, login, happened>>

\* Mutant of Revoke: an inactive account is refused and its token kept.
RevokeOnlyCurrent(r) ==
  /\ refresh[r].phase \in {"current", "inactive"}
  /\ \E outcome \in Outcomes :
       LET kept == Executed(outcome) => refresh[r].phase = "inactive" IN
       /\ Notice(outcome)
       /\ redis' = IF kept THEN redis ELSE redis \ {refresh[r].token}
       /\ memory' = IF FallsBack(outcome) THEN memory \ {refresh[r].token} ELSE memory
  /\ refresh' = [refresh EXCEPT
       ![r].phase = IF @ = "current" THEN "revoked" ELSE "lockedout"]
  /\ UNCHANGED <<active, attempts, login>>

\* revoke_refresh_token: for the rotation, and for an inactive account.
Revoke(r) ==
  /\ refresh[r].phase \in {"current", "inactive"}
  /\ \E outcome \in Outcomes :
       /\ Notice(outcome)
       /\ redis' = IF Executed(outcome) THEN redis \ {refresh[r].token} ELSE redis
       /\ memory' = IF FallsBack(outcome) THEN memory \ {refresh[r].token} ELSE memory
  /\ refresh' = [refresh EXCEPT
       ![r].phase = IF @ = "current" THEN "revoked" ELSE "lockedout"]
  /\ UNCHANGED <<active, attempts, login>>

FinishRefresh(r) ==
  /\ refresh[r].phase = "revoked"
  /\ Store(r)
  /\ refresh' = [refresh EXCEPT ![r].phase = "done"]
  /\ UNCHANGED <<active, attempts, login>>

-----------------------------------------------------------------------------
\* users.status and tenants.status change in the database; no route does it.
ToggleStatus(u) ==
  /\ active' = IF u \in active THEN active \ {u} ELSE active \cup {u}
  /\ UNCHANGED <<redis, memory, attempts, login, refresh, happened>>

\* Redis drops the counter at the end of its window.
WindowEnds(u) ==
  /\ attempts[u].expires
  /\ attempts' = [attempts EXCEPT ![u].count = 0, ![u].expires = FALSE]
  /\ UNCHANGED <<active, redis, memory, login, refresh, happened>>

\* Redis runs without persistence: a restart loses every token and counter.
RedisRestart ==
  /\ "restart" \in Faults
  /\ redis' = {}
  /\ attempts' = [u \in Users |-> [NoAttempts EXCEPT !.local = attempts[u].local]]
  /\ happened' = happened \cup {"restart"}
  /\ UNCHANGED <<active, memory, login, refresh>>

\* The API process dies with its dictionary and the requests it is serving.
Crash ==
  /\ "crash" \in Faults
  /\ memory' = {}
  /\ attempts' = [u \in Users |-> [attempts[u] EXCEPT !.local = 0]]
  /\ login' = [l \in Logins |->
       IF LoginEnded(l) THEN login[l] ELSE [login[l] EXCEPT !.phase = "lost"]]
  /\ refresh' = [r \in Refreshes |->
       IF RefreshEnded(r) THEN refresh[r] ELSE [refresh[r] EXCEPT !.phase = "lost"]]
  /\ happened' = happened \cup {"crash"}
  /\ UNCHANGED <<active, redis>>

LoginStep(l) ==
  \/ ExpireAttempts(l)
  \/ ReadLocal(l)
  \/ WriteLocal(l)
  \/ Authenticate(l)
  \/ FinishLogin(l)

RefreshStep(r) == CheckStatus(r) \/ Revoke(r) \/ FinishRefresh(r)

Next ==
  \/ \E l \in Logins : LoginStep(l) \/ \E u \in Users : IncrAttempts(l, u)
  \/ \E r \in Refreshes : RefreshStep(r) \/ \E t \in Tokens : CheckToken(r, t)
  \/ \E u \in Users : ToggleStatus(u) \/ WindowEnds(u)
  \/ RedisRestart
  \/ Crash

Spec == Init /\ [][Next]_vars

\* A request that is being served goes on unless the process crashes, and Redis
\* ends the windows it was told of.  Nothing makes clients send requests.
FairSpec ==
  /\ Spec
  /\ \A l \in Logins : WF_vars(LoginStep(l))
  /\ \A u \in Users : WF_vars(WindowEnds(u))

-----------------------------------------------------------------------------
(* Properties *)

\* Every variable has its type.
TypeOK ==
  /\ active \subseteq Users
  /\ redis \subseteq Tokens
  /\ memory \subseteq Tokens
  /\ attempts \in [Users -> Attempts]
  /\ login \in [Logins -> Login]
  /\ refresh \in [Refreshes -> Refresh]
  /\ happened \subseteq Faults

\* Refreshes that have been through revoke_refresh_token.
Spenders(t) ==
  {r \in Refreshes : refresh[r].token = t
                     /\ refresh[r].phase \in {"revoked", "done", "lockedout"}}

\* A token that was rotated, or that an inactive account presented, is in no
\* store again: not after a crash, a Redis restart or the account's
\* reactivation, as long as Redis executes the calls it is sent.
SpentStaysSpent ==
  "outage" \notin happened =>
    \A t \in Tokens : Spenders(t) # {} => t \notin redis \cup memory

\* A token that a client was given stays usable, whatever other sessions of the
\* account do, until a refresh revokes it (or a fault loses it).
IssuedTokenWorks ==
  happened \cap {"outage", "restart"} = {} =>
    \A t \in Tokens : Issued(t) /\ t \notin redis =>
      \E r \in Refreshes : refresh[r].token = t
        /\ refresh[r].phase \in {"revoked", "done", "lockedout", "lost"}

\* A login is refused as one too many only if that account really saw
\* MaxAttempts other attempts, whatever was counted twice, lost or started over.
LimitIsEarned ==
  \A l \in Logins : login[l].phase = "limited" =>
    Cardinality({m \in Logins \ {l} : login[m].user = login[l].user}) >= MaxAttempts

\* What makes the three inductive: requests know their account, refreshes hold
\* tokens that were issued, only an outage fills the dictionary, and each counter
\* is at most the number of logins it can have counted.
RequestsKnow ==
  /\ \A l \in Logins : login[l].phase = "idle" <=> login[l].user = NoUser
  /\ \A r \in Refreshes : refresh[r].phase # "idle" =>
       refresh[r].token \in Tokens /\ Issued(refresh[r].token)

OutagesFillMemory == "outage" \notin happened => memory = {}

Arrived(u) == {l \in Logins : login[l].user = u}

Counted(u) ==
  {l \in Arrived(u) : login[l].phase \notin {"first", "fallback", "recount"}}

CountersAreEarned ==
  /\ \A u \in Users : /\ attempts[u].count <= Cardinality(Arrived(u))
                      /\ attempts[u].local <= Cardinality(Counted(u))
  /\ \A l \in Logins : login[l].phase = "recount" =>
       login[l].read <= Cardinality(Counted(login[l].user))

IInv ==
  /\ TypeOK
  /\ RequestsKnow
  /\ OutagesFillMemory
  /\ CountersAreEarned
  /\ SpentStaysSpent
  /\ IssuedTokenWorks
  /\ LimitIsEarned

\* A counter that refuses logins goes away again: the INCR that creates a key is
\* always followed by its EXPIRE, except where a crash or an outage cut in.
LimitLifts ==
  \A u \in Users :
    attempts[u].count > MaxAttempts ~>
      \/ attempts[u].count = 0
      \/ happened \cap {"crash", "outage"} # {}

\* auth_service.py ("atomic rotation") and plan/03 ("rotate it atomically ...
\* and reject replay"): a refresh token is exchanged at most once.
RotationIsAtomic ==
  \A r, s \in Refreshes :
    r # s /\ refresh[r].phase = "done" /\ refresh[s].phase = "done" =>
      refresh[r].token # refresh[s].token
=============================================================================
