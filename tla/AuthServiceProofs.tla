--------------------------- MODULE AuthServiceProofs ---------------------------
(***************************************************************************)
(* Theorems about AuthService, for any number of accounts, logins and      *)
(* refreshes, any limit and any combination of faults.                     *)
(***************************************************************************)
EXTENDS AuthService, TLAPS, FiniteSetTheorems

-----------------------------------------------------------------------------
(* Types *)

\* A login that moves to another phase keeps its type.
LEMMA LoginPhase ==
  ASSUME TypeOK, NEW l \in Logins,
         NEW p \in {"idle", "first", "fallback", "recount", "admitted", "verified",
                    "done", "limited", "rejected", "lost"},
         login' = [login EXCEPT ![l].phase = p]
  PROVE  login' \in [Logins -> Login]
<1>1. [login[l] EXCEPT !.phase = p] \in Login
  BY DEF TypeOK, Login
<1>2. QED
  BY <1>1 DEF TypeOK

\* A refresh that moves to another phase keeps its type.
LEMMA RefreshPhase ==
  ASSUME TypeOK, NEW r \in Refreshes,
         NEW p \in {"idle", "valid", "current", "inactive", "revoked",
                    "done", "refused", "lockedout", "lost"},
         refresh' = [refresh EXCEPT ![r].phase = p]
  PROVE  refresh' \in [Refreshes -> Refresh]
<1>1. [refresh[r] EXCEPT !.phase = p] \in Refresh
  BY DEF TypeOK, Refresh
<1>2. QED
  BY <1>1 DEF TypeOK

\* A fault that is noticed is one of the configured ones.
LEMMA NoticeType ==
  ASSUME TypeOK, NEW outcome \in Outcomes, Notice(outcome)
  PROVE  /\ happened' \subseteq Faults
         /\ happened \subseteq happened'
         /\ "outage" \notin happened' => outcome = "ok"
BY DEF TypeOK, Outcomes, Notice, FallsBack

\* Storing a token keeps both stores sets of tokens.
LEMMA StoreType ==
  ASSUME TypeOK, NEW t \in Tokens, Store(t)
  PROVE  redis' \subseteq Tokens /\ memory' \subseteq Tokens /\ happened' \subseteq Faults
BY NoticeType DEF TypeOK, Store

\* Verdicts on attempts are phases.
LEMMA JudgedType ==
  ASSUME NEW n
  PROVE  Judged(n) \in {"admitted", "limited"}
BY DEF Judged

\* A login that has arrived knows its account.
LEMMA ArrivedLogin ==
  ASSUME TypeOK, RequestsKnow, NEW l \in Logins, login[l].phase # "idle"
  PROVE  login[l].user \in Users
BY DEF TypeOK, RequestsKnow, Login

\* The initial state is well typed.
LEMMA InitType == Init => TypeOK
BY DEF Init, TypeOK, NoAttempts, Attempts, Login, Refresh

\* The first call of the rate limit keeps the types.
LEMMA IncrType ==
  ASSUME TypeOK, NEW l \in Logins, NEW u \in Users, IncrAttempts(l, u)
  PROVE  TypeOK'
<1> DEFINE n == attempts[u].count + 1
<1>1. PICK outcome \in Outcomes :
        /\ Notice(outcome)
        /\ attempts' = IF Executed(outcome)
                       THEN [attempts EXCEPT ![u].count = n] ELSE attempts
        /\ login' = [login EXCEPT ![l].user = u,
             ![l].phase = CASE FallsBack(outcome) -> "fallback"
                            [] ~FallsBack(outcome) /\ n = 1 -> "first"
                            [] OTHER -> Judged(n)]
  BY DEF IncrAttempts
<1>2. n \in Nat
  BY DEF TypeOK, Attempts
<1>3. [attempts[u] EXCEPT !.count = n] \in Attempts
  BY <1>2 DEF TypeOK, Attempts
<1>4. attempts' \in [Users -> Attempts]
  BY <1>1, <1>3 DEF TypeOK
<1> DEFINE p == CASE FallsBack(outcome) -> "fallback"
                  [] ~FallsBack(outcome) /\ n = 1 -> "first"
                  [] OTHER -> Judged(n)
<1>5. p \in {"fallback", "first", "admitted", "limited"}
  BY JudgedType
<1> HIDE DEF p, n
<1>6. [login[l] EXCEPT !.user = u, !.phase = p] \in Login
  BY <1>5 DEF TypeOK, Login
<1>7. login' = [login EXCEPT ![l] = [login[l] EXCEPT !.user = u, !.phase = p]]
  BY <1>1 DEF TypeOK, p
<1>8. login' \in [Logins -> Login]
  BY <1>6, <1>7 DEF TypeOK
<1>9. QED
  BY <1>1, <1>4, <1>8, NoticeType DEF TypeOK, IncrAttempts

\* Every step of a login keeps the types.
LEMMA LoginType ==
  ASSUME TypeOK, RequestsKnow, NEW l \in Logins, LoginStep(l)
  PROVE  TypeOK'
<1>1. CASE ExpireAttempts(l)
  <2> DEFINE u == login[l].user
  <2>1. PICK outcome \in Outcomes :
          /\ Notice(outcome)
          /\ attempts' = IF Executed(outcome) /\ attempts[u].count > 0
                         THEN [attempts EXCEPT ![u].expires = TRUE] ELSE attempts
          /\ login' = [login EXCEPT
               ![l].phase = IF FallsBack(outcome) THEN "fallback" ELSE Judged(1)]
    BY <1>1 DEF ExpireAttempts
  <2>2. u \in Users
    BY <1>1, ArrivedLogin DEF ExpireAttempts
  <2>3. [attempts[u] EXCEPT !.expires = TRUE] \in Attempts
    BY <2>2 DEF TypeOK, Attempts
  <2>4. attempts' \in [Users -> Attempts]
    BY <2>1, <2>2, <2>3 DEF TypeOK
  <2>5. login' \in [Logins -> Login]
    BY <2>1, LoginPhase, JudgedType
  <2>6. QED
    BY <1>1, <2>1, <2>4, <2>5, NoticeType DEF TypeOK, ExpireAttempts
<1>2. CASE ReadLocal(l)
  <2>1. login[l].user \in Users
    BY <1>2, ArrivedLogin DEF ReadLocal
  <2>2. attempts[login[l].user].local \in Nat
    BY <2>1 DEF TypeOK, Attempts
  <2>3. [login[l] EXCEPT !.phase = "recount", !.read = attempts[login[l].user].local]
          \in Login
    BY <2>2 DEF TypeOK, Login
  <2>4. login' \in [Logins -> Login]
    BY <1>2, <2>3 DEF TypeOK, ReadLocal
  <2>5. QED
    BY <1>2, <2>4 DEF TypeOK, ReadLocal
<1>3. CASE WriteLocal(l)
  <2>1. login[l].user \in Users
    BY <1>3, ArrivedLogin DEF WriteLocal
  <2>2. login[l].read + 1 \in Nat
    BY DEF TypeOK, Login
  <2>3. [attempts[login[l].user] EXCEPT !.local = login[l].read + 1] \in Attempts
    BY <2>1, <2>2 DEF TypeOK, Attempts
  <2>4. attempts' \in [Users -> Attempts]
    BY <1>3, <2>1, <2>3 DEF TypeOK, WriteLocal
  <2>5. login' \in [Logins -> Login]
    BY <1>3, LoginPhase, JudgedType DEF WriteLocal
  <2>6. QED
    BY <1>3, <2>4, <2>5 DEF TypeOK, WriteLocal
<1>4. CASE Authenticate(l)
  BY <1>4, LoginPhase DEF TypeOK, Authenticate
<1>5. CASE FinishLogin(l)
  <2>1. login' \in [Logins -> Login]
    BY <1>5, LoginPhase DEF FinishLogin
  <2>2. redis' \subseteq Tokens /\ memory' \subseteq Tokens /\ happened' \subseteq Faults
    BY <1>5, StoreType DEF FinishLogin, Tokens
  <2>3. QED
    BY <1>5, <2>1, <2>2 DEF TypeOK, FinishLogin
<1>6. QED
  BY <1>1, <1>2, <1>3, <1>4, <1>5 DEF LoginStep

\* Every step of a refresh keeps the types.
LEMMA RefreshType ==
  ASSUME TypeOK, NEW r \in Refreshes,
         RefreshStep(r) \/ \E t \in Tokens : CheckToken(r, t)
  PROVE  TypeOK'
<1>1. CASE CheckStatus(r)
  BY <1>1, RefreshPhase DEF TypeOK, CheckStatus
<1>2. CASE Revoke(r)
  <2>1. refresh' \in [Refreshes -> Refresh]
    BY <1>2, RefreshPhase DEF Revoke
  <2>2. redis' \subseteq Tokens /\ memory' \subseteq Tokens /\ happened' \subseteq Faults
    BY <1>2, NoticeType DEF TypeOK, Revoke
  <2>3. QED
    BY <1>2, <2>1, <2>2 DEF TypeOK, Revoke
<1>3. CASE FinishRefresh(r)
  <2>1. refresh' \in [Refreshes -> Refresh]
    BY <1>3, RefreshPhase DEF FinishRefresh
  <2>2. redis' \subseteq Tokens /\ memory' \subseteq Tokens /\ happened' \subseteq Faults
    BY <1>3, StoreType DEF FinishRefresh, Tokens
  <2>3. QED
    BY <1>3, <2>1, <2>2 DEF TypeOK, FinishRefresh
<1>4. ASSUME NEW t \in Tokens, CheckToken(r, t) PROVE TypeOK'
  <2>1. Subject(t) \in Users \cup {NoUser}
    BY DEF TypeOK, Subject, Tokens, Login, Refresh
  <2>2. PICK outcome \in Outcomes :
          /\ Notice(outcome)
          /\ refresh' = [refresh EXCEPT ![r] =
               [phase |-> IF t \in (IF FallsBack(outcome) THEN memory ELSE redis)
                          THEN "valid" ELSE "refused",
                user |-> Subject(t), token |-> t]]
    BY <1>4 DEF CheckToken
  <2>3. refresh' \in [Refreshes -> Refresh]
    BY <2>1, <2>2 DEF TypeOK, Refresh
  <2>4. QED
    BY <1>4, <2>2, <2>3, NoticeType DEF TypeOK, CheckToken
<1>5. QED
  BY <1>1, <1>2, <1>3, <1>4 DEF RefreshStep

\* Every step keeps the types.
LEMMA NextType == TypeOK /\ RequestsKnow /\ [Next]_vars => TypeOK'
<1> SUFFICES ASSUME TypeOK, RequestsKnow, [Next]_vars PROVE TypeOK'
  OBVIOUS
<1>1. ASSUME NEW l \in Logins, NEW u \in Users, IncrAttempts(l, u) PROVE TypeOK'
  BY <1>1, IncrType
<1>2. ASSUME NEW l \in Logins, LoginStep(l) PROVE TypeOK'
  BY <1>2, LoginType
<1>3. ASSUME NEW r \in Refreshes, RefreshStep(r) \/ \E t \in Tokens : CheckToken(r, t)
      PROVE  TypeOK'
  BY <1>3, RefreshType
<1>4. ASSUME NEW u \in Users, ToggleStatus(u) PROVE TypeOK'
  BY <1>4 DEF TypeOK, ToggleStatus
<1>5. ASSUME NEW u \in Users, WindowEnds(u) PROVE TypeOK'
  <2>1. [attempts[u] EXCEPT !.count = 0, !.expires = FALSE] \in Attempts
    BY DEF TypeOK, Attempts
  <2>2. attempts' \in [Users -> Attempts]
    BY <1>5, <2>1 DEF TypeOK, WindowEnds
  <2>3. QED
    BY <1>5, <2>2 DEF TypeOK, WindowEnds
<1>6. CASE RedisRestart
  <2>1. \A u \in Users : [NoAttempts EXCEPT !.local = attempts[u].local] \in Attempts
    BY DEF TypeOK, NoAttempts, Attempts
  <2>2. QED
    BY <1>6, <2>1 DEF TypeOK, RedisRestart
<1>7. CASE Crash
  <2>1. \A u \in Users : [attempts[u] EXCEPT !.local = 0] \in Attempts
    BY DEF TypeOK, Attempts
  <2>2. \A l \in Logins : [login[l] EXCEPT !.phase = "lost"] \in Login
    BY DEF TypeOK, Login
  <2>3. \A r \in Refreshes : [refresh[r] EXCEPT !.phase = "lost"] \in Refresh
    BY DEF TypeOK, Refresh
  <2>4. QED
    BY <1>7, <2>1, <2>2, <2>3 DEF TypeOK, Crash
<1>8. CASE UNCHANGED vars
  BY <1>8 DEF vars, TypeOK
<1>9. QED
  BY <1>1, <1>2, <1>3, <1>4, <1>5, <1>6, <1>7, <1>8 DEF Next

-----------------------------------------------------------------------------
(* What requests know *)

\* A login that was answered stays so.
LEMMA DoneLogin ==
  ASSUME TypeOK, [Next]_vars, NEW l \in Logins, login[l].phase = "done"
  PROVE  login'[l].phase = "done"
<1>1. ASSUME NEW m \in Logins, NEW u \in Users, IncrAttempts(m, u)
      PROVE  login'[l].phase = "done"
  <2>1. m # l
    BY <1>1 DEF IncrAttempts
  <2>2. PICK p : login' = [login EXCEPT ![m].user = u, ![m].phase = p]
    BY <1>1 DEF IncrAttempts
  <2>3. QED
    BY <2>1, <2>2 DEF TypeOK
<1>2. ASSUME NEW m \in Logins, LoginStep(m) PROVE login'[l].phase = "done"
  BY <1>2 DEF LoginStep, ExpireAttempts, ReadLocal, WriteLocal, Authenticate,
              FinishLogin, TypeOK
<1>3. ASSUME NEW r \in Refreshes, RefreshStep(r) \/ \E t \in Tokens : CheckToken(r, t)
      PROVE  login' = login
  BY <1>3 DEF RefreshStep, CheckStatus, Revoke, FinishRefresh, CheckToken
<1>4. CASE Crash
  BY <1>4 DEF Crash, LoginEnded
<1>5. QED
  BY <1>1, <1>2, <1>3, <1>4 DEF Next, ToggleStatus, WindowEnds, RedisRestart, vars

\* A refresh that has ended stays as it is, and one that has arrived keeps its
\* token.
LEMMA DoneRefresh ==
  ASSUME TypeOK, [Next]_vars, NEW r \in Refreshes
  PROVE  /\ refresh[r].phase \in {"done", "refused", "lockedout", "lost"} =>
              refresh'[r] = refresh[r]
         /\ refresh[r].phase # "idle" =>
              refresh'[r].token = refresh[r].token /\ refresh'[r].phase # "idle"
<1>1. ASSUME NEW l \in Logins, LoginStep(l) \/ \E u \in Users : IncrAttempts(l, u)
      PROVE  refresh' = refresh
  BY <1>1 DEF LoginStep, ExpireAttempts, ReadLocal, WriteLocal, Authenticate,
              FinishLogin, IncrAttempts
<1>2. ASSUME NEW q \in Refreshes, RefreshStep(q)
      PROVE  /\ refresh[q].phase \in {"valid", "current", "inactive", "revoked"}
             /\ \E p \in {"current", "inactive", "revoked", "lockedout", "done"} :
                  refresh' = [refresh EXCEPT ![q].phase = p]
  BY <1>2 DEF RefreshStep, CheckStatus, Revoke, FinishRefresh
<1>3. ASSUME NEW q \in Refreshes, RefreshStep(q)
      PROVE  /\ refresh[r].phase \in {"done", "refused", "lockedout", "lost"} =>
                  refresh'[r] = refresh[r]
             /\ refresh[r].phase # "idle" =>
                  refresh'[r].token = refresh[r].token /\ refresh'[r].phase # "idle"
  BY <1>2, <1>3 DEF TypeOK, Refresh
<1>4. ASSUME NEW q \in Refreshes, NEW t \in Tokens, CheckToken(q, t)
      PROVE  refresh[r].phase # "idle" => refresh'[r] = refresh[r]
  <2>1. PICK v : refresh' = [refresh EXCEPT ![q] = v]
    BY <1>4 DEF CheckToken
  <2>2. QED
    BY <1>4, <2>1 DEF CheckToken, TypeOK
<1>5. CASE Crash
  <2>1. refresh'[r] = IF RefreshEnded(r) THEN refresh[r]
                      ELSE [refresh[r] EXCEPT !.phase = "lost"]
    BY <1>5 DEF Crash
  <2>2. QED
    BY <2>1 DEF RefreshEnded, TypeOK, Refresh
<1>6. CASE UNCHANGED refresh
  BY <1>6
<1>7. QED
  BY <1>1, <1>3, <1>4, <1>5, <1>6
     DEF Next, ToggleStatus, WindowEnds, RedisRestart, vars

\* A token that was issued stays issued.
LEMMA IssuedPersists ==
  ASSUME TypeOK, [Next]_vars, NEW t \in Tokens, Issued(t)
  PROVE  Issued(t)'
BY DoneLogin, DoneRefresh DEF Issued, Tokens

\* The phase and the account of a login come together.
LEMMA LoginKnows ==
  ASSUME TypeOK, RequestsKnow, [Next]_vars, NEW l \in Logins
  PROVE  /\ login'[l].phase = "idle" <=> login'[l].user = NoUser
         /\ login[l].phase # "idle" =>
              login'[l].phase # "idle" /\ login'[l].user = login[l].user
<1>1. ASSUME NEW m \in Logins, NEW u \in Users, IncrAttempts(m, u)
      PROVE  \/ login'[l] = login[l]
             \/ login[l].phase = "idle" /\ login'[l].phase # "idle" /\ login'[l].user = u
  <2>1. PICK p \in {"fallback", "first", "admitted", "limited"} :
          login' = [login EXCEPT ![m].user = u, ![m].phase = p]
    BY <1>1 DEF IncrAttempts, Judged
  <2>2. QED
    BY <1>1, <2>1 DEF IncrAttempts, TypeOK, Login
<1>2. ASSUME NEW m \in Logins, LoginStep(m)
      PROVE  \/ login'[l] = login[l]
             \/ /\ login[l].phase # "idle" /\ login'[l].phase # "idle"
                /\ login'[l].user = login[l].user
  <2>1. login[m].phase # "idle"
    BY <1>2 DEF LoginStep, ExpireAttempts, ReadLocal, WriteLocal, Authenticate,
                FinishLogin
  <2>2. CASE ReadLocal(m)
    BY <2>1, <2>2 DEF ReadLocal, TypeOK, Login
  <2>3. CASE ~ReadLocal(m)
    <3>1. PICK p \in {"fallback", "admitted", "limited", "verified", "rejected", "done"} :
            login' = [login EXCEPT ![m].phase = p]
      BY <1>2, <2>3 DEF LoginStep, ExpireAttempts, WriteLocal, Authenticate,
                        FinishLogin, Judged
    <3>2. QED
      BY <2>1, <3>1 DEF TypeOK, Login
  <2>4. QED
    BY <2>2, <2>3
<1>3. ASSUME NEW r \in Refreshes, RefreshStep(r) \/ \E t \in Tokens : CheckToken(r, t)
      PROVE  login' = login
  BY <1>3 DEF RefreshStep, CheckStatus, Revoke, FinishRefresh, CheckToken
<1>4. CASE Crash
  <2>1. login'[l] = IF LoginEnded(l) THEN login[l] ELSE [login[l] EXCEPT !.phase = "lost"]
    BY <1>4 DEF Crash
  <2>2. QED
    BY <2>1 DEF LoginEnded, TypeOK, Login, RequestsKnow
<1>5. CASE UNCHANGED login
  BY <1>5 DEF RequestsKnow
<1>6. QED
  <2>1. \/ login'[l] = login[l]
        \/ /\ login'[l].phase # "idle"
           /\ \/ login[l].phase = "idle" /\ login'[l].user \in Users
              \/ login[l].phase # "idle" /\ login'[l].user = login[l].user
        \/ Crash
    BY <1>1, <1>2, <1>3, <1>5 DEF Next, ToggleStatus, WindowEnds, RedisRestart, vars
  <2>2. NoUser \notin Users
    BY AuthConstants
  <2>3. QED
    BY <1>4, <2>1, <2>2 DEF RequestsKnow

\* Requests keep knowing.
LEMMA NextKnow == TypeOK /\ RequestsKnow /\ [Next]_vars => RequestsKnow'
<1> SUFFICES ASSUME TypeOK, RequestsKnow, [Next]_vars PROVE RequestsKnow'
  OBVIOUS
<1>1. ASSUME NEW r \in Refreshes, refresh'[r].phase # "idle"
      PROVE  refresh'[r].token \in Tokens /\ Issued(refresh[r].token)'
  <2>1. CASE refresh[r].phase # "idle"
    <3>1. refresh'[r].token = refresh[r].token
      BY <2>1, DoneRefresh
    <3>2. refresh[r].token \in Tokens /\ Issued(refresh[r].token)
      BY <2>1 DEF RequestsKnow
    <3>3. ASSUME NEW t \in Tokens, Issued(t) PROVE Issued(t)'
      BY <3>3, IssuedPersists
    <3>4. QED
      BY <3>1, <3>2, <3>3 DEF Issued
  <2>2. CASE refresh[r].phase = "idle"
    <3>1. PICK t \in Tokens : CheckToken(r, t)
      <4>1. refresh' # refresh
        BY <1>1, <2>2
      <4>2. ASSUME NEW q \in Refreshes, RefreshStep(q) PROVE FALSE
        <5>1. q # r
          BY <2>2, <4>2 DEF RefreshStep, CheckStatus, Revoke, FinishRefresh
        <5>2. \E p : refresh' = [refresh EXCEPT ![q].phase = p]
          BY <4>2 DEF RefreshStep, CheckStatus, Revoke, FinishRefresh
        <5>3. QED
          BY <1>1, <2>2, <5>1, <5>2 DEF TypeOK
      <4>3. ASSUME NEW q \in Refreshes, q # r, NEW t \in Tokens, CheckToken(q, t)
            PROVE  FALSE
        BY <1>1, <2>2, <4>3 DEF CheckToken, TypeOK
      <4>4. ~Crash
        BY <1>1, <2>2 DEF Crash, RefreshEnded
      <4>5. QED
        BY <4>1, <4>2, <4>3, <4>4
           DEF Next, LoginStep, ExpireAttempts, ReadLocal, WriteLocal, Authenticate,
               FinishLogin, IncrAttempts, ToggleStatus, WindowEnds, RedisRestart, vars
    <3>2. Issued(t) /\ refresh'[r].token = t
      BY <3>1 DEF CheckToken, TypeOK
    <3>3. Issued(t)'
      BY <3>2, IssuedPersists
    <3>4. QED
      BY <3>2, <3>3 DEF Issued
  <2>3. QED
    BY <2>1, <2>2
<1>2. \A l \in Logins : login'[l].phase = "idle" <=> login'[l].user = NoUser
  BY LoginKnows
<1>3. Tokens' = Tokens
  BY DEF Tokens
<1>4. QED
  BY <1>1, <1>2, <1>3 DEF RequestsKnow

-----------------------------------------------------------------------------
(* Tokens and their stores *)

\* History is never forgotten, and the dictionary is filled by outages only.
LEMMA NextMemory ==
  ASSUME TypeOK, [Next]_vars
  PROVE  /\ happened \subseteq happened'
         /\ OutagesFillMemory => OutagesFillMemory'
<1>1. ASSUME NEW l \in Logins, NEW u \in Users, IncrAttempts(l, u)
      PROVE  happened \subseteq happened' /\ memory' = memory
  BY <1>1, NoticeType DEF IncrAttempts
<1>2. ASSUME NEW t \in Tokens, Store(t)
      PROVE  happened \subseteq happened' /\ (OutagesFillMemory => OutagesFillMemory')
  BY <1>2, NoticeType DEF Store, OutagesFillMemory, FallsBack
<1>3. ASSUME NEW l \in Logins, LoginStep(l)
      PROVE  happened \subseteq happened' /\ (OutagesFillMemory => OutagesFillMemory')
  <2>1. CASE ExpireAttempts(l)
    BY <2>1, NoticeType DEF ExpireAttempts, OutagesFillMemory
  <2>2. CASE FinishLogin(l)
    BY <2>2, <1>2 DEF FinishLogin, Tokens
  <2>3. QED
    BY <1>3, <2>1, <2>2
       DEF LoginStep, ReadLocal, WriteLocal, Authenticate, OutagesFillMemory
<1>4. ASSUME NEW r \in Refreshes, RefreshStep(r) \/ \E t \in Tokens : CheckToken(r, t)
      PROVE  happened \subseteq happened' /\ (OutagesFillMemory => OutagesFillMemory')
  <2>1. CASE FinishRefresh(r)
    BY <2>1, <1>2 DEF FinishRefresh, Tokens
  <2>2. CASE Revoke(r)
    BY <2>2, NoticeType DEF Revoke, OutagesFillMemory
  <2>3. ASSUME NEW t \in Tokens, CheckToken(r, t)
        PROVE  happened \subseteq happened' /\ memory' = memory
    BY <2>3, NoticeType DEF CheckToken
  <2>4. QED
    BY <1>4, <2>1, <2>2, <2>3 DEF RefreshStep, CheckStatus, OutagesFillMemory
<1>5. QED
  BY <1>1, <1>3, <1>4
     DEF Next, ToggleStatus, WindowEnds, RedisRestart, Crash, vars, OutagesFillMemory

\* Only a token that nobody was given yet is added to Redis.
LEMMA StoredOnce ==
  ASSUME TypeOK, [Next]_vars, NEW t \in Tokens, t \in redis', t \notin redis
  PROVE  ~Issued(t)
<1>1. ASSUME NEW l \in Logins, NEW u \in Users, IncrAttempts(l, u) PROVE FALSE
  BY <1>1 DEF IncrAttempts
<1>2. ASSUME NEW l \in Logins, LoginStep(l) PROVE ~Issued(t)
  <2>1. FinishLogin(l)
    BY <1>2 DEF LoginStep, ExpireAttempts, ReadLocal, WriteLocal, Authenticate
  <2>2. t = l /\ login[l].phase = "verified"
    BY <2>1 DEF FinishLogin, Store
  <2>3. QED
    BY <2>2 DEF Issued
<1>3. ASSUME NEW r \in Refreshes, RefreshStep(r) \/ \E s \in Tokens : CheckToken(r, s)
      PROVE  ~Issued(t)
  <2>1. FinishRefresh(r)
    BY <1>3 DEF RefreshStep, CheckStatus, Revoke, CheckToken
  <2>2. t = r /\ refresh[r].phase = "revoked"
    BY <2>1 DEF FinishRefresh, Store
  <2>3. QED
    BY <2>2, AuthConstants DEF Issued
<1>4. QED
  BY <1>1, <1>2, <1>3
     DEF Next, ToggleStatus, WindowEnds, RedisRestart, Crash, vars

\* A refresh becomes a spender of its token by revoking it.
LEMMA NewSpender ==
  ASSUME TypeOK, [Next]_vars, NEW r \in Refreshes,
         refresh'[r].phase \in {"revoked", "done", "lockedout"}
  PROVE  \/ /\ refresh[r].phase \in {"revoked", "done", "lockedout"}
            /\ refresh'[r].token = refresh[r].token
         \/ Revoke(r) /\ refresh'[r].token = refresh[r].token
<1>1. ASSUME NEW q \in Refreshes, RefreshStep(q), ~Revoke(q)
      PROVE  /\ refresh[r].phase \in {"revoked", "done", "lockedout"}
             /\ refresh'[r].token = refresh[r].token
  BY <1>1 DEF RefreshStep, CheckStatus, FinishRefresh, TypeOK, Refresh
<1>2. ASSUME NEW q \in Refreshes, Revoke(q), q # r
      PROVE  refresh'[r] = refresh[r]
  BY <1>2 DEF Revoke, TypeOK
<1>3. ASSUME NEW q \in Refreshes, NEW t \in Tokens, CheckToken(q, t)
      PROVE  refresh'[r] = refresh[r]
  <2>1. PICK outcome \in Outcomes : refresh' = [refresh EXCEPT ![q] =
          [phase |-> IF t \in (IF FallsBack(outcome) THEN memory ELSE redis)
                     THEN "valid" ELSE "refused",
           user |-> Subject(t), token |-> t]]
    BY <1>3 DEF CheckToken
  <2>2. QED
    BY <2>1 DEF TypeOK
<1>4. CASE Crash
  <2>1. refresh'[r] = IF RefreshEnded(r) THEN refresh[r]
                      ELSE [refresh[r] EXCEPT !.phase = "lost"]
    BY <1>4 DEF Crash
  <2>2. QED
    BY <2>1 DEF TypeOK, Refresh
<1>5. ASSUME Revoke(r) PROVE refresh'[r].token = refresh[r].token
  BY <1>5 DEF Revoke, TypeOK, Refresh
<1>6. ASSUME UNCHANGED refresh
      PROVE  /\ refresh[r].phase \in {"revoked", "done", "lockedout"}
             /\ refresh'[r].token = refresh[r].token
  BY <1>6
<1>7. ASSUME NEW l \in Logins, LoginStep(l) \/ \E u \in Users : IncrAttempts(l, u)
      PROVE  UNCHANGED refresh
  BY <1>7 DEF LoginStep, ExpireAttempts, ReadLocal, WriteLocal, Authenticate,
              FinishLogin, IncrAttempts
<1>8. QED
  BY <1>1, <1>2, <1>3, <1>4, <1>5, <1>6, <1>7
     DEF Next, ToggleStatus, WindowEnds, RedisRestart, vars

\* Spent tokens stay spent in every step.
LEMMA NextSpent ==
  TypeOK /\ RequestsKnow /\ OutagesFillMemory /\ SpentStaysSpent /\ [Next]_vars
    => SpentStaysSpent'
<1> SUFFICES ASSUME TypeOK, RequestsKnow, OutagesFillMemory, SpentStaysSpent,
                    [Next]_vars, "outage" \notin happened',
                    NEW t \in Tokens, NEW r \in Refreshes, refresh'[r].token = t,
                    refresh'[r].phase \in {"revoked", "done", "lockedout"}
             PROVE  t \notin redis' \cup memory'
  BY DEF SpentStaysSpent, Spenders, Tokens
<1>1. "outage" \notin happened /\ memory' = {}
  BY NextMemory DEF OutagesFillMemory
<1>2. CASE Revoke(r)
  <2>1. refresh[r].token = t
    BY <1>2, NewSpender
  <2>2. PICK outcome \in Outcomes :
          /\ Notice(outcome)
          /\ redis' = IF Executed(outcome) THEN redis \ {refresh[r].token} ELSE redis
    BY <1>2 DEF Revoke
  <2>3. outcome = "ok"
    BY <2>2, NoticeType
  <2>4. QED
    BY <1>1, <2>1, <2>2, <2>3 DEF Executed
<1>3. CASE ~Revoke(r)
  <2>1. /\ refresh[r].phase \in {"revoked", "done", "lockedout"}
        /\ refresh[r].token = t
    BY <1>3, NewSpender
  <2>2. t \notin redis
    BY <1>1, <2>1 DEF SpentStaysSpent, Spenders
  <2>3. Issued(t)
    BY <2>1 DEF RequestsKnow
  <2>4. QED
    BY <1>1, <2>2, <2>3, StoredOnce
<1>4. QED
  BY <1>2, <1>3

\* A token disappears from Redis in a restart, or by a refresh that holds it.
LEMMA Removed ==
  ASSUME TypeOK, [Next]_vars, NEW t \in redis, t \notin redis'
  PROVE  \/ RedisRestart
         \/ \E r \in Refreshes : Revoke(r) /\ refresh[r].token = t
<1>1. ASSUME NEW l \in Logins, LoginStep(l) \/ \E u \in Users : IncrAttempts(l, u)
      PROVE  FALSE
  BY <1>1 DEF LoginStep, ExpireAttempts, ReadLocal, WriteLocal, Authenticate,
              FinishLogin, IncrAttempts, Store
<1>2. ASSUME NEW r \in Refreshes, RefreshStep(r) \/ \E s \in Tokens : CheckToken(r, s)
      PROVE  Revoke(r) /\ refresh[r].token = t
  BY <1>2 DEF RefreshStep, CheckStatus, Revoke, FinishRefresh, CheckToken, Store
<1>3. QED
  BY <1>1, <1>2 DEF Next, ToggleStatus, WindowEnds, Crash, vars

\* A client is given a token by the step that stores it.
LEMMA NewlyIssued ==
  ASSUME TypeOK, [Next]_vars, NEW t \in Tokens, ~Issued(t), Issued(t)'
  PROVE  Store(t)
<1>1. CASE t \in Logins
  <2>1. login[t].phase # "done" /\ login'[t].phase = "done"
    BY <1>1 DEF Issued
  <2>2. ASSUME NEW l \in Logins, NEW u \in Users, IncrAttempts(l, u) PROVE FALSE
    <3>1. PICK p \in {"fallback", "first", "admitted", "limited"} :
            login' = [login EXCEPT ![l].user = u, ![l].phase = p]
      BY <2>2 DEF IncrAttempts, Judged
    <3>2. QED
      BY <1>1, <2>1, <3>1 DEF TypeOK, Login
  <2>3. ASSUME NEW l \in Logins, LoginStep(l) PROVE Store(t)
    <3>1. CASE FinishLogin(l)
      BY <1>1, <2>1, <3>1 DEF FinishLogin, TypeOK
    <3>2. CASE ReadLocal(l)
      BY <1>1, <2>1, <3>2 DEF ReadLocal, TypeOK, Login
    <3>3. CASE ExpireAttempts(l) \/ WriteLocal(l) \/ Authenticate(l)
      <4>1. PICK p \in {"fallback", "admitted", "limited", "verified", "rejected"} :
              login' = [login EXCEPT ![l].phase = p]
        BY <3>3 DEF ExpireAttempts, WriteLocal, Authenticate, Judged
      <4>2. QED
        BY <1>1, <2>1, <4>1 DEF TypeOK, Login
    <3>4. QED
      BY <2>3, <3>1, <3>2, <3>3 DEF LoginStep
  <2>4. ~Crash
    BY <1>1, <2>1 DEF Crash, TypeOK, Login
  <2>5. QED
    BY <2>1, <2>2, <2>3, <2>4
       DEF Next, RefreshStep, CheckStatus, Revoke, FinishRefresh, CheckToken,
           ToggleStatus, WindowEnds, RedisRestart, vars
<1>2. CASE t \notin Logins
  <2>1. t \in Refreshes /\ refresh[t].phase # "done" /\ refresh'[t].phase = "done"
    BY <1>2 DEF Issued, Tokens
  <2>2. ASSUME NEW r \in Refreshes, RefreshStep(r) PROVE Store(t)
    <3>1. CASE FinishRefresh(r)
      BY <2>1, <3>1 DEF FinishRefresh, TypeOK
    <3>2. CASE CheckStatus(r) \/ Revoke(r)
      <4>1. PICK p \in {"current", "inactive", "revoked", "lockedout"} :
              refresh' = [refresh EXCEPT ![r].phase = p]
        BY <3>2 DEF CheckStatus, Revoke
      <4>2. QED
        BY <2>1, <4>1 DEF TypeOK, Refresh
    <3>3. QED
      BY <2>2, <3>1, <3>2 DEF RefreshStep
  <2>3. ASSUME NEW r \in Refreshes, NEW s \in Tokens, CheckToken(r, s) PROVE FALSE
    <3>1. PICK p \in {"valid", "refused"} :
            refresh' = [refresh EXCEPT ![r] =
                          [phase |-> p, user |-> Subject(s), token |-> s]]
      BY <2>3 DEF CheckToken
    <3>2. QED
      BY <2>1, <3>1 DEF TypeOK
  <2>4. ~Crash
    BY <2>1 DEF Crash, TypeOK, Refresh
  <2>5. QED
    BY <2>1, <2>2, <2>3, <2>4
       DEF Next, LoginStep, ExpireAttempts, ReadLocal, WriteLocal, Authenticate,
           FinishLogin, IncrAttempts, ToggleStatus, WindowEnds, RedisRestart, vars
<1>3. QED
  BY <1>1, <1>2

\* A refresh that revoked its token, or died doing so, remains that refresh.
LEMMA SpenderPersists ==
  ASSUME TypeOK, [Next]_vars, NEW r \in Refreshes,
         refresh[r].phase \in {"revoked", "done", "lockedout", "lost"}
  PROVE  /\ refresh'[r].phase \in {"revoked", "done", "lockedout", "lost"}
         /\ refresh'[r].token = refresh[r].token
<1>1. refresh'[r].token = refresh[r].token
  BY DoneRefresh
<1>2. CASE refresh[r].phase # "revoked"
  BY <1>1, <1>2, DoneRefresh
<1>3. CASE refresh[r].phase = "revoked"
  <2>1. ASSUME NEW q \in Refreshes, RefreshStep(q)
        PROVE  refresh'[r].phase \in {"revoked", "done"}
    BY <1>3, <2>1 DEF RefreshStep, CheckStatus, Revoke, FinishRefresh, TypeOK, Refresh
  <2>2. ASSUME NEW q \in Refreshes, NEW t \in Tokens, CheckToken(q, t)
        PROVE  refresh'[r] = refresh[r]
    BY <1>3, <2>2 DEF CheckToken, TypeOK
  <2>3. CASE Crash
    BY <1>3, <2>3 DEF Crash, RefreshEnded, TypeOK, Refresh
  <2>4. ASSUME NEW l \in Logins, LoginStep(l) \/ \E u \in Users : IncrAttempts(l, u)
        PROVE  UNCHANGED refresh
    BY <2>4 DEF LoginStep, ExpireAttempts, ReadLocal, WriteLocal, Authenticate,
                FinishLogin, IncrAttempts
  <2>5. QED
    BY <1>1, <1>3, <2>1, <2>2, <2>3, <2>4
       DEF Next, ToggleStatus, WindowEnds, RedisRestart, vars
<1>4. QED
  BY <1>2, <1>3

\* Issued tokens keep working in every step.
LEMMA NextWorks == TypeOK /\ IssuedTokenWorks /\ [Next]_vars => IssuedTokenWorks'
<1> DEFINE Gone(t) == \E r \in Refreshes :
             refresh[r].token = t
             /\ refresh[r].phase \in {"revoked", "done", "lockedout", "lost"}
<1> SUFFICES ASSUME TypeOK, IssuedTokenWorks, [Next]_vars,
                    happened' \cap {"outage", "restart"} = {},
                    NEW t \in Tokens, Issued(t)', t \notin redis'
             PROVE  Gone(t)'
  BY DEF IssuedTokenWorks, Tokens
<1>1. happened \cap {"outage", "restart"} = {} /\ ~RedisRestart
  BY NextMemory DEF RedisRestart
<1>2. CASE Issued(t) /\ t \notin redis
  <2>1. Gone(t)
    BY <1>1, <1>2 DEF IssuedTokenWorks
  <2>2. QED
    BY <2>1, SpenderPersists
<1>3. CASE Issued(t) /\ t \in redis
  <2>1. PICK r \in Refreshes : Revoke(r) /\ refresh[r].token = t
    BY <1>1, <1>3, Removed
  <2>2. refresh'[r].phase \in {"revoked", "lockedout"} /\ refresh'[r].token = t
    BY <2>1 DEF Revoke, TypeOK, Refresh
  <2>3. QED
    BY <2>2
<1>4. CASE ~Issued(t)
  <2>1. Store(t)
    BY <1>4, NewlyIssued
  <2>2. PICK outcome \in Outcomes :
          Notice(outcome) /\ redis' = IF Executed(outcome) THEN redis \cup {t} ELSE redis
    BY <2>1 DEF Store
  <2>3. outcome = "ok"
    BY <2>2, NoticeType
  <2>4. QED
    BY <2>2, <2>3 DEF Executed
<1>5. QED
  BY <1>2, <1>3, <1>4

-----------------------------------------------------------------------------
(* The rate limit *)

\* Sets of logins are finite, and a larger one has no smaller cardinality.
LEMMA LoginSets ==
  ASSUME NEW S \in SUBSET Logins, NEW T \in SUBSET S
  PROVE  /\ IsFiniteSet(S) /\ Cardinality(S) \in Nat
         /\ Cardinality(T) \in Nat /\ Cardinality(T) <= Cardinality(S)
<1>1. IsFiniteSet(S)
  BY FS_Subset, AuthConstants
<1>2. IsFiniteSet(T) /\ Cardinality(T) <= Cardinality(S)
  BY <1>1, FS_Subset
<1>3. QED
  BY <1>1, <1>2, FS_CardinalityType

\* A login more makes the set one larger.
LEMMA OneMore ==
  ASSUME NEW S \in SUBSET Logins, NEW T \in SUBSET Logins, NEW l \in T,
         l \notin S, S \subseteq T
  PROVE  Cardinality(S) + 1 <= Cardinality(T)
<1>1. IsFiniteSet(S) /\ Cardinality(S) \in Nat
  BY LoginSets
<1>2. Cardinality(S \cup {l}) = Cardinality(S) + 1
  BY <1>1, FS_AddElement
<1>3. S \cup {l} \in SUBSET T
  OBVIOUS
<1>4. QED
  BY <1>2, <1>3, LoginSets

\* The logins of an account, and those its dictionary may have counted, only
\* become more, if no login goes back to the counting phases.
LEMMA CountedGrows ==
  ASSUME TypeOK, RequestsKnow, [Next]_vars, NEW u \in Users
  PROVE  /\ Arrived(u) \subseteq Arrived(u)'
         /\ Counted(u) \subseteq Counted(u)'
         /\ Counted(u) \subseteq Arrived(u) /\ Arrived(u) \subseteq Logins
         /\ Cardinality(Arrived(u)) \in Nat
         /\ Cardinality(Counted(u)) \in Nat
         /\ Cardinality(Arrived(u))' \in Nat
         /\ Cardinality(Counted(u))' \in Nat
         /\ Cardinality(Arrived(u)) <= Cardinality(Arrived(u))'
         /\ Cardinality(Counted(u)) <= Cardinality(Counted(u))'
<1> DEFINE Counting == {"first", "fallback", "recount"}
<1>1. NoUser \notin Users
  BY AuthConstants
<1>2. Arrived(u) \subseteq Arrived(u)'
  BY <1>1, LoginKnows DEF Arrived, RequestsKnow
<1>3. ASSUME NEW l \in Logins, login[l].phase # "idle", login[l].phase \notin Counting
      PROVE  login'[l].phase \notin Counting
  <2>1. ASSUME NEW m \in Logins, NEW v \in Users, IncrAttempts(m, v)
        PROVE  login'[l] = login[l]
    BY <1>3, <2>1 DEF IncrAttempts, TypeOK
  <2>2. ASSUME NEW m \in Logins, LoginStep(m) PROVE login'[l].phase \notin Counting
    <3>1. CASE m # l
      BY <1>3, <2>2, <3>1 DEF LoginStep, ExpireAttempts, ReadLocal, WriteLocal,
                              Authenticate, FinishLogin, TypeOK
    <3>2. CASE m = l
      BY <1>3, <2>2, <3>2 DEF LoginStep, ExpireAttempts, ReadLocal, WriteLocal,
                              Authenticate, FinishLogin, TypeOK, Login
    <3>3. QED
      BY <3>1, <3>2
  <2>3. ASSUME NEW r \in Refreshes, RefreshStep(r) \/ \E t \in Tokens : CheckToken(r, t)
        PROVE  login' = login
    BY <2>3 DEF RefreshStep, CheckStatus, Revoke, FinishRefresh, CheckToken
  <2>4. CASE Crash
    BY <1>3, <2>4 DEF Crash, TypeOK, Login
  <2>5. QED
    BY <1>3, <2>1, <2>2, <2>3, <2>4
       DEF Next, ToggleStatus, WindowEnds, RedisRestart, vars
<1>4. \A l \in Arrived(u) : login[l].phase # "idle"
  BY <1>1 DEF Arrived, RequestsKnow
<1>5. Counted(u) \subseteq Counted(u)'
  BY <1>2, <1>3, <1>4 DEF Counted, Arrived
<1>6. Counted(u) \subseteq Arrived(u) /\ Arrived(u) \subseteq Logins
  BY DEF Counted, Arrived
<1>7. (Counted(u) \subseteq Arrived(u) /\ Arrived(u) \subseteq Logins)'
  BY DEF Counted, Arrived
<1>8. QED
  BY <1>2, <1>5, <1>6, <1>7, LoginSets

\* Counters that do not grow, and readings of them that do not change, stay below
\* the number of logins.
LEMMA CountersFrame ==
  ASSUME TypeOK, TypeOK', RequestsKnow, CountersAreEarned, [Next]_vars,
         \A u \in Users : /\ attempts'[u].count <= attempts[u].count
                          /\ attempts'[u].local <= attempts[u].local,
         \A l \in Logins : login'[l].phase = "recount" =>
           login[l].phase = "recount" /\ login'[l].read = login[l].read
  PROVE  CountersAreEarned'
<1>1. ASSUME NEW u \in Users
      PROVE  /\ attempts'[u].count <= Cardinality(Arrived(u))'
             /\ attempts'[u].local <= Cardinality(Counted(u))'
  <2>1. /\ attempts[u].count \in Nat /\ attempts[u].local \in Nat
        /\ attempts'[u].count \in Nat /\ attempts'[u].local \in Nat
    BY DEF TypeOK, Attempts
  <2>2. QED
    BY <2>1, CountedGrows DEF CountersAreEarned
<1>2. ASSUME NEW l \in Logins, login'[l].phase = "recount"
      PROVE  login'[l].read <= Cardinality(Counted(login[l].user))'
  <2>1. login[l].phase = "recount" /\ login'[l].read = login[l].read
    BY <1>2
  <2>2. login[l].user \in Users /\ login'[l].user = login[l].user
    BY <2>1, ArrivedLogin, LoginKnows
  <2>3. login[l].read <= Cardinality(Counted(login[l].user)) /\ login[l].read \in Nat
    BY <2>1 DEF CountersAreEarned, TypeOK, Login
  <2>4. ASSUME NEW u \in Users, u = login[l].user
        PROVE  login'[l].read <= Cardinality(Counted(u))'
    BY <2>1, <2>3, <2>4, CountedGrows
  <2>5. QED
    BY <2>2, <2>4
<1>3. QED
  BY <1>1, <1>2 DEF CountersAreEarned

\* INCR counts the login that it serves.
LEMMA IncrCounters ==
  ASSUME TypeOK, TypeOK', RequestsKnow, CountersAreEarned, [Next]_vars,
         NEW l \in Logins, NEW u \in Users, IncrAttempts(l, u)
  PROVE  CountersAreEarned'
<1>1. /\ attempts[u].count \in Nat
      /\ \A v \in Users : attempts'[v].local = attempts[v].local
      /\ \A v \in Users \ {u} : attempts'[v].count = attempts[v].count
      /\ attempts'[u].count \in {attempts[u].count, attempts[u].count + 1}
  BY DEF IncrAttempts, TypeOK, Attempts
<1>2. PICK p \in {"fallback", "first", "admitted", "limited"} :
        login' = [login EXCEPT ![l].user = u, ![l].phase = p]
  BY DEF IncrAttempts, Judged
<1>3. /\ login[l].phase = "idle" /\ login[l].user # u
      /\ login'[l].user = u /\ login'[l].phase = p
      /\ \A m \in Logins \ {l} : login'[m] = login[m]
  BY <1>2, AuthConstants DEF IncrAttempts, RequestsKnow, TypeOK, Login
<1>4. Cardinality(Arrived(u)) + 1 <= Cardinality(Arrived(u))'
  <2>1. l \notin Arrived(u) /\ l \in Arrived(u)' /\ Arrived(u) \subseteq Arrived(u)'
    BY <1>3, CountedGrows DEF Arrived
  <2>2. Arrived(u) \subseteq Logins /\ Arrived(u)' \subseteq Logins
    BY DEF Arrived
  <2>3. QED
    BY <2>1, <2>2, OneMore
<1>5. ASSUME NEW v \in Users
      PROVE  /\ attempts'[v].count <= Cardinality(Arrived(v))'
             /\ attempts'[v].local <= Cardinality(Counted(v))'
  <2>1. /\ attempts[v].count \in Nat /\ attempts[v].local \in Nat
        /\ attempts[v].count <= Cardinality(Arrived(v))
        /\ attempts[v].local <= Cardinality(Counted(v))
    BY DEF TypeOK, Attempts, CountersAreEarned
  <2>2. QED
    BY <1>1, <1>4, <2>1, CountedGrows
<1>6. ASSUME NEW m \in Logins, login'[m].phase = "recount"
      PROVE  login'[m].read <= Cardinality(Counted(login[m].user))'
  <2>1. login'[m] = login[m]
    BY <1>3, <1>6
  <2>2. login[m].user \in Users
    BY <1>6, <2>1, ArrivedLogin
  <2>3. login[m].read <= Cardinality(Counted(login[m].user)) /\ login[m].read \in Nat
    BY <1>6, <2>1 DEF CountersAreEarned, TypeOK, Login
  <2>4. ASSUME NEW v \in Users, v = login[m].user
        PROVE  login'[m].read <= Cardinality(Counted(v))'
    BY <2>1, <2>3, <2>4, CountedGrows
  <2>5. QED
    BY <2>1, <2>2, <2>4
<1>7. QED
  BY <1>5, <1>6 DEF CountersAreEarned

\* The dictionary's counter grows with the login that writes it.
LEMMA WriteCounters ==
  ASSUME TypeOK, TypeOK', RequestsKnow, CountersAreEarned, [Next]_vars,
         NEW l \in Logins, WriteLocal(l)
  PROVE  CountersAreEarned'
<1> DEFINE u == login[l].user
<1>1. u \in Users /\ login[l].phase = "recount"
  BY ArrivedLogin DEF WriteLocal
<1>2. PICK p \in {"admitted", "limited"} : login' = [login EXCEPT ![l].phase = p]
  BY DEF WriteLocal, Judged
<1>3. /\ login'[l].phase = p /\ login'[l].user = u
      /\ \A m \in Logins \ {l} : login'[m] = login[m]
  BY <1>2 DEF TypeOK, Login
<1>4. /\ login[l].read \in Nat
      /\ attempts'[u].local = login[l].read + 1
      /\ \A v \in Users : attempts'[v].count = attempts[v].count
      /\ \A v \in Users \ {u} : attempts'[v] = attempts[v]
  BY <1>1 DEF WriteLocal, TypeOK, Attempts, Login
<1> HIDE DEF u
<1>5. ASSUME NEW v \in Users, v = u
      PROVE  attempts'[v].local <= Cardinality(Counted(v))'
  <2>1. l \notin Counted(v) /\ l \in Counted(v)' /\ Counted(v) \subseteq Counted(v)'
    BY <1>1, <1>3, <1>5, CountedGrows DEF Counted, Arrived
  <2>2. Counted(v) \subseteq Logins /\ Counted(v)' \subseteq Logins
    BY DEF Counted, Arrived
  <2>3. Cardinality(Counted(v)) + 1 <= Cardinality(Counted(v))'
    BY <2>1, <2>2, OneMore
  <2>4. login[l].read <= Cardinality(Counted(v))
    BY <1>1, <1>5 DEF CountersAreEarned, u
  <2>5. QED
    BY <1>4, <1>5, <2>3, <2>4, CountedGrows
<1>6. ASSUME NEW v \in Users
      PROVE  /\ attempts'[v].count <= Cardinality(Arrived(v))'
             /\ attempts'[v].local <= Cardinality(Counted(v))'
  <2>1. /\ attempts[v].count \in Nat /\ attempts[v].local \in Nat
        /\ attempts[v].count <= Cardinality(Arrived(v))
        /\ attempts[v].local <= Cardinality(Counted(v))
    BY DEF TypeOK, Attempts, CountersAreEarned
  <2>2. QED
    BY <1>4, <1>5, <2>1, CountedGrows
<1>7. ASSUME NEW m \in Logins, login'[m].phase = "recount"
      PROVE  login'[m].read <= Cardinality(Counted(login[m].user))'
  <2>1. login'[m] = login[m]
    BY <1>3, <1>7
  <2>2. login[m].user \in Users
    BY <1>7, <2>1, ArrivedLogin
  <2>3. login[m].read <= Cardinality(Counted(login[m].user)) /\ login[m].read \in Nat
    BY <1>7, <2>1 DEF CountersAreEarned, TypeOK, Login
  <2>4. ASSUME NEW v \in Users, v = login[m].user
        PROVE  login'[m].read <= Cardinality(Counted(v))'
    BY <2>1, <2>3, <2>4, CountedGrows
  <2>5. QED
    BY <2>1, <2>2, <2>4
<1>8. QED
  BY <1>6, <1>7 DEF CountersAreEarned

\* A reading of the dictionary is at most what the dictionary counts.
LEMMA ReadCounters ==
  ASSUME TypeOK, TypeOK', RequestsKnow, CountersAreEarned, [Next]_vars,
         NEW l \in Logins, ReadLocal(l)
  PROVE  CountersAreEarned'
<1>1. login[l].user \in Users
  BY ArrivedLogin DEF ReadLocal
<1>2. /\ attempts' = attempts
      /\ login'[l].read = attempts[login[l].user].local
      /\ login'[l].user = login[l].user
      /\ \A m \in Logins \ {l} : login'[m] = login[m]
  BY DEF ReadLocal, TypeOK, Login
<1>3. ASSUME NEW v \in Users
      PROVE  /\ attempts'[v].count <= Cardinality(Arrived(v))'
             /\ attempts'[v].local <= Cardinality(Counted(v))'
             /\ attempts[v].local <= Cardinality(Counted(v))'
  <2>1. /\ attempts[v].count \in Nat /\ attempts[v].local \in Nat
        /\ attempts[v].count <= Cardinality(Arrived(v))
        /\ attempts[v].local <= Cardinality(Counted(v))
    BY DEF TypeOK, Attempts, CountersAreEarned
  <2>2. QED
    BY <1>2, <2>1, CountedGrows
<1>4. ASSUME NEW m \in Logins, login'[m].phase = "recount"
      PROVE  login'[m].read <= Cardinality(Counted(login[m].user))'
  <2>1. CASE m = l
    BY <1>1, <1>2, <1>3, <2>1
  <2>2. CASE m # l
    <3>1. login'[m] = login[m]
      BY <1>2, <2>2
    <3>2. login[m].user \in Users
      BY <1>4, <3>1, ArrivedLogin
    <3>3. login[m].read <= Cardinality(Counted(login[m].user)) /\ login[m].read \in Nat
      BY <1>4, <3>1 DEF CountersAreEarned, TypeOK, Login
    <3>4. ASSUME NEW v \in Users, v = login[m].user
          PROVE  login'[m].read <= Cardinality(Counted(v))'
      BY <3>1, <3>3, <3>4, CountedGrows
    <3>5. QED
      BY <3>1, <3>2, <3>4
  <2>3. QED
    BY <2>1, <2>2
<1>5. QED
  BY <1>3, <1>4 DEF CountersAreEarned

\* Every step keeps the counters earned.
LEMMA NextCounters ==
  ASSUME TypeOK, TypeOK', RequestsKnow, CountersAreEarned, [Next]_vars
  PROVE  CountersAreEarned'
<1> DEFINE Smaller ==
      \A u \in Users : /\ attempts'[u].count <= attempts[u].count
                       /\ attempts'[u].local <= attempts[u].local
<1> DEFINE SameReadings ==
      \A l \in Logins : login'[l].phase = "recount" =>
        login[l].phase = "recount" /\ login'[l].read = login[l].read
<1>1. \A u \in Users : attempts[u].count \in Nat /\ attempts[u].local \in Nat
  BY DEF TypeOK, Attempts
<1>2. attempts' = attempts => Smaller
  BY <1>1
<1>3. login' = login => SameReadings
  OBVIOUS
<1>4. ASSUME NEW l \in Logins, NEW u \in Users, IncrAttempts(l, u)
      PROVE  CountersAreEarned'
  BY <1>4, IncrCounters
<1>5. ASSUME NEW l \in Logins, LoginStep(l) PROVE CountersAreEarned'
  <2>1. CASE ExpireAttempts(l)
    <3>1. Smaller
      BY <1>1, <2>1 DEF ExpireAttempts, TypeOK, Attempts
    <3>2. PICK p \in {"fallback", "admitted", "limited"} :
            login' = [login EXCEPT ![l].phase = p]
      BY <2>1 DEF ExpireAttempts, Judged
    <3>3. SameReadings
      BY <3>2 DEF TypeOK, Login
    <3>4. QED
      BY <3>1, <3>3, CountersFrame
  <2>2. CASE ReadLocal(l)
    BY <2>2, ReadCounters
  <2>3. CASE WriteLocal(l)
    BY <2>3, WriteCounters
  <2>4. CASE Authenticate(l) \/ FinishLogin(l)
    <3>1. attempts' = attempts
      BY <2>4 DEF Authenticate, FinishLogin
    <3>2. PICK p \in {"verified", "rejected", "done"} :
            login' = [login EXCEPT ![l].phase = p]
      BY <2>4 DEF Authenticate, FinishLogin
    <3>3. SameReadings
      BY <3>2 DEF TypeOK, Login
    <3>4. QED
      BY <1>2, <3>1, <3>3, CountersFrame
  <2>5. QED
    BY <1>5, <2>1, <2>2, <2>3, <2>4 DEF LoginStep
<1>6. CASE RedisRestart
  <2>1. \A u \in Users : /\ attempts'[u].count = 0
                         /\ attempts'[u].local = attempts[u].local
    BY <1>6 DEF RedisRestart, NoAttempts
  <2>2. login' = login
    BY <1>6 DEF RedisRestart
  <2>3. QED
    BY <1>1, <1>3, <2>1, <2>2, CountersFrame
<1>7. CASE Crash
  <2>1. \A u \in Users : /\ attempts'[u].count = attempts[u].count
                         /\ attempts'[u].local = 0
    BY <1>7 DEF Crash, TypeOK, Attempts
  <2>2. SameReadings
    BY <1>7 DEF Crash, TypeOK, Login
  <2>3. QED
    BY <1>1, <2>1, <2>2, CountersFrame
<1>8. ASSUME NEW u \in Users, WindowEnds(u) PROVE CountersAreEarned'
  <2>1. Smaller
    BY <1>1, <1>8 DEF WindowEnds, TypeOK, Attempts
  <2>2. login' = login
    BY <1>8 DEF WindowEnds
  <2>3. QED
    BY <1>3, <2>1, <2>2, CountersFrame
<1>9. CASE UNCHANGED <<attempts, login>>
  BY <1>2, <1>3, <1>9, CountersFrame
<1>10. QED
  BY <1>4, <1>5, <1>6, <1>7, <1>8, <1>9
     DEF Next, RefreshStep, CheckStatus, Revoke, FinishRefresh, CheckToken,
         ToggleStatus, vars

\* A login becomes one too many only by a counter above the limit.
LEMMA NewlyLimited ==
  ASSUME TypeOK, RequestsKnow, CountersAreEarned, [Next]_vars,
         NEW l \in Logins, login[l].phase # "limited", login'[l].phase = "limited"
  PROVE  \E u \in Users :
           /\ login'[l].user = u
           /\ \E S \in {Arrived(u), Counted(u)} :
                l \notin S /\ MaxAttempts <= Cardinality(S)
<1>1. MaxAttempts \in Nat /\ MaxAttempts >= 1
  BY AuthConstants
<1>2. ASSUME NEW m \in Logins, NEW u \in Users, IncrAttempts(m, u)
      PROVE  /\ login'[l].user = u
             /\ l \notin Arrived(u) /\ MaxAttempts <= Cardinality(Arrived(u))
  <2> DEFINE n == attempts[u].count + 1
  <2>1. PICK outcome \in Outcomes : login' = [login EXCEPT ![m].user = u,
          ![m].phase = CASE FallsBack(outcome) -> "fallback"
                         [] ~FallsBack(outcome) /\ n = 1 -> "first"
                         [] OTHER -> Judged(n)]
    BY <1>2 DEF IncrAttempts
  <2>2. m = l
    BY <2>1 DEF TypeOK
  <2>3. login'[l].user = u /\ l \notin Arrived(u)
    BY <1>2, <2>1, <2>2, AuthConstants DEF IncrAttempts, Arrived, RequestsKnow, TypeOK, Login
  <2>4. login'[l].phase = CASE FallsBack(outcome) -> "fallback"
                            [] ~FallsBack(outcome) /\ n = 1 -> "first"
                            [] OTHER -> Judged(n)
    BY <2>1, <2>2 DEF TypeOK, Login
  <2>5. ~(n <= MaxAttempts)
    BY <2>4 DEF Judged
  <2>6. /\ attempts[u].count \in Nat
        /\ attempts[u].count <= Cardinality(Arrived(u))
        /\ Cardinality(Arrived(u)) \in Nat
    BY CountedGrows DEF TypeOK, Attempts, CountersAreEarned
  <2>7. QED
    BY <1>1, <2>3, <2>5, <2>6
<1>3. ASSUME NEW m \in Logins, LoginStep(m)
      PROVE  /\ login'[l].user \in Users
             /\ l \notin Counted(login'[l].user)
             /\ MaxAttempts <= Cardinality(Counted(login'[l].user))
  <2>1. WriteLocal(m) /\ m = l
    <3>1. ~ReadLocal(m)
      BY DEF ReadLocal, TypeOK, Login
    <3>2. ~Authenticate(m) /\ ~FinishLogin(m)
      BY DEF Authenticate, FinishLogin, TypeOK, Login
    <3>3. ~ExpireAttempts(m)
      <4>1. Judged(1) = "admitted"
        BY <1>1 DEF Judged
      <4>2. SUFFICES ASSUME ExpireAttempts(m) PROVE FALSE
        OBVIOUS
      <4>3. PICK p \in {"fallback", "admitted"} : login' = [login EXCEPT ![m].phase = p]
        BY <4>1, <4>2 DEF ExpireAttempts
      <4>4. QED
        BY <4>3 DEF TypeOK, Login
    <3>4. WriteLocal(m)
      BY <1>3, <3>1, <3>2, <3>3 DEF LoginStep
    <3>5. QED
      BY <3>4 DEF WriteLocal, TypeOK
  <2>2. /\ login[l].phase = "recount" /\ login[l].user \in Users
        /\ login'[l].user = login[l].user
        /\ login'[l].phase = Judged(login[l].read + 1)
    BY <2>1, ArrivedLogin DEF WriteLocal, TypeOK, Login
  <2>3. login[l].read \in Nat /\ ~(login[l].read + 1 <= MaxAttempts)
    BY <2>2 DEF Judged, TypeOK, Login
  <2>4. l \notin Counted(login[l].user)
    BY <2>2 DEF Counted
  <2>5. /\ login[l].read <= Cardinality(Counted(login[l].user))
        /\ Cardinality(Counted(login[l].user)) \in Nat
    BY <2>2, CountedGrows DEF CountersAreEarned
  <2>6. QED
    BY <1>1, <2>2, <2>3, <2>4, <2>5
<1>4. ~Crash
  BY DEF Crash, TypeOK, Login
<1>5. CASE \E m \in Logins, u \in Users : IncrAttempts(m, u)
  BY <1>2, <1>5
<1>6. CASE \E m \in Logins : LoginStep(m)
  BY <1>3, <1>6
<1>7. QED
  BY <1>4, <1>5, <1>6
     DEF Next, RefreshStep, CheckStatus, Revoke, FinishRefresh, CheckToken,
         ToggleStatus, WindowEnds, RedisRestart, vars

\* Refused logins stay earned in every step.
LEMMA NextLimit ==
  TypeOK /\ RequestsKnow /\ CountersAreEarned /\ LimitIsEarned /\ [Next]_vars
    => LimitIsEarned'
<1> SUFFICES ASSUME TypeOK, RequestsKnow, CountersAreEarned, LimitIsEarned,
                    [Next]_vars, NEW l \in Logins, login'[l].phase = "limited"
             PROVE  Cardinality({m \in Logins \ {l} : login'[m].user = login'[l].user})
                      >= MaxAttempts
  BY DEF LimitIsEarned
<1> DEFINE Others == {m \in Logins \ {l} : login'[m].user = login'[l].user}
<1>1. MaxAttempts \in Nat /\ NoUser \notin Users
  BY AuthConstants
<1>2. \E S \in SUBSET Others : MaxAttempts <= Cardinality(S)
  <2>1. CASE login[l].phase = "limited"
    <3> DEFINE Before == {m \in Logins \ {l} : login[m].user = login[l].user}
    <3>1. login[l].user \in Users /\ login'[l].user = login[l].user
      BY <2>1, ArrivedLogin, LoginKnows
    <3>2. Before \subseteq Others
      BY <1>1, <3>1, LoginKnows DEF RequestsKnow
    <3>3. Cardinality(Before) >= MaxAttempts
      BY <2>1 DEF LimitIsEarned
    <3>4. Cardinality(Before) \in Nat
      BY LoginSets
    <3>5. QED
      BY <1>1, <3>2, <3>3, <3>4
  <2>2. CASE login[l].phase # "limited"
    <3>1. PICK u \in Users :
            /\ login'[l].user = u
            /\ \E S \in {Arrived(u), Counted(u)} :
                 l \notin S /\ MaxAttempts <= Cardinality(S)
      BY <2>2, NewlyLimited
    <3>2. PICK S \in {Arrived(u), Counted(u)} :
            l \notin S /\ MaxAttempts <= Cardinality(S)
      BY <3>1
    <3>3. S \subseteq Arrived(u)' /\ S \subseteq Logins
      BY <3>2, CountedGrows
    <3>4. S \subseteq Others
      BY <3>1, <3>2, <3>3 DEF Arrived
    <3>5. QED
      BY <3>2, <3>4
  <2>3. QED
    BY <2>1, <2>2
<1>3. PICK S \in SUBSET Others : MaxAttempts <= Cardinality(S)
  BY <1>2
<1>4. /\ Cardinality(S) \in Nat /\ Cardinality(Others) \in Nat
      /\ Cardinality(S) <= Cardinality(Others)
  <2>1. Others \in SUBSET Logins
    OBVIOUS
  <2>2. QED
    BY <2>1, LoginSets
<1>5. QED
  BY <1>1, <1>3, <1>4

-----------------------------------------------------------------------------
(* The theorems *)

\* At the start no request has arrived and nothing is stored or counted.
LEMMA InitInv == Init => IInv
<1> SUFFICES ASSUME Init PROVE IInv
  OBVIOUS
<1>1. TypeOK
  BY InitType
<1>2. RequestsKnow /\ OutagesFillMemory /\ SpentStaysSpent /\ LimitIsEarned
  BY DEF Init, RequestsKnow, OutagesFillMemory, SpentStaysSpent, Spenders, LimitIsEarned
<1>3. IssuedTokenWorks
  BY DEF Init, IssuedTokenWorks, Issued, Tokens
<1>4. CountersAreEarned
  <2>1. ASSUME NEW u \in Users
        PROVE  Cardinality(Arrived(u)) \in Nat /\ Cardinality(Counted(u)) \in Nat
    <3>1. Arrived(u) \in SUBSET Logins /\ Counted(u) \in SUBSET Logins
      BY DEF Arrived, Counted
    <3>2. QED
      BY <3>1, LoginSets
  <2>2. QED
    BY <2>1 DEF Init, NoAttempts, CountersAreEarned
<1>5. QED
  BY <1>1, <1>2, <1>3, <1>4 DEF IInv

\* IInv holds in every reachable state.
THEOREM AuthInvariant == Spec => []IInv
<1>1. IInv /\ [Next]_vars => IInv'
  <2> SUFFICES ASSUME IInv, [Next]_vars PROVE IInv'
    OBVIOUS
  <2>1. TypeOK' /\ RequestsKnow'
    BY NextType, NextKnow DEF IInv
  <2>2. OutagesFillMemory' /\ SpentStaysSpent' /\ IssuedTokenWorks'
    BY NextMemory, NextSpent, NextWorks DEF IInv
  <2>3. CountersAreEarned' /\ LimitIsEarned'
    BY <2>1, NextCounters, NextLimit DEF IInv
  <2>4. QED
    BY <2>1, <2>2, <2>3 DEF IInv
<1>2. QED
  BY InitInv, <1>1, PTL DEF Spec

\* TypeOK holds in every reachable state.
THEOREM TypeCorrect == Spec => []TypeOK
<1>1. IInv => TypeOK
  BY DEF IInv
<1>2. QED
  BY <1>1, AuthInvariant, PTL

\* SpentStaysSpent holds in every reachable state: without an outage, no crash,
\* restart or reactivation brings a revoked token back.
THEOREM SpentForGood == Spec => []SpentStaysSpent
<1>1. IInv => SpentStaysSpent
  BY DEF IInv
<1>2. QED
  BY <1>1, AuthInvariant, PTL

\* IssuedTokenWorks holds in every reachable state: sessions of one account do
\* not end each other.
THEOREM SessionsAreIndependent == Spec => []IssuedTokenWorks
<1>1. IInv => IssuedTokenWorks
  BY DEF IInv
<1>2. QED
  BY <1>1, AuthInvariant, PTL

\* LimitIsEarned holds in every reachable state: nobody is locked out early,
\* whatever the two stores count.
THEOREM NobodyLimitedEarly == Spec => []LimitIsEarned
<1>1. IInv => LimitIsEarned
  BY DEF IInv
<1>2. QED
  BY <1>1, AuthInvariant, PTL

\* Only a token that nobody was given yet is added to the dictionary.
LEMMA RememberedOnce ==
  ASSUME TypeOK, [Next]_vars, NEW t \in Tokens, t \in memory', t \notin memory
  PROVE  ~Issued(t)
<1>1. ASSUME NEW l \in Logins, NEW u \in Users, IncrAttempts(l, u) PROVE FALSE
  BY <1>1 DEF IncrAttempts
<1>2. ASSUME NEW l \in Logins, LoginStep(l) PROVE ~Issued(t)
  <2>1. FinishLogin(l)
    BY <1>2 DEF LoginStep, ExpireAttempts, ReadLocal, WriteLocal, Authenticate
  <2>2. t = l /\ login[l].phase = "verified"
    BY <2>1 DEF FinishLogin, Store
  <2>3. QED
    BY <2>2 DEF Issued
<1>3. ASSUME NEW r \in Refreshes, RefreshStep(r) \/ \E s \in Tokens : CheckToken(r, s)
      PROVE  ~Issued(t)
  <2>1. FinishRefresh(r)
    BY <1>3 DEF RefreshStep, CheckStatus, Revoke, CheckToken
  <2>2. t = r /\ refresh[r].phase = "revoked"
    BY <2>1 DEF FinishRefresh, Store
  <2>3. QED
    BY <2>2, AuthConstants DEF Issued
<1>4. QED
  BY <1>1, <1>2, <1>3
     DEF Next, ToggleStatus, WindowEnds, RedisRestart, Crash, vars

\* Once a client was given a token, each store can only lose it, and it stays given.
StoresOnlyForget ==
  [][\A t \in Tokens : Issued(t) =>
       /\ Issued(t)'
       /\ t \in redis' => t \in redis
       /\ t \in memory' => t \in memory]_vars

\* Under every combination of outages, restarts and crashes: a store that lost a token,
\* or revoked it, never has it again (redis_service.py, auth_service.py:139).
THEOREM StoresForget == Spec => StoresOnlyForget
<1> DEFINE Step == \A t \in Tokens : Issued(t) =>
             /\ Issued(t)'
             /\ t \in redis' => t \in redis
             /\ t \in memory' => t \in memory
<1>1. TypeOK /\ [Next]_vars => [Step]_vars
  <2> SUFFICES ASSUME TypeOK, [Next]_vars, NEW t \in Tokens, Issued(t)
               PROVE  Issued(t)' /\ (t \in redis' => t \in redis)
                                 /\ (t \in memory' => t \in memory)
    OBVIOUS
  <2> QED
    BY IssuedPersists, StoredOnce, RememberedOnce
<1>2. QED
  BY <1>1, TypeCorrect, PTL DEF Spec, StoresOnlyForget
=============================================================================
