--------------------------- MODULE SessionsProofs ---------------------------
(***************************************************************************)
(* Proofs about Sessions, for any number of concurrent requests, addresses *)
(* and sessions and any limit of failed logins.                            *)
(***************************************************************************)
EXTENDS Sessions, FiniteSetTheorems, TLAPS

\* A request is at the label its kind has: a login where it logs in, a page
\* elsewhere.
LEMMA VisitKinds ==
    ASSUME SessionsTypeOK, NEW a \in Visitors, visit[a] # NoVisit
    PROVE  /\ visit[a].at \in {"locked", "verify", "record", "clear", "create"} => visit[a] \in Login
           /\ visit[a].at \in {"auth", "csrf", "handle", "store"} => visit[a] \in Paged
BY DEF SessionsTypeOK, Login, Paged

\* A login that goes on stays a login.
LEMMA LoginGoes ==
    ASSUME SessionsTypeOK, NEW a \in Visitors, visit[a] \in Login,
           NEW label \in {"locked", "verify", "record", "clear", "create"}, VisitGoes(a, label)
    PROVE  visit' \in [Visitors -> Login \union Paged \union {NoVisit}]
<1>1. [visit[a] EXCEPT !.at = label] \in Login
  BY DEF Login
<1> QED BY <1>1 DEF VisitGoes, SessionsTypeOK

\* The same for a request for a page.
LEMMA PageGoes ==
    ASSUME SessionsTypeOK, NEW a \in Visitors, visit[a] \in Paged,
           NEW label \in {"auth", "csrf", "handle", "store"}, VisitGoes(a, label)
    PROVE  visit' \in [Visitors -> Login \union Paged \union {NoVisit}]
<1>1. [visit[a] EXCEPT !.at = label] \in Paged
  BY DEF Paged
<1> QED BY <1>1 DEF VisitGoes, SessionsTypeOK

\* A request that ends leaves the others as they were.
LEMMA EndsType ==
    ASSUME SessionsTypeOK, NEW a \in Visitors, VisitEnds(a)
    PROVE  visit' \in [Visitors -> Login \union Paged \union {NoVisit}]
BY DEF VisitEnds, SessionsTypeOK

\* Failures are counted in natural numbers.
Attempts == [count : Nat, recent : BOOLEAN]

\* The three ways the code changes an address's entry.
LEMMA AttemptsType ==
    /\ [count |-> 0, recent |-> FALSE] \in Attempts
    /\ \A r \in Attempts : [count |-> r.count + 1, recent |-> TRUE] \in Attempts
    /\ \A r \in Attempts : [r EXCEPT !.recent = FALSE] \in Attempts
<1>1. [count |-> 0, recent |-> FALSE] \in Attempts
  BY DEF Attempts
<1>2. ASSUME NEW r \in Attempts PROVE [count |-> r.count + 1, recent |-> TRUE] \in Attempts
  <2>1. r.count + 1 \in Nat
    BY DEF Attempts
  <2> QED BY <2>1 DEF Attempts
<1>3. ASSUME NEW r \in Attempts PROVE [r EXCEPT !.recent = FALSE] \in Attempts
  BY DEF Attempts
<1> QED BY <1>1, <1>2, <1>3

\* One address's entry is replaced by another.
LEMMA AttemptsChange ==
    ASSUME SessionsTypeOK, NEW ip \in Addrs, NEW r \in Attempts,
           loginAttempts' = [loginAttempts EXCEPT ![ip] = r]
    PROVE  loginAttempts' \in [Addrs -> Attempts]
BY DEF SessionsTypeOK, Attempts

-----------------------------------------------------------------------------
(* Types.                                                                  *)

\* A request that arrives is a login or a page.
LEMMA ArriveType ==
    ASSUME SessionsTypeOK, NEW a \in Visitors, Arrive(a)
    PROVE  SessionsTypeOK'
<1> USE SessionsAssumption DEF SessionsAssumption
<1>1. visits' \in 0..MaxVisits
  <2>1. visits \in 0..MaxVisits /\ visits < MaxVisits /\ visits' = visits + 1
    BY Zenon DEF Arrive, SessionsTypeOK
  <2> QED BY <2>1
<1>2. visit' \in [Visitors -> Login \union Paged \union {NoVisit}]
  <2>1. ASSUME NEW ip \in Addrs, NEW given \in Given, ArriveLogin(a, ip, given)
        PROVE  visit' \in [Visitors -> Login \union Paged \union {NoVisit}]
    <3>1. [kind |-> "login", ip |-> ip, given |-> given, at |-> "locked"] \in Login
      BY DEF Login
    <3> QED BY <2>1, <3>1 DEF ArriveLogin, SessionsTypeOK
  <2>2. ASSUME NEW kind \in {"get", "logout", "account"}, NEW i \in Ids, NEW token \in CsrfTokens,
               NEW given \in Given, ArrivePage(a, kind, i, token, given)
        PROVE  visit' \in [Visitors -> Login \union Paged \union {NoVisit}]
    <3>1. [kind |-> kind, id |-> i, token |-> token, given |-> given, at |-> "auth"] \in Paged
      BY DEF Paged
    <3> QED BY <2>2, <3>1 DEF ArrivePage, SessionsTypeOK
  <2> QED BY <2>1, <2>2 DEF Arrive
<1> QED BY <1>1, <1>2 DEF Arrive, SessionsTypeOK, mapVars, loginVars

\* Every step of a login keeps the types.
LEMMA LoginType ==
    ASSUME SessionsTypeOK, NEW a \in Visitors, LoginStep(a)
    PROVE  SessionsTypeOK'
<1> USE SessionsAssumption DEF SessionsAssumption
<1>1. CASE IsLoginLocked(a)
  <2>1. visit[a] \in Login /\ visit[a].ip \in Addrs
    BY <1>1, VisitKinds DEF IsLoginLocked, VisitAt, Login
  <2>2. visit' \in [Visitors -> Login \union Paged \union {NoVisit}]
    BY <1>1, <2>1, LoginGoes, EndsType DEF IsLoginLocked
  <2>3. loginAttempts' \in [Addrs -> Attempts]
    <3>1. \/ loginAttempts' = loginAttempts
          \/ loginAttempts' = [loginAttempts EXCEPT ![visit[a].ip] = [count |-> 0, recent |-> FALSE]]
      BY <1>1 DEF IsLoginLocked
    <3>2. loginAttempts \in [Addrs -> Attempts]
      BY DEF SessionsTypeOK, Attempts
    <3> QED BY <3>1, <3>2, <2>1, AttemptsType, AttemptsChange
  <2> QED BY <1>1, <2>2, <2>3 DEF IsLoginLocked, SessionsTypeOK, mapVars, Attempts
<1>2. CASE VerifyLogin(a)
  <2>1. visit[a] \in Login
    BY <1>2, VisitKinds DEF VerifyLogin, VisitAt
  <2>2. visit' \in [Visitors -> Login \union Paged \union {NoVisit}]
    <3>1. ASSUME VisitGoes(a, IF Verifies(visit[a].given, passwordHash) THEN "clear" ELSE "record")
          PROVE  visit' \in [Visitors -> Login \union Paged \union {NoVisit}]
      <4>1. CASE Verifies(visit[a].given, passwordHash)
        BY <3>1, <4>1, <2>1, LoginGoes
      <4>2. CASE ~Verifies(visit[a].given, passwordHash)
        BY <3>1, <4>2, <2>1, LoginGoes
      <4> QED BY <4>1, <4>2
    <3> QED BY <1>2, <3>1, EndsType DEF VerifyLogin
  <2> QED BY <1>2, <2>2 DEF VerifyLogin, SessionsTypeOK, mapVars, loginVars
<1>3. CASE RecordLoginFailure(a)
  <2>1. visit[a].ip \in Addrs
    BY <1>3, VisitKinds DEF RecordLoginFailure, VisitAt, Login
  <2>2. loginAttempts' \in [Addrs -> Attempts]
    <3>1. loginAttempts[visit[a].ip] \in Attempts
      BY <2>1 DEF SessionsTypeOK, Attempts
    <3>2. loginAttempts' = [loginAttempts EXCEPT ![visit[a].ip] =
              [count |-> loginAttempts[visit[a].ip].count + 1, recent |-> TRUE]]
      BY <1>3, <2>1 DEF RecordLoginFailure, SessionsTypeOK
    <3> QED BY <3>1, <3>2, <2>1, AttemptsType, AttemptsChange
  <2>3. visit' \in [Visitors -> Login \union Paged \union {NoVisit}]
    BY <1>3, EndsType DEF RecordLoginFailure
  <2> QED BY <1>3, <2>2, <2>3 DEF RecordLoginFailure, SessionsTypeOK, mapVars, Attempts
<1>4. CASE ClearLoginFailures(a)
  <2>1. visit[a] \in Login /\ visit[a].ip \in Addrs
    BY <1>4, VisitKinds DEF ClearLoginFailures, VisitAt, Login
  <2>2. loginAttempts' \in [Addrs -> Attempts]
    BY <1>4, <2>1, AttemptsType, AttemptsChange DEF ClearLoginFailures
  <2>3. visit' \in [Visitors -> Login \union Paged \union {NoVisit}]
    BY <1>4, <2>1, LoginGoes DEF ClearLoginFailures
  <2> QED BY <1>4, <2>2, <2>3 DEF ClearLoginFailures, SessionsTypeOK, mapVars, Attempts
<1>5. CASE CreateSession(a)
  <2>1. visit' \in [Visitors -> Login \union Paged \union {NoVisit}]
    BY <1>5, EndsType DEF CreateSession
  <2>2. issued' \in 0..MaxSessions /\ generated' \in CsrfTokens /\ generated + 1 \in CsrfTokens
    <3>1. /\ issued < MaxSessions /\ generated < MaxCsrf
          /\ issued' = issued + 1 /\ generated' = generated + 1
          /\ issued \in 0..MaxSessions /\ generated \in CsrfTokens
      BY <1>5 DEF CreateSession, SessionsTypeOK
    <3> QED BY <3>1 DEF CsrfTokens
  <2>3. sessions' \in [Ids -> {"absent", "live", "expired"}]
    BY <1>5 DEF CreateSession, SessionsTypeOK
  <2>4. csrfTokens' \in [Ids -> CsrfTokens]
    <3>1. 0 \in CsrfTokens
      BY DEF CsrfTokens
    <3> QED BY <1>5, <2>2, <3>1 DEF CreateSession, SessionsTypeOK
  <2> QED BY <1>5, <2>1, <2>2, <2>3, <2>4 DEF CreateSession, SessionsTypeOK, loginVars
<1> QED BY <1>1, <1>2, <1>3, <1>4, <1>5 DEF LoginStep

\* Every step of a page keeps the types.
LEMMA PageStepType ==
    ASSUME SessionsTypeOK, NEW a \in Visitors, PageStep(a)
    PROVE  SessionsTypeOK'
<1> DEFINE VisitOK == visit' \in [Visitors -> Login \union Paged \union {NoVisit}]
<1> USE DEF pageFrame, mapVars
<1>0. /\ VisitAt(a, "auth") \/ VisitAt(a, "csrf") \/ VisitAt(a, "handle") \/ VisitAt(a, "store")
      /\ visit[a] \in Paged /\ visit[a].id \in Ids /\ visit[a].token \in CsrfTokens
  <2>1. VisitAt(a, "auth") \/ VisitAt(a, "csrf") \/ VisitAt(a, "handle") \/ VisitAt(a, "store")
    BY DEF PageStep, RequireAuth, CSRFProtect, SendPage, Logout, CheckCurrent, StorePassword
  <2>2. visit[a] \in Paged
    BY <2>1, VisitKinds DEF VisitAt
  <2> QED BY <2>1, <2>2 DEF Paged
<1>1. CASE RequireAuth(a)
  <2>1. VisitOK
    BY <1>0, <1>1, PageGoes, EndsType DEF RequireAuth
  <2>2. sessions' \in [Ids -> {"absent", "live", "expired"}]
    BY <1>0, <1>1 DEF RequireAuth, SessionsTypeOK
  <2> QED BY <1>1, <2>1, <2>2 DEF RequireAuth, SessionsTypeOK
<1>2. CASE CSRFProtect(a)
  <2> DEFINE i == visit[a].id
             token == IF NeedsToken(i) THEN generated + 1 ELSE csrfTokens[i]
  <2>1. token \in CsrfTokens
    <3>1. csrfTokens[i] \in CsrfTokens /\ generated \in CsrfTokens /\ token <= MaxCsrf
      BY <1>0, <1>2 DEF CSRFProtect, SessionsTypeOK
    <3>2. generated + 1 <= MaxCsrf => generated + 1 \in CsrfTokens
      BY <3>1, SessionsAssumption DEF CsrfTokens, SessionsAssumption
    <3> QED BY <3>1, <3>2
  <2> HIDE DEF token
  <2>2. /\ csrfTokens' = [csrfTokens EXCEPT ![i] = token]
        /\ generated' = token \/ generated' = generated
    BY <1>2 DEF CSRFProtect, token
  <2>3. csrfTokens' \in [Ids -> CsrfTokens] /\ generated' \in CsrfTokens
    BY <1>0, <2>1, <2>2 DEF SessionsTypeOK
  <2>4. VisitOK
    <3>1. [visit[a] EXCEPT !.at = "handle", !.token = token] \in Paged
      BY <1>0, <2>1 DEF Paged
    <3>2. \/ visit' = [visit EXCEPT ![a].at = "handle", ![a].token = token]
          \/ VisitGoes(a, "handle") \/ VisitEnds(a)
      BY <1>2 DEF CSRFProtect, token
    <3>3. ASSUME visit' = [visit EXCEPT ![a].at = "handle", ![a].token = token] PROVE VisitOK
      BY <3>1, <3>3 DEF SessionsTypeOK
    <3> QED BY <1>0, <3>2, <3>3, PageGoes, EndsType
  <2> QED BY <1>2, <2>3, <2>4 DEF CSRFProtect, SessionsTypeOK
<1>3. CASE SendPage(a)
  <2>1. VisitOK
    BY <1>3, EndsType DEF SendPage
  <2>2. forms' \subseteq Ids \X CsrfTokens
    <3>1. <<visit[a].id, visit[a].token>> \in Ids \X CsrfTokens
      BY <1>0
    <3>2. forms' = forms \union {<<visit[a].id, visit[a].token>>} /\ forms \subseteq Ids \X CsrfTokens
      BY <1>3 DEF SendPage, SessionsTypeOK
    <3> QED BY <3>1, <3>2, Zenon
  <2> QED BY <1>3, <2>1, <2>2 DEF SendPage, SessionsTypeOK
<1>4. CASE Logout(a)
  <2>1. VisitOK
    BY <1>4, EndsType DEF Logout
  <2>2. 0 \in CsrfTokens
    BY SessionsAssumption DEF SessionsAssumption, CsrfTokens
  <2>3. /\ sessions' \in [Ids -> {"absent", "live", "expired"}]
        /\ csrfTokens' \in [Ids -> CsrfTokens]
    BY <1>0, <1>4, <2>2 DEF Logout, DestroySession, SessionsTypeOK
  <2> QED BY <1>4, <2>1, <2>3 DEF Logout, SessionsTypeOK
<1>5. CASE CheckCurrent(a)
  <2>1. VisitOK
    BY <1>0, <1>5, PageGoes, EndsType DEF CheckCurrent
  <2> QED BY <1>5, <2>1 DEF CheckCurrent, SessionsTypeOK
<1>6. CASE StorePassword(a)
  <2>1. VisitOK
    BY <1>6, EndsType DEF StorePassword
  <2> QED BY <1>6, <2>1 DEF StorePassword, SessionsTypeOK
<1> QED BY <1>1, <1>2, <1>3, <1>4, <1>5, <1>6 DEF PageStep

\* The maps of the session manager, the requests and the pages sent out keep their
\* types, whatever requests overlap.
THEOREM TypeCorrect == SessionsSpec => []SessionsTypeOK
<1>1. SessionsInit => SessionsTypeOK
  <2> SUFFICES ASSUME SessionsInit PROVE SessionsTypeOK
    OBVIOUS
  <2>1. loginAttempts \in [Addrs -> Attempts]
    BY AttemptsType DEF SessionsInit
  <2>2. 0 \in CsrfTokens /\ 0 \in 0..MaxSessions /\ 0 \in 0..MaxVisits
    BY SessionsAssumption DEF SessionsAssumption, CsrfTokens
  <2>3. hashFaults \subseteq {"hash"}
    BY SessionsAssumption DEF SessionsAssumption, SessionsInit
  <2> QED BY <2>1, <2>2, <2>3 DEF SessionsInit, SessionsTypeOK, Attempts
<1>2. SessionsTypeOK /\ [SessionsNext]_sessionVars => SessionsTypeOK'
  <2> SUFFICES ASSUME SessionsTypeOK, [SessionsNext]_sessionVars PROVE SessionsTypeOK'
    OBVIOUS
  <2>1. ASSUME NEW i \in Ids, ExpireSession(i) PROVE SessionsTypeOK'
    <3>1. sessions' \in [Ids -> {"absent", "live", "expired"}]
      BY <2>1 DEF ExpireSession, SessionsTypeOK
    <3> QED BY <2>1, <3>1 DEF ExpireSession, SessionsTypeOK, loginVars
  <2>2. ASSUME NEW ip \in Addrs, EndLockout(ip) PROVE SessionsTypeOK'
    <3>1. loginAttempts[ip] \in Attempts
      BY DEF SessionsTypeOK, Attempts
    <3>2. loginAttempts' = [loginAttempts EXCEPT ![ip] = [loginAttempts[ip] EXCEPT !.recent = FALSE]]
      BY <2>2 DEF EndLockout
    <3>3. loginAttempts' \in [Addrs -> Attempts]
      BY <3>1, <3>2, AttemptsType, AttemptsChange
    <3> QED BY <2>2, <3>3 DEF EndLockout, SessionsTypeOK, mapVars, Attempts
  <2>3. CASE UNCHANGED sessionVars
    BY <2>3 DEF SessionsTypeOK, sessionVars, mapVars, loginVars
  <2> QED BY <2>1, <2>2, <2>3, ArriveType, LoginType, PageStepType DEF SessionsNext
<1> QED BY <1>1, <1>2, PTL DEF SessionsSpec

-----------------------------------------------------------------------------
(* The lockout.                                                            *)

\* The requests past the check of their address's lock.
PastCheck(ip) ==
    {a \in Visitors : visit[a] # NoVisit /\ visit[a].kind = "login" /\ visit[a].ip = ip
                      /\ visit[a].at # "locked"}

\* The failures counted and those that may still be.
LockoutInv ==
    \A ip \in Addrs : loginAttempts[ip].count + Cardinality(PastCheck(ip))
                          <= maxLoginAttempts - 1 + Cardinality(Visitors)

\* Any set of requests is finite, and no larger than the set of all.
LEMMA VisitorsFinite ==
    /\ Cardinality(Visitors) \in Nat
    /\ \A S \in SUBSET Visitors : IsFiniteSet(S) /\ Cardinality(S) \in Nat
                                  /\ Cardinality(S) <= Cardinality(Visitors)
    /\ \A S \in SUBSET Visitors, T \in SUBSET Visitors :
            S \subseteq T => Cardinality(S) <= Cardinality(T)
    /\ \A S \in SUBSET Visitors, a \in Visitors :
            a \in S => Cardinality(S \ {a}) = Cardinality(S) - 1
<1>1. IsFiniteSet(Visitors)
  BY SessionsAssumption DEF SessionsAssumption
<1>2. \A S \in SUBSET Visitors : IsFiniteSet(S) /\ Cardinality(S) <= Cardinality(Visitors)
  BY <1>1, FS_Subset
<1>3. \A S \in SUBSET Visitors : Cardinality(S) \in Nat
  BY <1>2, FS_CardinalityType
<1>4. \A S \in SUBSET Visitors, T \in SUBSET Visitors :
            S \subseteq T => Cardinality(S) <= Cardinality(T)
  BY <1>2, FS_Subset
<1>5. \A S \in SUBSET Visitors, a \in Visitors : a \in S => Cardinality(S \ {a}) = Cardinality(S) - 1
  BY <1>2, FS_RemoveElement
<1> QED BY <1>1, <1>2, <1>3, <1>4, <1>5

\* The step of one request takes no other past the check.
LEMMA PastShrinks ==
    ASSUME NEW a \in Visitors, NEW ip \in Addrs,
           \A b \in Visitors \ {a} : visit'[b] = visit[b],
           a \in PastCheck(ip)' => a \in PastCheck(ip)
    PROVE  PastCheck(ip)' \subseteq PastCheck(ip)
BY DEF PastCheck

\* Bound of an address for which neither the count nor the requests grow.
LEMMA BoundKept ==
    ASSUME SessionsTypeOK, SessionsTypeOK', LockoutInv, NEW ip \in Addrs,
           PastCheck(ip)' \subseteq PastCheck(ip),
           loginAttempts'[ip].count <= loginAttempts[ip].count
    PROVE  loginAttempts'[ip].count + Cardinality(PastCheck(ip)')
               <= maxLoginAttempts - 1 + Cardinality(Visitors)
<1>1. PastCheck(ip) \in SUBSET Visitors /\ PastCheck(ip)' \in SUBSET Visitors
  BY DEF PastCheck
<1>2. /\ Cardinality(PastCheck(ip)') <= Cardinality(PastCheck(ip))
      /\ Cardinality(PastCheck(ip)') \in Nat /\ Cardinality(PastCheck(ip)) \in Nat
      /\ Cardinality(Visitors) \in Nat
  BY <1>1, VisitorsFinite
<1>3. loginAttempts'[ip].count \in Nat /\ loginAttempts[ip].count \in Nat
  BY DEF SessionsTypeOK
<1>4. maxLoginAttempts \in Nat
  BY SessionsAssumption DEF SessionsAssumption
<1>5. loginAttempts[ip].count + Cardinality(PastCheck(ip)) <= maxLoginAttempts - 1 + Cardinality(Visitors)
  BY DEF LockoutInv
<1> QED BY <1>2, <1>3, <1>4, <1>5

\* Bound of an address whose count is below the limit, whoever is past the check.
LEMMA BoundBelow ==
    ASSUME NEW ip \in Addrs, NEW c \in Nat, c <= maxLoginAttempts - 1
    PROVE  c + Cardinality(PastCheck(ip)') <= maxLoginAttempts - 1 + Cardinality(Visitors)
<1>1. PastCheck(ip)' \in SUBSET Visitors
  BY DEF PastCheck
<1>2. /\ Cardinality(PastCheck(ip)') <= Cardinality(Visitors)
      /\ Cardinality(PastCheck(ip)') \in Nat /\ Cardinality(Visitors) \in Nat
  BY <1>1, VisitorsFinite
<1>3. maxLoginAttempts \in Nat
  BY SessionsAssumption DEF SessionsAssumption
<1> QED BY <1>2, <1>3

\* Requests that arrive, and those that log nobody in, change neither.
LEMMA OthersKeepBound ==
    ASSUME SessionsTypeOK, SessionsTypeOK', LockoutInv, NEW a \in Visitors,
           Arrive(a) \/ PageStep(a)
    PROVE  LockoutInv'
<1> SUFFICES ASSUME NEW ip \in Addrs
             PROVE  loginAttempts'[ip].count + Cardinality(PastCheck(ip)')
                        <= maxLoginAttempts - 1 + Cardinality(Visitors)
  BY DEF LockoutInv
<1>1. loginAttempts' = loginAttempts
  BY DEF Arrive, PageStep, RequireAuth, CSRFProtect, SendPage, Logout, CheckCurrent, StorePassword,
         pageFrame, loginVars
<1>2. \A b \in Visitors \ {a} : visit'[b] = visit[b]
  BY DEF Arrive, ArriveLogin, ArrivePage, PageStep, RequireAuth, CSRFProtect, SendPage, Logout,
         CheckCurrent, StorePassword, VisitGoes, VisitEnds, SessionsTypeOK
<1>3. a \notin PastCheck(ip)'
  <2>1. CASE Arrive(a)
    <3>1. visit'[a].at = "locked" \/ visit'[a].kind \in {"get", "logout", "account"}
      <4>1. ASSUME NEW jp, NEW given, ArriveLogin(a, jp, given) PROVE visit'[a].at = "locked"
        BY <4>1 DEF ArriveLogin, SessionsTypeOK
      <4>2. ASSUME NEW kind \in {"get", "logout", "account"}, NEW i, NEW token, NEW given,
                   ArrivePage(a, kind, i, token, given)
            PROVE  visit'[a].kind \in {"get", "logout", "account"}
        BY <4>2 DEF ArrivePage, SessionsTypeOK
      <4> QED BY <2>1, <4>1, <4>2 DEF Arrive
    <3> QED BY <3>1 DEF PastCheck
  <2>2. CASE PageStep(a)
    <3>1. visit[a] \in Paged
      <4>1. VisitAt(a, "auth") \/ VisitAt(a, "csrf") \/ VisitAt(a, "handle") \/ VisitAt(a, "store")
        BY <2>2 DEF PageStep, RequireAuth, CSRFProtect, SendPage, Logout, CheckCurrent, StorePassword
      <4> QED BY <4>1, VisitKinds DEF VisitAt
    <3>2. visit'[a] = NoVisit \/ visit'[a].kind = visit[a].kind
      <4>1. ASSUME NEW label, VisitGoes(a, label) PROVE visit'[a].kind = visit[a].kind
        BY <4>1, <3>1 DEF VisitGoes, SessionsTypeOK, Paged
      <4>2. ASSUME NEW t, visit' = [visit EXCEPT ![a].at = "handle", ![a].token = t]
            PROVE  visit'[a].kind = visit[a].kind
        BY <4>2, <3>1 DEF SessionsTypeOK, Paged
      <4>3. ASSUME VisitEnds(a) PROVE visit'[a] = NoVisit
        BY <4>3 DEF VisitEnds, SessionsTypeOK
      <4>4. \/ VisitEnds(a) \/ \E label : VisitGoes(a, label)
            \/ \E t : visit' = [visit EXCEPT ![a].at = "handle", ![a].token = t]
        BY <2>2 DEF PageStep, RequireAuth, CSRFProtect, SendPage, Logout, CheckCurrent, StorePassword
      <4> QED BY <4>1, <4>2, <4>3, <4>4
    <3> QED BY <3>1, <3>2 DEF PastCheck, Paged
  <2> QED BY <2>1, <2>2
<1>4. PastCheck(ip)' \subseteq PastCheck(ip)
  BY <1>2, <1>3, PastShrinks
<1>5. loginAttempts[ip].count \in Nat
  BY DEF SessionsTypeOK
<1>6. loginAttempts'[ip].count <= loginAttempts[ip].count
  BY <1>1, <1>5
<1> QED BY <1>4, <1>6, BoundKept

\* Every step of a login keeps the bound: the check lets a request pass only below the
\* limit, and a failure is counted by a request that then is no longer past the check.
LEMMA LoginKeepsBound ==
    ASSUME SessionsTypeOK, SessionsTypeOK', LockoutInv, NEW a \in Visitors, LoginStep(a)
    PROVE  LockoutInv'
<1> SUFFICES ASSUME NEW ip \in Addrs
             PROVE  loginAttempts'[ip].count + Cardinality(PastCheck(ip)')
                        <= maxLoginAttempts - 1 + Cardinality(Visitors)
  BY DEF LockoutInv
<1>1. visit[a] # NoVisit /\ visit[a] \in Login /\ visit[a].ip \in Addrs /\ visit[a].kind = "login"
  <2>1. \E label \in {"locked", "verify", "record", "clear", "create"} : VisitAt(a, label)
    BY DEF LoginStep, IsLoginLocked, VerifyLogin, RecordLoginFailure, ClearLoginFailures, CreateSession
  <2>2. visit[a] # NoVisit /\ visit[a] \in Login
    BY <2>1, VisitKinds DEF VisitAt
  <2> QED BY <2>2 DEF Login
<1>2. \A b \in Visitors \ {a} : visit'[b] = visit[b]
  BY DEF LoginStep, IsLoginLocked, VerifyLogin, RecordLoginFailure, ClearLoginFailures, CreateSession,
         VisitGoes, VisitEnds, SessionsTypeOK
<1>3. ASSUME VisitEnds(a) PROVE a \notin PastCheck(ip)'
  BY <1>3 DEF VisitEnds, PastCheck, SessionsTypeOK
<1>4. ASSUME NEW label, VisitGoes(a, label) PROVE visit'[a].ip = visit[a].ip
  BY <1>1, <1>4 DEF VisitGoes, SessionsTypeOK, Login
<1>5. loginAttempts[ip].count \in Nat /\ loginAttempts'[ip].count \in Nat
  BY DEF SessionsTypeOK
<1>6. maxLoginAttempts \in Nat \ {0}
  BY SessionsAssumption DEF SessionsAssumption
<1>7. ASSUME PastCheck(ip)' \subseteq PastCheck(ip), loginAttempts'[ip] = loginAttempts[ip]
      PROVE  loginAttempts'[ip].count + Cardinality(PastCheck(ip)')
                 <= maxLoginAttempts - 1 + Cardinality(Visitors)
  <2>1. loginAttempts'[ip].count <= loginAttempts[ip].count
    BY <1>5, <1>7
  <2> QED BY <1>7, <2>1, BoundKept
<1>8. CASE VisitEnds(a) /\ loginAttempts'[ip] = loginAttempts[ip]
  BY <1>2, <1>3, <1>7, <1>8, PastShrinks
<1>9. CASE IsLoginLocked(a) /\ ~VisitEnds(a)
  <2>1. VisitGoes(a, "verify")
    BY <1>9 DEF IsLoginLocked
  <2>2. CASE visit[a].ip # ip
    <3>1. loginAttempts'[ip] = loginAttempts[ip]
      BY <1>9, <2>2 DEF IsLoginLocked, SessionsTypeOK
    <3>2. a \notin PastCheck(ip)'
      BY <1>4, <2>1, <2>2 DEF PastCheck
    <3> QED BY <1>2, <1>7, <3>1, <3>2, PastShrinks
  <2>3. CASE visit[a].ip = ip
    <3>1. loginAttempts'[ip].count <= maxLoginAttempts - 1
      <4>1. CASE TooMany(ip)
        <5>1. loginAttempts' = [loginAttempts EXCEPT ![ip] = [count |-> 0, recent |-> FALSE]]
          BY <1>9, <2>3, <4>1 DEF IsLoginLocked
        <5>2. loginAttempts'[ip].count = 0
          BY <5>1 DEF SessionsTypeOK
        <5> QED BY <5>2, <1>6
      <4>2. CASE ~TooMany(ip)
        <5>1. loginAttempts' = loginAttempts
          BY <1>9, <2>3, <4>2 DEF IsLoginLocked
        <5> QED BY <5>1, <4>2, <1>5, <1>6 DEF TooMany
      <4> QED BY <4>1, <4>2
    <3> QED BY <3>1, <1>5, BoundBelow
  <2> QED BY <2>2, <2>3
<1>10. CASE VerifyLogin(a) /\ ~VisitEnds(a)
  <2>1. \E label : VisitGoes(a, label)
    BY <1>10 DEF VerifyLogin
  <2>2. a \in PastCheck(ip)' => a \in PastCheck(ip)
    <3>1. visit[a].at # "locked"
      BY <1>10 DEF VerifyLogin, VisitAt
    <3> QED BY <1>1, <1>4, <2>1, <3>1 DEF PastCheck
  <2>3. loginAttempts'[ip] = loginAttempts[ip]
    BY <1>10 DEF VerifyLogin, loginVars
  <2> QED BY <1>2, <1>7, <2>2, <2>3, PastShrinks
<1>11. CASE RecordLoginFailure(a)
  <2>0. VisitEnds(a)
    BY <1>11 DEF RecordLoginFailure
  <2>1. CASE visit[a].ip # ip
    <3>1. loginAttempts'[ip] = loginAttempts[ip]
      BY <1>11, <2>1 DEF RecordLoginFailure, SessionsTypeOK
    <3> QED BY <1>8, <2>0, <3>1
  <2>2. CASE visit[a].ip = ip
    <3>1. a \in PastCheck(ip)
      BY <1>1, <1>11, <2>2 DEF RecordLoginFailure, VisitAt, PastCheck
    <3>2. PastCheck(ip)' \subseteq PastCheck(ip) \ {a}
      BY <1>2, <1>3, <2>0, <3>1, PastShrinks
    <3>3. PastCheck(ip) \in SUBSET Visitors /\ PastCheck(ip)' \in SUBSET Visitors
      BY DEF PastCheck
    <3>4. /\ Cardinality(PastCheck(ip)') <= Cardinality(PastCheck(ip) \ {a})
          /\ Cardinality(PastCheck(ip) \ {a}) = Cardinality(PastCheck(ip)) - 1
          /\ Cardinality(PastCheck(ip)') \in Nat /\ Cardinality(PastCheck(ip)) \in Nat
          /\ Cardinality(Visitors) \in Nat
      <4>1. PastCheck(ip) \ {a} \in SUBSET Visitors
        BY <3>3
      <4> QED BY <3>1, <3>2, <3>3, <4>1, VisitorsFinite
    <3>5. loginAttempts'[ip].count = loginAttempts[ip].count + 1
      BY <1>11, <2>2 DEF RecordLoginFailure, SessionsTypeOK
    <3>6. loginAttempts[ip].count + Cardinality(PastCheck(ip)) <= maxLoginAttempts - 1 + Cardinality(Visitors)
      BY DEF LockoutInv
    <3> QED BY <3>4, <3>5, <3>6, <1>5, <1>6
  <2> QED BY <2>1, <2>2
<1>12. CASE ClearLoginFailures(a)
  <2>1. CASE visit[a].ip = ip
    <3>1. loginAttempts'[ip].count = 0
      BY <1>12, <2>1 DEF ClearLoginFailures, SessionsTypeOK
    <3>2. loginAttempts'[ip].count <= maxLoginAttempts - 1
      BY <3>1, <1>6
    <3> QED BY <3>2, <1>5, BoundBelow
  <2>2. CASE visit[a].ip # ip
    <3>1. loginAttempts'[ip] = loginAttempts[ip]
      BY <1>12, <2>2 DEF ClearLoginFailures, SessionsTypeOK
    <3>2. a \notin PastCheck(ip)'
      BY <1>4, <1>12, <2>2 DEF ClearLoginFailures, PastCheck
    <3> QED BY <1>2, <1>7, <3>1, <3>2, PastShrinks
  <2> QED BY <2>1, <2>2
<1>13. CASE VisitEnds(a) /\ (IsLoginLocked(a) \/ VerifyLogin(a) \/ CreateSession(a))
  <2>1. CASE loginAttempts' = loginAttempts
    BY <1>8, <1>13, <2>1
  <2>2. CASE IsLoginLocked(a) /\ loginAttempts' # loginAttempts
    <3>3. CASE visit[a].ip = ip
      <4>1. loginAttempts' = [loginAttempts EXCEPT ![ip] = [count |-> 0, recent |-> FALSE]]
        BY <2>2, <3>3 DEF IsLoginLocked
      <4>2. loginAttempts'[ip].count = 0
        BY <4>1 DEF SessionsTypeOK
      <4>3. loginAttempts'[ip].count <= maxLoginAttempts - 1
        BY <4>2, <1>6
      <4> QED BY <4>3, <1>5, BoundBelow
    <3>4. CASE visit[a].ip # ip
      <4>1. loginAttempts'[ip] = loginAttempts[ip]
        BY <2>2, <3>4 DEF IsLoginLocked, SessionsTypeOK
      <4> QED BY <4>1, <1>8, <1>13
    <3> QED BY <3>3, <3>4
  <2> QED BY <1>13, <2>1, <2>2 DEF VerifyLogin, CreateSession, loginVars
<1> QED BY <1>9, <1>10, <1>11, <1>12, <1>13 DEF LoginStep, CreateSession

\* Requests that verify a password at the same time can fail more often than
\* maxLoginAttempts before the address is locked, but by no more than their number.
THEOREM LockoutHolds == SessionsSpec => []LockoutBounded
<1>1. SessionsInit => LockoutInv
  <2> SUFFICES ASSUME SessionsInit, NEW ip \in Addrs
               PROVE  loginAttempts[ip].count + Cardinality(PastCheck(ip))
                          <= maxLoginAttempts - 1 + Cardinality(Visitors)
    BY DEF LockoutInv
  <2>1. loginAttempts[ip].count = 0
    BY DEF SessionsInit
  <2>2. PastCheck(ip) \in SUBSET Visitors
    BY DEF PastCheck
  <2>3. /\ Cardinality(PastCheck(ip)) <= Cardinality(Visitors)
        /\ Cardinality(PastCheck(ip)) \in Nat /\ Cardinality(Visitors) \in Nat
    BY <2>2, VisitorsFinite
  <2>4. maxLoginAttempts \in Nat \ {0}
    BY SessionsAssumption DEF SessionsAssumption
  <2> QED BY <2>1, <2>3, <2>4
<1>2. SessionsTypeOK /\ SessionsTypeOK' /\ LockoutInv /\ [SessionsNext]_sessionVars => LockoutInv'
  <2> SUFFICES ASSUME SessionsTypeOK, SessionsTypeOK', LockoutInv, [SessionsNext]_sessionVars
               PROVE  LockoutInv'
    OBVIOUS
  <2>1. ASSUME visit' = visit, \A ip \in Addrs : loginAttempts'[ip].count = loginAttempts[ip].count
        PROVE  LockoutInv'
    <3>1. \A ip \in Addrs : PastCheck(ip)' = PastCheck(ip)
      BY <2>1 DEF PastCheck
    <3> QED BY <2>1, <3>1 DEF LockoutInv
  <2>2. ASSUME NEW i \in Ids, ExpireSession(i) PROVE LockoutInv'
    BY <2>1, <2>2 DEF ExpireSession, loginVars
  <2>3. ASSUME NEW ip \in Addrs, EndLockout(ip) PROVE LockoutInv'
    <3>1. visit' = visit /\ loginAttempts' = [loginAttempts EXCEPT ![ip].recent = FALSE]
      BY <2>3 DEF EndLockout
    <3>2. \A jp \in Addrs : loginAttempts'[jp].count = loginAttempts[jp].count
      BY <3>1 DEF SessionsTypeOK
    <3> QED BY <2>1, <3>1, <3>2
  <2>4. CASE UNCHANGED sessionVars
    BY <2>1, <2>4 DEF sessionVars, loginVars
  <2> QED BY <2>2, <2>3, <2>4, OthersKeepBound, LoginKeepsBound DEF SessionsNext
<1>3. SessionsTypeOK /\ LockoutInv => LockoutBounded
  <2> SUFFICES ASSUME SessionsTypeOK, LockoutInv, NEW ip \in Addrs
               PROVE  loginAttempts[ip].count <= maxLoginAttempts - 1 + Cardinality(Visitors)
    BY DEF LockoutBounded
  <2>1. PastCheck(ip) \in SUBSET Visitors
    BY DEF PastCheck
  <2>2. Cardinality(PastCheck(ip)) \in Nat /\ Cardinality(Visitors) \in Nat
    BY <2>1, VisitorsFinite
  <2>3. loginAttempts[ip].count \in Nat /\ maxLoginAttempts \in Nat
    BY SessionsAssumption DEF SessionsTypeOK, SessionsAssumption
  <2>4. loginAttempts[ip].count + Cardinality(PastCheck(ip)) <= maxLoginAttempts - 1 + Cardinality(Visitors)
    BY DEF LockoutInv
  <2> QED BY <2>2, <2>3, <2>4
<1> QED BY <1>1, <1>2, <1>3, TypeCorrect, PTL DEF SessionsSpec

-----------------------------------------------------------------------------
(* The tokens of forms.                                                    *)

\* The requests for pages, and those about to be answered with one.
PageRequests == {a \in Visitors : visit[a] # NoVisit /\ visit[a].at \in {"auth", "csrf", "handle", "store"}}
Answering == {a \in PageRequests : visit[a].at = "handle" /\ visit[a].kind = "get"}

\* A live session was issued and has a token; pages, sent or under way, are those of
\* sessions that were issued; what they carry is the token of their session.
FormsInv ==
    /\ \A i \in Ids : sessions[i] = "live" => csrfTokens[i] # 0
    /\ \A f \in forms : f[1] <= issued
    /\ \A a \in PageRequests : visit[a].id <= issued
    /\ \A a \in Answering : sessions[visit[a].id] = "live" => csrfTokens[visit[a].id] = visit[a].token
    /\ FormsStayValid

\* What a step may do to a session that is live after it: it was, with the same
\* token, or it is the one that is created.
LiveKept ==
    \A i \in Ids : sessions'[i] = "live" =>
        \/ sessions[i] = "live" /\ csrfTokens'[i] = csrfTokens[i]
        \/ i = issued + 1 /\ csrfTokens'[i] # 0
IssuedGrows == issued' = issued \/ issued' = issued + 1

\* Every step keeps live sessions that way.
LEMMA MapStep ==
    ASSUME SessionsTypeOK, FormsInv, [SessionsNext]_sessionVars
    PROVE  LiveKept /\ IssuedGrows
<1>1. CASE sessions' = sessions /\ csrfTokens' = csrfTokens /\ issued' = issued
  BY <1>1 DEF LiveKept, IssuedGrows
<1>2. ASSUME NEW a \in Visitors, CreateSession(a) PROVE LiveKept /\ IssuedGrows
  <2>1. generated \in Nat
    <3>1. generated \in CsrfTokens
      BY DEF SessionsTypeOK
    <3> QED BY <3>1 DEF CsrfTokens
  <2>2. /\ issued' = issued + 1
        /\ sessions' = [i \in Ids |-> IF i = issued + 1 THEN "live"
                                      ELSE IF CleansUp(i) THEN "absent" ELSE sessions[i]]
        /\ csrfTokens' = [i \in Ids |-> IF i = issued + 1 THEN generated + 1
                                        ELSE IF CleansUp(i) THEN 0 ELSE csrfTokens[i]]
    BY <1>2 DEF CreateSession
  <2>3. generated + 1 # 0
    BY <2>1
  <2> QED BY <2>2, <2>3 DEF LiveKept, IssuedGrows
<1>3. ASSUME NEW a \in Visitors, RequireAuth(a) PROVE LiveKept /\ IssuedGrows
  <2>1. /\ sessions' = sessions \/ sessions' = [sessions EXCEPT ![visit[a].id] = "absent"]
        /\ csrfTokens' = csrfTokens /\ issued' = issued
    BY <1>3 DEF RequireAuth
  <2> QED BY <2>1 DEF LiveKept, IssuedGrows, SessionsTypeOK
<1>4. ASSUME NEW a \in Visitors, CSRFProtect(a) PROVE LiveKept /\ IssuedGrows
  <2>1. sessions' = sessions /\ issued' = issued
    BY <1>4 DEF CSRFProtect
  <2>2. csrfTokens' = [csrfTokens EXCEPT ![visit[a].id] =
                           IF NeedsToken(visit[a].id) THEN generated + 1 ELSE csrfTokens[visit[a].id]]
    BY <1>4 DEF CSRFProtect
  <2>3. ASSUME NEW i \in Ids, sessions[i] = "live" PROVE csrfTokens'[i] = csrfTokens[i]
    <3>1. ~NeedsToken(i)
      BY <2>3 DEF NeedsToken, FormsInv
    <3> QED BY <2>2, <3>1 DEF SessionsTypeOK
  <2> QED BY <2>1, <2>3 DEF LiveKept, IssuedGrows
<1>5. ASSUME NEW a \in Visitors, Logout(a) PROVE LiveKept /\ IssuedGrows
  <2>1. /\ sessions' = [sessions EXCEPT ![visit[a].id] = "absent"]
        /\ csrfTokens' = [csrfTokens EXCEPT ![visit[a].id] = 0]
        /\ issued' = issued
    BY <1>5 DEF Logout, DestroySession
  <2> QED BY <2>1 DEF LiveKept, IssuedGrows, SessionsTypeOK
<1>6. ASSUME NEW i \in Ids, ExpireSession(i) PROVE LiveKept /\ IssuedGrows
  BY <1>6 DEF ExpireSession, LiveKept, IssuedGrows, SessionsTypeOK
<1>7. CASE UNCHANGED sessionVars
  BY <1>1, <1>7 DEF sessionVars, mapVars
<1>8. ASSUME NEW a \in Visitors,
             \/ Arrive(a) \/ IsLoginLocked(a) \/ VerifyLogin(a) \/ RecordLoginFailure(a)
             \/ ClearLoginFailures(a) \/ SendPage(a) \/ CheckCurrent(a) \/ StorePassword(a)
      PROVE  LiveKept /\ IssuedGrows
  BY <1>1, <1>8 DEF Arrive, IsLoginLocked, VerifyLogin, RecordLoginFailure, ClearLoginFailures, SendPage,
         CheckCurrent, StorePassword, mapVars
<1>9. ASSUME NEW ip \in Addrs, EndLockout(ip) PROVE LiveKept /\ IssuedGrows
  BY <1>1, <1>9 DEF EndLockout, mapVars
<1> QED BY <1>2, <1>3, <1>4, <1>5, <1>6, <1>7, <1>8, <1>9 DEF SessionsNext, LoginStep, PageStep

\* What a step may do to a request for a page: it is new, it goes on with the same
\* session, or it gets the token of its session.
LEMMA PageRequestStep ==
    ASSUME SessionsTypeOK, [SessionsNext]_sessionVars, NEW b \in Visitors, b \in PageRequests'
    PROVE  \/ visit'[b] = visit[b] /\ b \in PageRequests
           \/ /\ b \notin Answering'
              /\ visit'[b].id \in 1..issued
           \/ /\ b \notin Answering'
              /\ b \in PageRequests /\ visit'[b].id = visit[b].id
           \/ /\ b \in PageRequests /\ visit'[b].id = visit[b].id /\ visit[b].id \in Ids
              /\ visit'[b].token = csrfTokens'[visit[b].id]
<1> DEFINE Goal ==
           \/ visit'[b] = visit[b] /\ b \in PageRequests
           \/ /\ b \notin Answering'
              /\ visit'[b].id \in 1..issued
           \/ /\ b \notin Answering'
              /\ b \in PageRequests /\ visit'[b].id = visit[b].id
           \/ /\ b \in PageRequests /\ visit'[b].id = visit[b].id /\ visit[b].id \in Ids
              /\ visit'[b].token = csrfTokens'[visit[b].id]
<1>1. CASE visit'[b] = visit[b]
  BY <1>1 DEF PageRequests
<1>2. CASE visit'[b] # visit[b]
  <2>1. visit'[b] # NoVisit /\ visit'[b].at \in {"auth", "csrf", "handle", "store"}
    BY DEF PageRequests
  <2>2. PICK a \in Visitors : Arrive(a) \/ LoginStep(a) \/ PageStep(a)
    BY <1>2 DEF SessionsNext, ExpireSession, EndLockout, sessionVars
  <2>3. a = b
    BY <1>2, <2>2 DEF Arrive, ArriveLogin, ArrivePage, LoginStep, IsLoginLocked, VerifyLogin,
           RecordLoginFailure, ClearLoginFailures, CreateSession, PageStep, RequireAuth, CSRFProtect,
           SendPage, Logout, CheckCurrent, StorePassword, VisitGoes, VisitEnds, SessionsTypeOK
  <2>4. ASSUME VisitEnds(b) PROVE FALSE
    BY <2>1, <2>4 DEF VisitEnds, SessionsTypeOK
  <2>5. ASSUME NEW label \in {"verify", "record", "clear", "create"}, visit[b] \in Login,
               VisitGoes(b, label)
        PROVE  FALSE
    BY <2>1, <2>5 DEF VisitGoes, SessionsTypeOK, Login
  <2>6. CASE Arrive(b)
    <3>1. ASSUME NEW ip, NEW given, ArriveLogin(b, ip, given) PROVE FALSE
      BY <2>1, <3>1 DEF ArriveLogin, SessionsTypeOK
    <3>2. ASSUME NEW kind, NEW i, NEW token, NEW given, ArrivePage(b, kind, i, token, given)
          PROVE  Goal
      <4>1. visit'[b] = [kind |-> kind, id |-> i, token |-> token, given |-> given, at |-> "auth"]
        BY <3>2 DEF ArrivePage, SessionsTypeOK
      <4>2. i \in 1..issued
        BY <3>2 DEF ArrivePage
      <4> QED BY <4>1, <4>2 DEF Answering
    <3> QED BY <2>6, <3>1, <3>2 DEF Arrive
  <2>7. CASE LoginStep(b)
    <3>1. visit[b] \in Login
      <4>1. \E label \in {"locked", "verify", "record", "clear", "create"} : VisitAt(b, label)
        BY <2>7 DEF LoginStep, IsLoginLocked, VerifyLogin, RecordLoginFailure, ClearLoginFailures,
               CreateSession
      <4> QED BY <4>1, VisitKinds DEF VisitAt
    <3>2. VisitEnds(b) \/ \E label \in {"verify", "record", "clear", "create"} : VisitGoes(b, label)
      BY <2>7 DEF LoginStep, IsLoginLocked, VerifyLogin, RecordLoginFailure, ClearLoginFailures,
             CreateSession
    <3> QED BY <2>4, <2>5, <3>1, <3>2
  <2>8. CASE PageStep(b)
    <3>1. b \in PageRequests
      BY <2>8 DEF PageRequests, VisitAt, PageStep, RequireAuth, CSRFProtect, SendPage, Logout,
             CheckCurrent, StorePassword
    <3>2. visit[b] \in Paged /\ visit[b].id \in Ids
      <4>1. visit[b] \in Paged
        BY <3>1, VisitKinds DEF PageRequests
      <4> QED BY <4>1 DEF Paged
    <3>3. CASE CSRFProtect(b)
      <4> DEFINE token == IF NeedsToken(visit[b].id) THEN generated + 1 ELSE csrfTokens[visit[b].id]
      <4>1. csrfTokens' = [csrfTokens EXCEPT ![visit[b].id] = token]
        BY <3>3 DEF CSRFProtect
      <4>2. csrfTokens'[visit[b].id] = token
        BY <3>2, <4>1 DEF SessionsTypeOK
      <4>3. CASE visit[b].kind = "get"
        <5>1. visit' = [visit EXCEPT ![b].at = "handle", ![b].token = token]
          BY <3>3, <4>3 DEF CSRFProtect
        <5> HIDE DEF token
        <5>2. visit'[b].id = visit[b].id /\ visit'[b].token = token
          BY <3>2, <5>1 DEF SessionsTypeOK, Paged
        <5> QED BY <3>1, <3>2, <4>2, <5>2
      <4>4. CASE visit[b].kind # "get"
        <5>1. VisitGoes(b, "handle")
          BY <2>4, <3>3, <4>4 DEF CSRFProtect
        <5>2. visit'[b].id = visit[b].id /\ visit'[b].kind # "get"
          BY <3>2, <4>4, <5>1 DEF VisitGoes, SessionsTypeOK, Paged
        <5> QED BY <3>1, <5>2 DEF Answering
      <4> QED BY <4>3, <4>4
    <3>4. ASSUME NEW label \in {"csrf", "store"}, VisitGoes(b, label) PROVE Goal
      <4>1. visit'[b].id = visit[b].id /\ visit'[b].at # "handle"
        BY <3>2, <3>4 DEF VisitGoes, SessionsTypeOK, Paged
      <4> QED BY <3>1, <4>1 DEF Answering
    <3> QED BY <2>4, <2>8, <3>3, <3>4 DEF PageStep, RequireAuth, SendPage, Logout, CheckCurrent,
               StorePassword
  <2> QED BY <2>2, <2>3, <2>6, <2>7, <2>8
<1> QED BY <1>1, <1>2

\* A page is sent with the session and the token of its request.
LEMMA FormStep ==
    ASSUME SessionsTypeOK, [SessionsNext]_sessionVars, NEW f \in forms', f \notin forms
    PROVE  /\ sessions' = sessions /\ csrfTokens' = csrfTokens
           /\ \E a \in Answering : f = <<visit[a].id, visit[a].token>>
<1>1. PICK a \in Visitors : SendPage(a)
  BY DEF SessionsNext, LoginStep, PageStep, Arrive, IsLoginLocked, VerifyLogin, RecordLoginFailure,
         ClearLoginFailures, CreateSession, RequireAuth, CSRFProtect, Logout, CheckCurrent,
         StorePassword, ExpireSession, EndLockout, sessionVars
<1> QED BY <1>1 DEF SendPage, VisitAt, Answering, PageRequests, mapVars

\* A form of a live session is never refused for its token.
THEOREM FormsStay == SessionsSpec => []FormsStayValid
<1>1. SessionsInit => FormsInv
  BY DEF SessionsInit, FormsInv, FormsStayValid, PageRequests, Answering
<1>2. SessionsTypeOK /\ SessionsTypeOK' /\ FormsInv /\ [SessionsNext]_sessionVars => FormsInv'
  <2> SUFFICES ASSUME SessionsTypeOK, SessionsTypeOK', FormsInv, [SessionsNext]_sessionVars
               PROVE  FormsInv'
    OBVIOUS
  <2>1. LiveKept /\ IssuedGrows
    BY MapStep
  <2>2. issued \in Nat /\ issued' \in Nat /\ issued <= issued'
    <3>1. issued \in 0..MaxSessions
      BY DEF SessionsTypeOK
    <3> QED BY <2>1, <3>1, SessionsAssumption DEF IssuedGrows, SessionsAssumption
  <2>3. \A i \in Ids : sessions'[i] = "live" => csrfTokens'[i] # 0
    BY <2>1 DEF LiveKept, FormsInv
  <2>4. \A a \in Answering : a \in PageRequests /\ visit[a] \in Paged /\ visit[a].id \in Ids
    BY VisitKinds DEF Answering, PageRequests, Paged
  <2>5. \A f \in forms \union forms' : f[1] \in Ids
    BY DEF SessionsTypeOK
  <2>6. ASSUME NEW i \in Ids, i <= issued, sessions'[i] = "live"
        PROVE  sessions[i] = "live" /\ csrfTokens'[i] = csrfTokens[i]
    <3>1. i # issued + 1
      BY <2>2, <2>6 DEF Ids
    <3> QED BY <2>1, <2>6, <3>1 DEF LiveKept
  <2>7. \A f \in forms' : f[1] <= issued'
    <3> SUFFICES ASSUME NEW f \in forms' PROVE f[1] <= issued
      BY <2>2, <2>5 DEF Ids
    <3>1. CASE f \in forms
      BY <3>1 DEF FormsInv
    <3>2. CASE f \notin forms
      BY <2>4, <3>2, FormStep DEF FormsInv
    <3> QED BY <3>1, <3>2
  <2>8. FormsStayValid'
    <3> SUFFICES ASSUME NEW f \in forms', sessions'[f[1]] = "live" PROVE csrfTokens'[f[1]] = f[2]
      BY DEF FormsStayValid
    <3>1. CASE f \in forms
      BY <2>5, <2>6, <3>1 DEF FormsInv, FormsStayValid
    <3>2. CASE f \notin forms
      BY <2>4, <3>2, FormStep DEF FormsInv
    <3> QED BY <3>1, <3>2
  <2>9. ASSUME NEW b \in PageRequests' PROVE visit'[b].id <= issued
    <3>1. b \in Visitors
      BY DEF PageRequests
    <3>2. visit'[b].id \in 1..issued \/ (b \in PageRequests /\ visit'[b].id = visit[b].id)
      <4>1. visit'[b] = visit[b] => visit'[b].id = visit[b].id
        OBVIOUS
      <4> QED BY <3>1, <4>1, PageRequestStep, Zenon
    <3> QED BY <2>2, <3>2 DEF FormsInv
  <2>10. ASSUME NEW b \in Answering', sessions'[visit'[b].id] = "live"
         PROVE  csrfTokens'[visit'[b].id] = visit'[b].token
    <3>1. b \in Visitors /\ b \in PageRequests'
      BY DEF PageRequests, Answering
    <3>2. CASE visit'[b] = visit[b]
      <4>1. b \in Answering
        BY <3>1, <3>2 DEF PageRequests, Answering
      <4> QED BY <2>4, <2>6, <2>10, <3>2, <4>1 DEF FormsInv
    <3>3. CASE visit'[b] # visit[b]
      BY <2>10, <3>1, <3>3, PageRequestStep
    <3> QED BY <3>2, <3>3
  <2>11. \A b \in PageRequests' : visit'[b].id <= issued'
    <3> SUFFICES ASSUME NEW b \in PageRequests' PROVE visit'[b].id <= issued'
      OBVIOUS
    <3>1. visit'[b].id \in Nat
      <4>1. /\ visit'[b] # NoVisit /\ visit'[b].at \in {"auth", "csrf", "handle", "store"}
            /\ visit'[b] \in Login \union Paged \union {NoVisit}
        BY DEF PageRequests, SessionsTypeOK
      <4>2. visit'[b] \in Paged
        BY <4>1 DEF Login, Paged
      <4> QED BY <4>2 DEF Paged, Ids
    <3> QED BY <2>2, <2>9, <3>1
  <2> QED BY <2>3, <2>7, <2>8, <2>10, <2>11 DEF FormsInv
<1>3. FormsInv => FormsStayValid
  BY DEF FormsInv
<1> QED BY <1>1, <1>2, <1>3, TypeCorrect, PTL DEF SessionsSpec
=============================================================================
