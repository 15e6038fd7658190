------------------------------ MODULE Sessions ------------------------------
(***************************************************************************)
(* The admin login: SessionManager of web/auth.go with its three maps      *)
(* (sessions, CSRF tokens, failed logins), CSRFProtect of web/csrf.go, and *)
(* LoginSubmit, Logout and SettingsAccountSave of web/admin.go.            *)
(*                                                                         *)
(* Every map access is under the manager's mutex, but a request makes      *)
(* several of them, with other requests in between.  Time is abstract: a   *)
(* session expires and a lockout period ends at any moment.                *)
(***************************************************************************)
EXTENDS Naturals, FiniteSets

CONSTANTS Visitors,          \* requests under way at once
          Addrs,             \* remote addresses that log in
          MaxSessions,       \* bound: sessions created
          MaxCsrf,           \* bound: CSRF tokens generated
          MaxVisits,         \* bound: requests served
          maxLoginAttempts,
          SessionFaults,     \* what may fail: sets of {"hash"}, the read of the hash
          NoVisit

ASSUME SessionsAssumption ==
    /\ MaxSessions \in Nat /\ MaxCsrf \in Nat /\ MaxVisits \in Nat
    /\ maxLoginAttempts \in Nat \ {0}
    /\ SessionFaults \subseteq SUBSET {"hash"}
    /\ IsFiniteSet(Visitors)

VARIABLES hashFaults,    \* the faults this behaviour may show
          sessions,      \* sessions[i]: absent, live, or past its time and still in the map
          csrfTokens,    \* csrfTokens[i]: 0 if the map has none
          loginAttempts, \* loginAttempts[ip]: failures, and whether the last is recent
          passwordHash,  \* the password whose hash is stored, "" if none
          visit,         \* visit[a]: the request's data and its next step
          issued, generated, visits, \* counters: session ids, CSRF tokens, requests
          forms          \* history: pages sent out, with the session and token they carry

loginVars == <<loginAttempts, passwordHash>>
mapVars == <<sessions, csrfTokens, issued, generated>>
sessionVars == <<hashFaults, mapVars, loginVars, visit, visits, forms>>

defaultPassword == "admin"
Given == {defaultPassword, "other"}
Ids == 1..MaxSessions
CsrfTokens == 0..MaxCsrf

Login == [kind : {"login"}, ip : Addrs, given : Given,
          at : {"locked", "verify", "record", "clear", "create"}]
Paged == [kind : {"get", "logout", "account"}, id : Ids, token : CsrfTokens, given : Given,
          at : {"auth", "csrf", "handle", "store"}]

SessionsInit ==
    /\ hashFaults \in SessionFaults
    /\ sessions = [i \in Ids |-> "absent"] /\ csrfTokens = [i \in Ids |-> 0]
    /\ loginAttempts = [ip \in Addrs |-> [count |-> 0, recent |-> FALSE]]
    /\ passwordHash = ""
    /\ visit = [a \in Visitors |-> NoVisit]
    /\ issued = 0 /\ generated = 0 /\ visits = 0
    /\ forms = {}

Visiting == {a \in Visitors : visit[a] # NoVisit}
VisitAt(a, label) == visit[a] # NoVisit /\ visit[a].at = label
VisitGoes(a, label) == visit' = [visit EXCEPT ![a].at = label]
VisitEnds(a) == visit' = [visit EXCEPT ![a] = NoVisit]

\* VerifyHash; without a stored hash the default password is the password.
Verifies(given, stored) == given = IF stored = "" THEN defaultPassword ELSE stored

-----------------------------------------------------------------------------
(* Requests arrive.                                                        *)

ArriveLogin(a, ip, given) ==
    visit' = [visit EXCEPT ![a] = [kind |-> "login", ip |-> ip, given |-> given, at |-> "locked"]]

\* A page with the cookie of a session; a form carries the token of some page sent
\* before, or none.
ArrivePage(a, kind, i, token, given) ==
    /\ i \in 1..issued
    /\ kind # "account" => given = defaultPassword
    /\ kind = "get" => token = 0
    /\ kind # "get" => token \in {f[2] : f \in forms} \union {0}
    /\ visit' = [visit EXCEPT ![a] = [kind |-> kind, id |-> i, token |-> token, given |-> given,
                                      at |-> "auth"]]

Arrive(a) ==
    /\ visit[a] = NoVisit /\ visits < MaxVisits
    /\ visits' = visits + 1
    /\ \/ \E ip \in Addrs, given \in Given : ArriveLogin(a, ip, given)
       \/ \E kind \in {"get", "logout", "account"}, i \in Ids, token \in CsrfTokens, given \in Given :
             ArrivePage(a, kind, i, token, given)
    /\ UNCHANGED <<hashFaults, mapVars, loginVars, forms>>

-----------------------------------------------------------------------------
(* Login.                                                                  *)

\* Mutant: the limit is checked with "more than".
LockedLate(ip) == loginAttempts[ip].count > maxLoginAttempts

\* The number of failures that locks an address.
TooMany(ip) == loginAttempts[ip].count >= maxLoginAttempts

\* A locked address is turned away; a lock whose period is over is forgotten.
IsLoginLocked(a) ==
    LET ip == visit[a].ip
    IN  /\ VisitAt(a, "locked")
        /\ IF TooMany(ip) /\ loginAttempts[ip].recent
           THEN VisitEnds(a) /\ UNCHANGED loginAttempts
           ELSE /\ VisitGoes(a, "verify")
                /\ loginAttempts' = IF TooMany(ip)
                                    THEN [loginAttempts EXCEPT ![ip] = [count |-> 0, recent |-> FALSE]]
                                    ELSE loginAttempts
        /\ UNCHANGED <<hashFaults, mapVars, passwordHash, visits, forms>>

\* GetAdminPasswordHash and VerifyHash; a store error is answered with 503.
VerifyLogin(a) ==
    /\ VisitAt(a, "verify")
    /\ \/ VisitGoes(a, IF Verifies(visit[a].given, passwordHash) THEN "clear" ELSE "record")
       \/ "hash" \in hashFaults /\ VisitEnds(a)
    /\ UNCHANGED <<hashFaults, mapVars, loginVars, visits, forms>>

RecordLoginFailure(a) ==
    /\ VisitAt(a, "record")
    /\ loginAttempts' = [loginAttempts EXCEPT ![visit[a].ip] = [count |-> @.count + 1, recent |-> TRUE]]
    /\ VisitEnds(a)
    /\ UNCHANGED <<hashFaults, mapVars, passwordHash, visits, forms>>

ClearLoginFailures(a) ==
    /\ VisitAt(a, "clear")
    /\ loginAttempts' = [loginAttempts EXCEPT ![visit[a].ip] = [count |-> 0, recent |-> FALSE]]
    /\ VisitGoes(a, "create")
    /\ UNCHANGED <<hashFaults, mapVars, passwordHash, visits, forms>>

\* cleanupLocked takes the sessions that are past their time, with their tokens.
CleansUp(i) == sessions[i] = "expired"

\* CreateSession: a fresh id, its token, and the cleanup.
CreateSession(a) ==
    LET new == issued + 1
    IN  /\ VisitAt(a, "create")
        /\ issued < MaxSessions /\ generated < MaxCsrf
        /\ issued' = new /\ generated' = generated + 1
        /\ sessions' = [i \in Ids |-> IF i = new THEN "live"
                                      ELSE IF CleansUp(i) THEN "absent" ELSE sessions[i]]
        /\ csrfTokens' = [i \in Ids |-> IF i = new THEN generated + 1
                                        ELSE IF CleansUp(i) THEN 0 ELSE csrfTokens[i]]
        /\ VisitEnds(a)
        /\ UNCHANGED <<hashFaults, loginVars, visits, forms>>

-----------------------------------------------------------------------------
(* Pages: RequireAuth, CSRFProtect, the handler.                           *)

pageFrame == <<hashFaults, loginAttempts, visits>>

\* ValidateSession: an id that is unknown or past its time is taken out of the map,
\* its token is not.
RequireAuth(a) ==
    LET i == visit[a].id
    IN  /\ VisitAt(a, "auth")
        /\ IF sessions[i] = "live" THEN VisitGoes(a, "csrf") /\ UNCHANGED sessions
           ELSE VisitEnds(a) /\ sessions' = [sessions EXCEPT ![i] = "absent"]
        /\ UNCHANGED <<csrfTokens, issued, generated, passwordHash, forms, pageFrame>>

\* Mutant: every page gets a new token.
NeedsTokenAlways(i) == TRUE

\* getOrCreateCSRFToken generates one for a session that has none: one that was
\* logged out since RequireAuth.
NeedsToken(i) == csrfTokens[i] = 0

\* CSRFProtect: the session's token; a form must carry it.
CSRFProtect(a) ==
    LET i == visit[a].id
        token == IF NeedsToken(i) THEN generated + 1 ELSE csrfTokens[i]
    IN  /\ VisitAt(a, "csrf")
        /\ token <= MaxCsrf
        /\ csrfTokens' = [csrfTokens EXCEPT ![i] = token]
        /\ generated' = IF NeedsToken(i) THEN token ELSE generated
        /\ IF visit[a].kind = "get"
           THEN visit' = [visit EXCEPT ![a].at = "handle", ![a].token = token]
           ELSE IF visit[a].token = token THEN VisitGoes(a, "handle") ELSE VisitEnds(a)
        /\ UNCHANGED <<sessions, issued, passwordHash, forms, pageFrame>>

\* A page is sent, with the token in its forms.
SendPage(a) ==
    /\ VisitAt(a, "handle") /\ visit[a].kind = "get"
    /\ forms' = forms \union {<<visit[a].id, visit[a].token>>}
    /\ VisitEnds(a)
    /\ UNCHANGED <<mapVars, passwordHash, pageFrame>>

DestroySession(i) ==
    /\ sessions' = [sessions EXCEPT ![i] = "absent"]
    /\ csrfTokens' = [csrfTokens EXCEPT ![i] = 0]

Logout(a) ==
    LET i == visit[a].id
    IN  /\ VisitAt(a, "handle") /\ visit[a].kind = "logout"
        /\ DestroySession(i)
        /\ VisitEnds(a)
        /\ UNCHANGED <<issued, generated, passwordHash, forms, pageFrame>>

\* SettingsAccountSave reads the hash, where an error counts as "none is stored", and
\* compares the current password.
CheckCurrent(a) ==
    /\ VisitAt(a, "handle") /\ visit[a].kind = "account"
    /\ \E stored \in {passwordHash} \union (IF "hash" \in hashFaults THEN {""} ELSE {}) :
        IF Verifies(visit[a].given, stored) THEN VisitGoes(a, "store") ELSE VisitEnds(a)
    /\ UNCHANGED <<mapVars, passwordHash, forms, pageFrame>>

\* SetAdminPasswordHash.
StorePassword(a) ==
    /\ VisitAt(a, "store")
    /\ \E new \in Given : passwordHash' = new
    /\ VisitEnds(a)
    /\ UNCHANGED <<mapVars, forms, pageFrame>>

-----------------------------------------------------------------------------
(* Time.                                                                   *)

ExpireSession(i) ==
    /\ sessions[i] = "live"
    /\ sessions' = [sessions EXCEPT ![i] = "expired"]
    /\ UNCHANGED <<hashFaults, csrfTokens, issued, generated, loginVars, visit, visits, forms>>

EndLockout(ip) ==
    /\ loginAttempts[ip].recent
    /\ loginAttempts' = [loginAttempts EXCEPT ![ip].recent = FALSE]
    /\ UNCHANGED <<hashFaults, mapVars, passwordHash, visit, visits, forms>>

LoginStep(a) ==
    \/ IsLoginLocked(a) \/ VerifyLogin(a) \/ RecordLoginFailure(a) \/ ClearLoginFailures(a)
    \/ CreateSession(a)
PageStep(a) ==
    \/ RequireAuth(a) \/ CSRFProtect(a) \/ SendPage(a) \/ Logout(a) \/ CheckCurrent(a)
    \/ StorePassword(a)

SessionsNext ==
    \/ \E a \in Visitors : Arrive(a) \/ LoginStep(a) \/ PageStep(a)
    \/ \E i \in Ids : ExpireSession(i)
    \/ \E ip \in Addrs : EndLockout(ip)

SessionsSpec == SessionsInit /\ [][SessionsNext]_sessionVars

-----------------------------------------------------------------------------
(* Properties.                                                             *)

\* Every variable keeps its type.
SessionsTypeOK ==
    /\ hashFaults \subseteq {"hash"}
    /\ sessions \in [Ids -> {"absent", "live", "expired"}]
    /\ csrfTokens \in [Ids -> CsrfTokens]
    /\ loginAttempts \in [Addrs -> [count : Nat, recent : BOOLEAN]]
    /\ passwordHash \in Given \union {""}
    /\ visit \in [Visitors -> Login \union Paged \union {NoVisit}]
    /\ issued \in 0..MaxSessions /\ generated \in CsrfTokens /\ visits \in 0..MaxVisits
    /\ forms \subseteq Ids \X CsrfTokens

\* As long as a session lives, every form sent out for it can be submitted: tabs do
\* not invalidate each other, and neither a cleanup nor the getOrCreate of a request
\* that overlaps a logout changes the token of a live session.
FormsStayValid ==
    \A f \in forms : sessions[f[1]] = "live" => csrfTokens[f[1]] = f[2]

\* The limit of failed logins is checked in one critical section and counted in
\* another.  The count exceeds the limit by no more than the requests that can be
\* between the two.
LockoutBounded ==
    \A ip \in Addrs :
        loginAttempts[ip].count <= maxLoginAttempts - 1 + Cardinality(Visitors)
=============================================================================
