------------------------------- MODULE Sessions -------------------------------
(***************************************************************************)
(* Sign-in and sessions: views/auth.py, views/session_views.py, the two    *)
(* places where a token is accepted (JWTAuthenticationMiddleware on        *)
(* protected routes, CookieJWTAuthentication elsewhere), and the refresh   *)
(* view of simplejwt with rotation and blacklisting.                       *)
(*                                                                         *)
(* Counters, codes, rows and the blacklist are read in one command and     *)
(* written in another, by requests that run in different workers.  A token *)
(* stands for the access and refresh token minted together; a token that   *)
(* expires is one its client no longer sends.                              *)
(***************************************************************************)
EXTENDS Naturals, FiniteSets

CONSTANTS
    Users, Requests,
    Tokens,     \* bound: pairs of tokens ever minted
    Codes,      \* bound: one-time codes ever mailed
    Nobody,     \* neither a user, nor a token or code
    Limit,      \* wrong passwords, or wrong codes, before a lock: 5 in the code
    MaxRaced    \* bound: users, codes and families raced for in a behaviour

ASSUME BoundsAssumption ==
    /\ Limit \in Nat \ {0} /\ MaxRaced \in Nat
    /\ Nobody \notin Users \cup Tokens \cup Codes

VARIABLES
    owner,      \* the user a token was minted for
    family,     \* the token of the sign-in that a token descends from
    row,        \* the table of ActiveSession, by jti
    blacklist,  \* refresh tokens no longer accepted
    attempts,   \* failed_login_attempts_<username>
    code,       \* otp_<temp_token> and otp_attempts_<temp_token>
    req,        \* the request each worker runs
    guesses,    \* history: wrong passwords since the counter was last empty
    raced       \* history: users, codes and families that two requests used at once

vars == <<owner, family, row, blacklist, attempts, code, req, guesses, raced>>

RowState == {"none", "active", "revoked"}

\* live: still in the cache; tries: the attempt counter; wrong, opened: history.
CodeEntry == [user : Users \cup {Nobody}, live : BOOLEAN, tries : 0..Limit, wrong : Nat,
              opened : Nat]

Pcs == {"idle",
        "password", "open",                 \* login
        "tries", "count", "spend",          \* verify_otp
        "rotate",                           \* TokenRefreshView
        "blacklist", "close",               \* logout
        "save",                             \* revoke
        "touch", "view"}                    \* a protected route

\* user: who signs in; token: the token sent; count: the counter read; code: the code read.
Job == [pc : Pcs, user : Users \cup {Nobody}, token : Tokens \cup {Nobody},
        refresh : Tokens \cup {Nobody}, count : 0..Limit, code : Codes \cup {Nobody}]

Idle == [pc |-> "idle", user |-> Nobody, token |-> Nobody, refresh |-> Nobody, count |-> 0,
         code |-> Nobody]

\* Every variable has its type.
TypeOK ==
    /\ owner \in [Tokens -> Users \cup {Nobody}]
    /\ family \in [Tokens -> Tokens \cup {Nobody}]
    /\ row \in [Tokens -> RowState]
    /\ blacklist \subseteq Tokens
    /\ attempts \in [Users -> 0..Limit]
    /\ code \in [Codes -> CodeEntry]
    /\ req \in [Requests -> Job]
    /\ guesses \in [Users -> Nat]
    /\ raced \subseteq Users \cup Codes \cup Tokens

Init ==
    /\ owner = [t \in Tokens |-> Nobody] /\ family = [t \in Tokens |-> Nobody]
    /\ row = [t \in Tokens |-> "none"]
    /\ blacklist = {}
    /\ attempts = [u \in Users |-> 0]
    /\ code = [c \in Codes |-> [user |-> Nobody, live |-> FALSE, tries |-> 0, wrong |-> 0,
                                opened |-> 0]]
    /\ req = [r \in Requests |-> Idle]
    /\ guesses = [u \in Users |-> 0] /\ raced = {}

At(r, pc) == req[r].pc = pc
Become(r, job) == req' = [req EXCEPT ![r] = job]
End(r) == Become(r, Idle)
Issued(t) == owner[t] # Nobody

\* History: x is used by another request, between its read and its write.
Race(x, used) ==
    /\ used /\ x \notin raced => Cardinality(raced) < MaxRaced
    /\ raced' = IF used THEN raced \cup {x} ELSE raced

\* History counts up only for what was never raced for.
Count(n, x) == IF x \in raced THEN n ELSE n + 1

\* Two new tokens under one jti each; a sign-in founds a family.
Mint(t, u, f) ==
    /\ ~Issued(t)
    /\ owner' = [owner EXCEPT ![t] = u] /\ family' = [family EXCEPT ![t] = f]

\* ActiveSession.objects.create, keyed by the jti of the access token.
OpenRow(t) == row' = [row EXCEPT ![t] = "active"]

\* is_active = False on the rows of S, in one UPDATE.
Revoked(S) == [t \in Tokens |-> IF t \in S /\ row[t] = "active" THEN "revoked" ELSE row[t]]

--------------------------------------------------------------------------------
(***************************************************************************)
(* login.  A blocked user is refused at once.  The password is checked     *)
(* after the counter is read, and the counter set from what was read.      *)
(***************************************************************************)
\* mutant: one attempt too many
LoginOffByOne(r, u) ==
    /\ At(r, "idle")
    /\ attempts[u] <= Limit
    /\ Become(r, [Idle EXCEPT !.pc = "password", !.user = u, !.count = attempts[u]])
    /\ Race(u, \E other \in Requests : At(other, "password") /\ req[other].user = u)
    /\ UNCHANGED <<owner, family, row, blacklist, attempts, code, guesses>>

Login(r, u) ==
    /\ At(r, "idle")
    /\ attempts[u] < Limit
    /\ Become(r, [Idle EXCEPT !.pc = "password", !.user = u, !.count = attempts[u]])
    /\ Race(u, \E other \in Requests : At(other, "password") /\ req[other].user = u)
    /\ UNCHANGED <<owner, family, row, blacklist, attempts, code, guesses>>

\* The account is disabled: refused before the password is looked at.
LoginDisabled(r) ==
    /\ At(r, "password")
    /\ End(r)
    /\ UNCHANGED <<owner, family, row, blacklist, attempts, code, guesses, raced>>

\* mutant: the counter is put back as it was read
WrongPasswordUncounted(r) ==
    LET u == req[r].user IN
    /\ At(r, "password")
    /\ attempts' = [attempts EXCEPT ![u] = req[r].count]
    /\ guesses' = [guesses EXCEPT ![u] = Count(@, u)]
    /\ End(r)
    /\ UNCHANGED <<owner, family, row, blacklist, code, raced>>

WrongPassword(r) ==
    LET u == req[r].user IN
    /\ At(r, "password")
    /\ attempts' = [attempts EXCEPT ![u] = req[r].count + 1]
    /\ guesses' = [guesses EXCEPT ![u] = Count(@, u)]
    /\ End(r)
    /\ UNCHANGED <<owner, family, row, blacklist, code, raced>>

\* The counter is deleted; then a suspended account is refused, another goes on.
RightPassword(r, suspended) ==
    LET u == req[r].user IN
    /\ At(r, "password")
    /\ attempts' = [attempts EXCEPT ![u] = 0] /\ guesses' = [guesses EXCEPT ![u] = 0]
    /\ IF suspended THEN End(r) ELSE Become(r, [req[r] EXCEPT !.pc = "open"])
    /\ UNCHANGED <<owner, family, row, blacklist, code, raced>>

\* The newest active session of the user is recent and from elsewhere: a code is mailed.
AskForCode(r, c) ==
    LET u == req[r].user IN
    /\ At(r, "open") /\ req[r].code = Nobody
    /\ \E t \in Tokens : owner[t] = u /\ row[t] = "active"
    /\ code[c].user = Nobody
    /\ code' = [code EXCEPT ![c].user = u, ![c].live = TRUE]
    /\ End(r)
    /\ UNCHANGED <<owner, family, row, blacklist, attempts, guesses, raced>>

\* The end of verify_otp, and of a login without suspicion: tokens, and the session row of
\* their jti.
OpenSession(r, t) ==
    /\ At(r, "open")
    /\ Mint(t, req[r].user, t)
    /\ OpenRow(t)
    /\ code' = [c \in Codes |-> IF c = req[r].code
                                THEN [code[c] EXCEPT !.opened = Count(@, c)] ELSE code[c]]
    /\ End(r)
    /\ UNCHANGED <<blacklist, attempts, guesses, raced>>

\* register signs a new user in with tokens that have no session row.
Register(u, t) ==
    /\ \A s \in Tokens : owner[s] # u
    /\ Mint(t, u, t)
    /\ UNCHANGED <<row, blacklist, attempts, code, req, guesses, raced>>

(***************************************************************************)
(* verify_otp: the entry, then its counter, then one of the two writes.    *)
(***************************************************************************)
VerifyCode(r, c) ==
    /\ At(r, "idle")
    /\ code[c].live
    /\ Become(r, [Idle EXCEPT !.pc = "tries", !.user = code[c].user, !.code = c])
    /\ Race(c, \E other \in Requests : req[other].code = c)
    /\ UNCHANGED <<owner, family, row, blacklist, attempts, code, guesses>>

\* The fifth failure has been counted: the code is withdrawn.
TooManyTries(r) ==
    /\ At(r, "tries")
    /\ code[req[r].code].tries = Limit
    /\ code' = [code EXCEPT ![req[r].code].live = FALSE]
    /\ End(r)
    /\ UNCHANGED <<owner, family, row, blacklist, attempts, guesses, raced>>

CompareCode(r, right) ==
    LET tries == code[req[r].code].tries IN
    /\ At(r, "tries")
    /\ tries < Limit
    /\ Become(r, [req[r] EXCEPT !.pc = IF right THEN "spend" ELSE "count", !.count = tries])
    /\ UNCHANGED <<owner, family, row, blacklist, attempts, code, guesses, raced>>

CountTry(r) ==
    LET c == req[r].code IN
    /\ At(r, "count")
    /\ code' = [code EXCEPT ![c].tries = req[r].count + 1, ![c].wrong = Count(@, c)]
    /\ End(r)
    /\ UNCHANGED <<owner, family, row, blacklist, attempts, guesses, raced>>

\* mutant: the code is left to its timeout
SpendCodeKept(r) ==
    /\ At(r, "spend")
    /\ Become(r, [req[r] EXCEPT !.pc = "open"])
    /\ UNCHANGED <<owner, family, row, blacklist, attempts, code, guesses, raced>>

SpendCode(r) ==
    /\ At(r, "spend")
    /\ code' = [code EXCEPT ![req[r].code].live = FALSE]
    /\ Become(r, [req[r] EXCEPT !.pc = "open"])
    /\ UNCHANGED <<owner, family, row, blacklist, attempts, guesses, raced>>

(***************************************************************************)
(* TokenRefreshView: the token must not be blacklisted when it is read; it *)
(* is blacklisted, and a new pair minted.  No session row is written.      *)
(***************************************************************************)
\* Another request holds the refresh token t.
InUse(t) == \E other \in Requests : req[other].refresh = t

Refresh(r, t) ==
    /\ At(r, "idle")
    /\ Issued(t) /\ t \notin blacklist
    /\ Become(r, [Idle EXCEPT !.pc = "rotate", !.refresh = t])
    /\ Race(family[t], InUse(t))
    /\ UNCHANGED <<owner, family, row, blacklist, attempts, code, guesses>>

\* mutant: BLACKLIST_AFTER_ROTATION off
RotateKeepOld(r, t) ==
    LET old == req[r].refresh IN
    /\ At(r, "rotate")
    /\ Mint(t, owner[old], family[old])
    /\ End(r)
    /\ UNCHANGED <<row, blacklist, attempts, code, guesses, raced>>

Rotate(r, t) ==
    LET old == req[r].refresh IN
    /\ At(r, "rotate")
    /\ blacklist' = blacklist \cup {old}
    /\ Mint(t, owner[old], family[old])
    /\ End(r)
    /\ UNCHANGED <<row, attempts, code, guesses, raced>>

(***************************************************************************)
(* logout takes any access token that has not expired.  A refresh token    *)
(* that is blacklisted already ends it, before the session is closed.      *)
(***************************************************************************)
Logout(r, a, t) ==
    /\ At(r, "idle")
    /\ Issued(a) /\ Issued(t) /\ owner[a] = owner[t]
    /\ t \notin blacklist
    /\ Become(r, [Idle EXCEPT !.pc = "blacklist", !.token = a, !.refresh = t])
    /\ Race(family[t], InUse(t))
    /\ UNCHANGED <<owner, family, row, blacklist, attempts, code, guesses>>

\* Only an access token is sent.
LogoutAccess(r, a) ==
    /\ At(r, "idle")
    /\ Issued(a)
    /\ Become(r, [Idle EXCEPT !.pc = "close", !.token = a])
    /\ UNCHANGED <<owner, family, row, blacklist, attempts, code, guesses, raced>>

LogoutBlacklist(r) ==
    /\ At(r, "blacklist")
    /\ blacklist' = blacklist \cup {req[r].refresh}
    /\ Become(r, [req[r] EXCEPT !.pc = "close", !.refresh = Nobody])
    /\ UNCHANGED <<owner, family, row, attempts, code, guesses, raced>>

LogoutClose(r) ==
    /\ At(r, "close")
    /\ row' = Revoked({req[r].token})
    /\ End(r)
    /\ UNCHANGED <<owner, family, blacklist, attempts, code, guesses, raced>>

(***************************************************************************)
(* SessionViewSet: revoke all sessions but the sender's, or one of them.   *)
(***************************************************************************)
RevokeAll(a) ==
    /\ Issued(a)
    /\ row' = Revoked({t \in Tokens : owner[t] = owner[a]} \ {a})
    /\ UNCHANGED <<owner, family, blacklist, attempts, code, req, guesses, raced>>

Revoke(r, t) ==
    /\ At(r, "idle")
    /\ row[t] = "active"
    /\ Become(r, [Idle EXCEPT !.pc = "save", !.token = t])
    /\ UNCHANGED <<owner, family, row, blacklist, attempts, code, guesses, raced>>

\* save(update_fields=['is_active'])
RevokeSave(r) ==
    /\ At(r, "save")
    /\ row' = Revoked({req[r].token})
    /\ End(r)
    /\ UNCHANGED <<owner, family, blacklist, attempts, code, guesses, raced>>

(***************************************************************************)
(* A protected route.  JWTAuthenticationMiddleware needs an active row of  *)
(* the token.  If it is five minutes old its last_active, which the model  *)
(* leaves out, is saved, with update_fields: is_active is not written.     *)
(***************************************************************************)
AdmitToken(r, t, stale) ==
    /\ At(r, "idle")
    /\ Issued(t) /\ row[t] = "active"
    /\ Become(r, [Idle EXCEPT !.pc = IF stale THEN "touch" ELSE "view", !.token = t])
    /\ UNCHANGED <<owner, family, row, blacklist, attempts, code, guesses, raced>>

\* mutant: save() of the whole row that was read
TouchSaveAll(r) ==
    /\ At(r, "touch")
    /\ OpenRow(req[r].token)
    /\ Become(r, [req[r] EXCEPT !.pc = "view"])
    /\ UNCHANGED <<owner, family, blacklist, attempts, code, guesses, raced>>

Touch(r) ==
    /\ At(r, "touch")
    /\ Become(r, [req[r] EXCEPT !.pc = "view"])
    /\ UNCHANGED <<owner, family, row, blacklist, attempts, code, guesses, raced>>

Answer(r) ==
    /\ At(r, "view")
    /\ End(r)
    /\ UNCHANGED <<owner, family, row, blacklist, attempts, code, guesses, raced>>

(***************************************************************************)
(* Time: fifteen minutes without a wrong password, five since a code was   *)
(* mailed.                                                                 *)
(***************************************************************************)
UnlockUser(u) ==
    /\ attempts[u] > 0
    /\ attempts' = [attempts EXCEPT ![u] = 0] /\ guesses' = [guesses EXCEPT ![u] = 0]
    /\ UNCHANGED <<owner, family, row, blacklist, code, req, raced>>

ExpireCode(c) ==
    /\ code[c].live
    /\ code' = [code EXCEPT ![c].live = FALSE]
    /\ UNCHANGED <<owner, family, row, blacklist, attempts, req, guesses, raced>>

--------------------------------------------------------------------------------
SignIn(r) ==
    \/ \E u \in Users : Login(r, u)
    \/ LoginDisabled(r) \/ WrongPassword(r)
    \/ \E suspended \in BOOLEAN : RightPassword(r, suspended)
    \/ \E c \in Codes : AskForCode(r, c) \/ VerifyCode(r, c)
    \/ TooManyTries(r) \/ CountTry(r) \/ SpendCode(r)
    \/ \E right \in BOOLEAN : CompareCode(r, right)
    \/ \E t \in Tokens : OpenSession(r, t)

Use(r) ==
    \/ \E t \in Tokens : Refresh(r, t) \/ Rotate(r, t) \/ LogoutAccess(r, t) \/ Revoke(r, t)
    \/ \E a, t \in Tokens : Logout(r, a, t)
    \/ LogoutBlacklist(r) \/ LogoutClose(r) \/ RevokeSave(r)
    \/ \E t \in Tokens, stale \in BOOLEAN : AdmitToken(r, t, stale)
    \/ Touch(r) \/ Answer(r)

Environment ==
    \/ \E u \in Users, t \in Tokens : Register(u, t)
    \/ \E t \in Tokens : RevokeAll(t)
    \/ \E u \in Users : UnlockUser(u)
    \/ \E c \in Codes : ExpireCode(c)

Next == Environment \/ \E r \in Requests : SignIn(r) \/ Use(r)

Spec == Init /\ [][Next]_vars

--------------------------------------------------------------------------------
(***************************************************************************)
(* A revoked session stays revoked, whatever request holds an older copy   *)
(* of its row, and from then on the device gets through no protected route *)
(* with any token its sign-in led to: Device(f)!Spec for every family f of *)
(* tokens.  Touch, revoke and refresh are what could break it.             *)
(***************************************************************************)
Life(f) == CASE row[f] = "none" -> "out"
             [] row[f] = "active" -> "in"
             [] OTHER -> "revoked"

Serving(f) == {r \in Requests : /\ req[r].pc \in {"touch", "view"}
                                /\ family[req[r].token] = f}

Device(f) == INSTANCE DeviceSession WITH life <- Life(f), serving <- Serving(f)

RevocationIsFinal ==
    /\ \A f \in Tokens : Device(f)!Init
    /\ [][\A f \in Tokens : UNCHANGED <<Life(f), Serving(f)>> \/ Device(f)!Next]_<<family, row, req>>

\* Rotation leaves a sign-in at most one refresh token that still works, unless two requests
\* used one token at the same time (refresh reads the blacklist before it writes it).
OneLiveRefresh ==
    \A s, t \in Tokens :
        /\ Issued(s) /\ family[s] = family[t] /\ s # t
        /\ s \notin blacklist /\ t \notin blacklist
        => family[s] \in raced

\* Between two moments when the counter of a user is empty, at most Limit wrong passwords are
\* tried, unless two logins of that user ran at the same time (the counter is read, then set).
LockoutHolds == \A u \in Users \ raced : guesses[u] <= Limit

\* A mailed code opens one session and admits Limit wrong answers, unless two requests verified
\* it at the same time (it is read, compared and deleted in separate commands).
CodeSpentOnce == \A c \in Codes \ raced : code[c].opened <= 1 /\ code[c].wrong <= Limit
===============================================================================
