--------------------------- MODULE RevocationProofs ---------------------------
(***************************************************************************)
(* The session table implements DeviceSession, once for every sign-in: the *)
(* proof of RevocationIsFinal, for any constants.                          *)
(***************************************************************************)
EXTENDS SessionsProofs

(***************************************************************************)
(* Refinement: what a step does to the device of each family.              *)
(***************************************************************************)
DeviceStep(f) == UNCHANGED <<Life(f), Serving(f)>> \/ Device(f)!Next

Served(r) == req[r].pc \in {"touch", "view"}

\* The request keeps being served, or not, with the same token.
SameService(q) ==
    /\ Served(q)' <=> Served(q)
    /\ Served(q) => req'[q].token = req[q].token

\* The token of a request on a protected route has a family of its own, which no mint changes.
LEMMA ServingKept ==
  ASSUME NEW f \in Tokens, \A q \in Requests : SameService(q),
         \A q \in Requests : Served(q) => family'[req[q].token] = family[req[q].token]
  PROVE  UNCHANGED Serving(f)
  BY DEF Serving, Served, SameService

LEMMA LifeKept == ASSUME NEW f \in Tokens, row'[f] = row[f] PROVE UNCHANGED Life(f)
  BY DEF Life

\* A step that touches no row and serves nobody new is no step of any device.
LEMMA DeviceFrame ==
  ASSUME UNCHANGED <<family, row>>, \A q \in Requests : SameService(q), NEW f \in Tokens
  PROVE  DeviceStep(f)
  BY ServingKept, LifeKept DEF DeviceStep

\* Revoking some rows is a step of their devices.
LEMMA DeviceRevoked ==
  ASSUME TableInv, NEW S, row' = Revoked(S), UNCHANGED family,
         \A q \in Requests : SameService(q), NEW f \in Tokens
  PROVE  DeviceStep(f)
<1>1. UNCHANGED Serving(f)
  BY ServingKept
<1>2. row'[f] = row[f] \/ (row[f] = "active" /\ row'[f] = "revoked")
  BY DEF Revoked
<1>3. CASE row'[f] = row[f]
  BY <1>1, <1>3, LifeKept DEF DeviceStep
<1>4. CASE row[f] = "active" /\ row'[f] = "revoked"
  BY <1>1, <1>4 DEF DeviceStep, Life, Device!Next, Device!Revoke
<1> QED
  BY <1>2, <1>3, <1>4

\* A mint changes the family of no token in use.
LEMMA MintServes ==
  ASSUME TypeInv, NEW t \in Tokens, NEW u \in Users, NEW g \in Tokens, Mint(t, u, g)
  PROVE  /\ t \notin Minted /\ row[t] = "none" /\ family'[t] = g
         /\ \A q \in Requests : Served(q) => family'[req[q].token] = family[req[q].token]
<1>1. t \notin Minted
  BY DEF Mint, Minted
<1>2. row[t] = "none"
  BY <1>1 DEF TypeInv, TableInv, Lineage
<1>3. family' = [family EXCEPT ![t] = g] /\ family \in [Tokens -> Tokens \cup {Nobody}]
  BY DEF Mint, TypeInv, TableInv
<1>4. ASSUME NEW q \in Requests, Served(q) PROVE req[q].token \in Tokens /\ req[q].token # t
  BY <1>1, <1>4 DEF Served, TypeInv, RequestInv, Holds, Minted
<1> QED
  BY <1>1, <1>2, <1>3, <1>4

LEMMA RevocationStep == TypeInv /\ [Next]_vars => \A f \in Tokens : DeviceStep(f)
<1> SUFFICES ASSUME TypeInv, [Next]_vars, NEW f \in Tokens PROVE DeviceStep(f)
  OBVIOUS
<1>a. /\ RequestInv /\ req \in [Requests -> Job]
      /\ \A r \in Requests : req[r] \in Job /\ Holds(req[r], Minted)
  BY DEF TypeInv, RequestInv
<1>b. Idle.pc = "idle"
  BY DEF Idle
<1>1. ASSUME NEW r \in Requests, NEW u \in Users, Login(r, u) PROVE DeviceStep(f)
  <2>1. \A q \in Requests : SameService(q)
    <3> DEFINE j == [Idle EXCEPT !.pc = "password", !.user = u, !.count = attempts[u]]
    <3>1. j.pc \notin {"touch", "view"} /\ req[r].pc \notin {"touch", "view"}
      BY <1>1, <1>a DEF Login, At, Idle
    <3>2. Become(r, j)
      BY <1>1 DEF Login
    <3> HIDE DEF j
    <3> QED
      BY <1>a, <3>1, <3>2, Becomes DEF SameService, Served
  <2> QED
    BY <1>1, <2>1, DeviceFrame DEF Login
<1>2. ASSUME NEW r \in Requests, WrongPassword(r) PROVE DeviceStep(f)
  <2>1. \A q \in Requests : SameService(q)
    BY <1>2, <1>a, <1>b, Becomes DEF WrongPassword, At, End, SameService, Served
  <2> QED
    BY <1>2, <2>1, DeviceFrame DEF WrongPassword
<1>3. ASSUME NEW r \in Requests, NEW suspended \in BOOLEAN, RightPassword(r, suspended) PROVE DeviceStep(f)
  <2>1. \A q \in Requests : SameService(q)
    <3> DEFINE j == IF suspended THEN Idle ELSE [req[r] EXCEPT !.pc = "open"]
    <3>1. j.pc \notin {"touch", "view"} /\ req[r].pc \notin {"touch", "view"}
      BY <1>3, <1>a DEF RightPassword, At, Idle, Job
    <3>2. Become(r, j)
      BY <1>3 DEF RightPassword, End
    <3> HIDE DEF j
    <3> QED
      BY <1>a, <3>1, <3>2, Becomes DEF SameService, Served
  <2> QED
    BY <1>3, <2>1, DeviceFrame DEF RightPassword
<1>4. ASSUME NEW r \in Requests, LoginDisabled(r) PROVE DeviceStep(f)
  <2>1. \A q \in Requests : SameService(q)
    BY <1>4, <1>a, <1>b, Becomes DEF LoginDisabled, At, End, SameService, Served
  <2> QED
    BY <1>4, <2>1, DeviceFrame DEF LoginDisabled
<1>5. ASSUME NEW r \in Requests, NEW c \in Codes, AskForCode(r, c) PROVE DeviceStep(f)
  <2>1. \A q \in Requests : SameService(q)
    BY <1>5, <1>a, <1>b, Becomes DEF AskForCode, At, End, SameService, Served
  <2> QED
    BY <1>5, <2>1, DeviceFrame DEF AskForCode
<1>6. ASSUME NEW r \in Requests, NEW c \in Codes, VerifyCode(r, c) PROVE DeviceStep(f)
  <2>1. \A q \in Requests : SameService(q)
    <3> DEFINE j == [Idle EXCEPT !.pc = "tries", !.user = code[c].user, !.code = c]
    <3>1. j.pc \notin {"touch", "view"} /\ req[r].pc \notin {"touch", "view"}
      BY <1>6, <1>a DEF VerifyCode, At, Idle
    <3>2. Become(r, j)
      BY <1>6 DEF VerifyCode
    <3> HIDE DEF j
    <3> QED
      BY <1>a, <3>1, <3>2, Becomes DEF SameService, Served
  <2> QED
    BY <1>6, <2>1, DeviceFrame DEF VerifyCode
<1>7. ASSUME NEW r \in Requests, TooManyTries(r) PROVE DeviceStep(f)
  <2>1. \A q \in Requests : SameService(q)
    BY <1>7, <1>a, <1>b, Becomes DEF TooManyTries, At, End, SameService, Served
  <2> QED
    BY <1>7, <2>1, DeviceFrame DEF TooManyTries
<1>8. ASSUME NEW r \in Requests, NEW right \in BOOLEAN, CompareCode(r, right) PROVE DeviceStep(f)
  <2>1. \A q \in Requests : SameService(q)
    <3> DEFINE j == [req[r] EXCEPT !.pc = IF right THEN "spend" ELSE "count", !.count = code[req[r].code].tries]
    <3>1. j.pc \notin {"touch", "view"} /\ req[r].pc \notin {"touch", "view"}
      BY <1>8, <1>a DEF CompareCode, At, Job
    <3>2. Become(r, j)
      BY <1>8 DEF CompareCode
    <3> HIDE DEF j
    <3> QED
      BY <1>a, <3>1, <3>2, Becomes DEF SameService, Served
  <2> QED
    BY <1>8, <2>1, DeviceFrame DEF CompareCode
<1>9. ASSUME NEW r \in Requests, CountTry(r) PROVE DeviceStep(f)
  <2>1. \A q \in Requests : SameService(q)
    BY <1>9, <1>a, <1>b, Becomes DEF CountTry, At, End, SameService, Served
  <2> QED
    BY <1>9, <2>1, DeviceFrame DEF CountTry
<1>10. ASSUME NEW r \in Requests, SpendCode(r) PROVE DeviceStep(f)
  <2>1. \A q \in Requests : SameService(q)
    <3> DEFINE j == [req[r] EXCEPT !.pc = "open"]
    <3>1. j.pc \notin {"touch", "view"} /\ req[r].pc \notin {"touch", "view"}
      BY <1>10, <1>a DEF SpendCode, At, Job
    <3>2. Become(r, j)
      BY <1>10 DEF SpendCode
    <3> HIDE DEF j
    <3> QED
      BY <1>a, <3>1, <3>2, Becomes DEF SameService, Served
  <2> QED
    BY <1>10, <2>1, DeviceFrame DEF SpendCode
<1>11. ASSUME NEW r \in Requests, NEW t \in Tokens, Refresh(r, t) PROVE DeviceStep(f)
  <2>1. \A q \in Requests : SameService(q)
    <3> DEFINE j == [Idle EXCEPT !.pc = "rotate", !.refresh = t]
    <3>1. j.pc \notin {"touch", "view"} /\ req[r].pc \notin {"touch", "view"}
      BY <1>11, <1>a DEF Refresh, At, Idle
    <3>2. Become(r, j)
      BY <1>11 DEF Refresh
    <3> HIDE DEF j
    <3> QED
      BY <1>a, <3>1, <3>2, Becomes DEF SameService, Served
  <2> QED
    BY <1>11, <2>1, DeviceFrame DEF Refresh
<1>12. ASSUME NEW r \in Requests, NEW a \in Tokens, NEW t \in Tokens, Logout(r, a, t) PROVE DeviceStep(f)
  <2>1. \A q \in Requests : SameService(q)
    <3> DEFINE j == [Idle EXCEPT !.pc = "blacklist", !.token = a, !.refresh = t]
    <3>1. j.pc \notin {"touch", "view"} /\ req[r].pc \notin {"touch", "view"}
      BY <1>12, <1>a DEF Logout, At, Idle
    <3>2. Become(r, j)
      BY <1>12 DEF Logout
    <3> HIDE DEF j
    <3> QED
      BY <1>a, <3>1, <3>2, Becomes DEF SameService, Served
  <2> QED
    BY <1>12, <2>1, DeviceFrame DEF Logout
<1>13. ASSUME NEW r \in Requests, NEW a \in Tokens, LogoutAccess(r, a) PROVE DeviceStep(f)
  <2>1. \A q \in Requests : SameService(q)
    <3> DEFINE j == [Idle EXCEPT !.pc = "close", !.token = a]
    <3>1. j.pc \notin {"touch", "view"} /\ req[r].pc \notin {"touch", "view"}
      BY <1>13, <1>a DEF LogoutAccess, At, Idle
    <3>2. Become(r, j)
      BY <1>13 DEF LogoutAccess
    <3> HIDE DEF j
    <3> QED
      BY <1>a, <3>1, <3>2, Becomes DEF SameService, Served
  <2> QED
    BY <1>13, <2>1, DeviceFrame DEF LogoutAccess
<1>14. ASSUME NEW r \in Requests, LogoutBlacklist(r) PROVE DeviceStep(f)
  <2>1. \A q \in Requests : SameService(q)
    <3> DEFINE j == [req[r] EXCEPT !.pc = "close", !.refresh = Nobody]
    <3>1. j.pc \notin {"touch", "view"} /\ req[r].pc \notin {"touch", "view"}
      BY <1>14, <1>a DEF LogoutBlacklist, At, Job
    <3>2. Become(r, j)
      BY <1>14 DEF LogoutBlacklist
    <3> HIDE DEF j
    <3> QED
      BY <1>a, <3>1, <3>2, Becomes DEF SameService, Served
  <2> QED
    BY <1>14, <2>1, DeviceFrame DEF LogoutBlacklist
<1>15. ASSUME NEW r \in Requests, LogoutClose(r) PROVE DeviceStep(f)
  <2>1. \A q \in Requests : SameService(q)
    BY <1>15, <1>a, <1>b, Becomes DEF LogoutClose, At, End, SameService, Served
  <2> QED
    BY <1>15, <2>1, DeviceRevoked DEF LogoutClose, TypeInv
<1>16. ASSUME NEW r \in Requests, NEW t \in Tokens, Revoke(r, t) PROVE DeviceStep(f)
  <2>1. \A q \in Requests : SameService(q)
    <3> DEFINE j == [Idle EXCEPT !.pc = "save", !.token = t]
    <3>1. j.pc \notin {"touch", "view"} /\ req[r].pc \notin {"touch", "view"}
      BY <1>16, <1>a DEF Revoke, At, Idle
    <3>2. Become(r, j)
      BY <1>16 DEF Revoke
    <3> HIDE DEF j
    <3> QED
      BY <1>a, <3>1, <3>2, Becomes DEF SameService, Served
  <2> QED
    BY <1>16, <2>1, DeviceFrame DEF Revoke
<1>17. ASSUME NEW r \in Requests, RevokeSave(r) PROVE DeviceStep(f)
  <2>1. \A q \in Requests : SameService(q)
    BY <1>17, <1>a, <1>b, Becomes DEF RevokeSave, At, End, SameService, Served
  <2> QED
    BY <1>17, <2>1, DeviceRevoked DEF RevokeSave, TypeInv
<1>18. ASSUME NEW r \in Requests, NEW t \in Tokens, OpenSession(r, t) PROVE DeviceStep(f)
  <2>1. PICK u \in Users : Mint(t, u, t)
    BY <1>18, <1>a DEF OpenSession, At, Holds
  <2>2. UNCHANGED Serving(f)
    <3>1. \A q \in Requests : SameService(q)
      BY <1>18, <1>a, <1>b, Becomes DEF OpenSession, At, End, SameService, Served
    <3> QED
      BY <2>1, <3>1, MintServes, ServingKept
  <2>3. row[t] = "none" /\ row'[t] = "active" /\ \A s \in Tokens : s # t => row'[s] = row[s]
    BY <1>18, <2>1, MintServes DEF OpenSession, OpenRow, TypeInv, TableInv
  <2>4. CASE f = t
    BY <2>2, <2>3, <2>4 DEF DeviceStep, Life, Device!Next, Device!SignIn
  <2>5. CASE f # t
    BY <2>2, <2>3, <2>5, LifeKept DEF DeviceStep
  <2> QED
    BY <2>4, <2>5
<1>19. ASSUME NEW u \in Users, NEW t \in Tokens, Register(u, t) PROVE DeviceStep(f)
  <2>1. Mint(t, u, t) /\ UNCHANGED <<row, req>>
    BY <1>19 DEF Register
  <2>2. \A q \in Requests : SameService(q)
    BY <2>1 DEF SameService, Served
  <2> QED
    BY <2>1, <2>2, MintServes, ServingKept, LifeKept DEF DeviceStep
<1>20. ASSUME NEW r \in Requests, NEW t \in Tokens, Rotate(r, t) PROVE DeviceStep(f)
  <2>1. PICK u \in Users, g \in Tokens : Mint(t, u, g)
    BY <1>20, <1>a DEF Rotate, At, Holds, Minted, Issued, TypeInv, TableInv, Lineage
  <2>2. \A q \in Requests : SameService(q)
    BY <1>20, <1>a, <1>b, Becomes DEF Rotate, At, End, SameService, Served
  <2>3. row' = row
    BY <1>20 DEF Rotate
  <2> QED
    BY <2>1, <2>2, <2>3, MintServes, ServingKept, LifeKept DEF DeviceStep
<1>21. ASSUME NEW r \in Requests, NEW t \in Tokens, NEW stale \in BOOLEAN, AdmitToken(r, t, stale)
      PROVE DeviceStep(f)
  <2> DEFINE j == [Idle EXCEPT !.pc = IF stale THEN "touch" ELSE "view", !.token = t]
  <2>1. j.pc \in {"touch", "view"} /\ j.token = t /\ Become(r, j)
    BY <1>21 DEF AdmitToken, Idle
  <2> HIDE DEF j
  <2>2. /\ req'[r].pc \in {"touch", "view"} /\ req'[r].token = t
        /\ \A q \in Requests : q # r => req'[q] = req[q]
    BY <1>a, <2>1, Becomes
  <2>3. /\ UNCHANGED <<family, row>> /\ family[t] = t /\ row[t] = "active"
        /\ req[r].pc = "idle"
    BY <1>21 DEF AdmitToken, At, TypeInv, TableInv, Lineage
  <2>4. UNCHANGED Life(f)
    BY <2>3, LifeKept
  <2>5. CASE f = t
    <3>1. r \notin Serving(f) /\ Serving(f)' = Serving(f) \cup {r}
      BY <2>2, <2>3, <2>5 DEF Serving
    <3>2. Life(f) = "in"
      BY <2>3, <2>5 DEF Life
    <3> QED
      BY <2>4, <3>1, <3>2 DEF DeviceStep, Device!Next, Device!Admit
  <2>6. CASE f # t
    <3>1. UNCHANGED Serving(f)
      BY <2>2, <2>3, <2>6 DEF Serving
    <3> QED
      BY <2>4, <3>1 DEF DeviceStep
  <2> QED
    BY <2>5, <2>6
<1>22. ASSUME NEW r \in Requests, Touch(r) PROVE DeviceStep(f)
  <2> DEFINE j == [req[r] EXCEPT !.pc = "view"]
  <2>1. j.pc = "view" /\ j.token = req[r].token /\ req[r].pc = "touch" /\ Become(r, j)
    BY <1>22, <1>a DEF Touch, At, Job
  <2> HIDE DEF j
  <2>2. \A q \in Requests : SameService(q)
    BY <1>a, <2>1, Becomes DEF SameService, Served
  <2> QED
    BY <1>22, <2>2, DeviceFrame DEF Touch
<1>23. ASSUME NEW r \in Requests, Answer(r) PROVE DeviceStep(f)
  <2>1. /\ req'[r].pc = "idle" /\ \A q \in Requests : q # r => req'[q] = req[q]
        /\ req[r].pc = "view" /\ UNCHANGED <<family, row>>
    BY <1>23, <1>a, <1>b, Becomes DEF Answer, At, End
  <2>2. UNCHANGED Life(f)
    BY <2>1, LifeKept
  <2>3. Serving(f)' = Serving(f) \ {r}
    BY <2>1 DEF Serving
  <2>4. CASE r \in Serving(f)
    BY <2>2, <2>3, <2>4 DEF DeviceStep, Device!Next, Device!Answer
  <2>5. CASE r \notin Serving(f)
    BY <2>2, <2>3, <2>5 DEF DeviceStep
  <2> QED
    BY <2>4, <2>5
<1>24. ASSUME NEW t \in Tokens, RevokeAll(t) PROVE DeviceStep(f)
  <2>1. \A q \in Requests : SameService(q)
    BY <1>24 DEF RevokeAll, SameService, Served
  <2> QED
    BY <1>24, <2>1, DeviceRevoked DEF RevokeAll, TypeInv
<1>25. ASSUME NEW u \in Users, UnlockUser(u) PROVE DeviceStep(f)
  BY <1>25, DeviceFrame DEF UnlockUser, SameService, Served
<1>26. ASSUME NEW c \in Codes, ExpireCode(c) PROVE DeviceStep(f)
  BY <1>26, DeviceFrame DEF ExpireCode, SameService, Served
<1>27. CASE UNCHANGED vars
  BY <1>27, DeviceFrame DEF vars, SameService, Served
<1> QED
  BY <1>1, <1>2, <1>3, <1>4, <1>5, <1>6, <1>7, <1>8, <1>9, <1>10, <1>11, <1>12, <1>13, <1>14, <1>15, <1>16, <1>17, <1>18, <1>19, <1>20, <1>21, <1>22, <1>23, <1>24, <1>25, <1>26, <1>27
  DEF Next, Environment, SignIn, Use

\* What the session table does for each sign-in implements the promise of DeviceSession: after a
\* revocation nothing a device sends is admitted, and the session never comes back.
THEOREM RevocationCorrect == Spec => RevocationIsFinal
<1>1. Init => \A f \in Tokens : Device(f)!Init
  BY DEF Init, Device!Init, Life, Serving, Idle
<1>2. TypeInv /\ [Next]_vars =>
        [\A f \in Tokens : UNCHANGED <<Life(f), Serving(f)>> \/ Device(f)!Next]_<<family, row, req>>
  BY RevocationStep DEF DeviceStep
<1>3. Init => TypeInv
  BY TypeInit
<1>4. TypeInv /\ [Next]_vars => TypeInv'
  BY TypeStep
<1> QED
  BY <1>1, <1>2, <1>3, <1>4, PTL DEF Spec, RevocationIsFinal
===============================================================================
