---------------------------- MODULE SessionsProofs ----------------------------
(***************************************************************************)
(* Proofs about Sessions, for any number of users, requests, tokens and    *)
(* codes, any limit and any number of races.                               *)
(***************************************************************************)
EXTENDS Sessions, TLAPS

Minted == {t \in Tokens : Issued(t)}

(***************************************************************************)
(* What a request holds at each step: the user who signs in, a counter     *)
(* below its limit, the code, and tokens among those minted.               *)
(***************************************************************************)
Holds(j, minted) ==
    /\ j.pc \in {"password", "open", "tries", "count", "spend"} => j.user \in Users
    /\ j.pc \in {"password", "count"} => j.count < Limit
    /\ j.pc \in {"tries", "count", "spend"} => j.code \in Codes
    /\ j.pc \in {"rotate", "blacklist"} => j.refresh \in minted
    /\ j.refresh \in minted \cup {Nobody}
    /\ j.pc \in {"blacklist", "close", "save", "touch", "view"} => j.token \in minted
    /\ j.token \in minted \cup {Nobody}

\* A token descends from one that founded its family; only founders have a session row.
Lineage ==
    /\ \A t \in Minted : family[t] \in Minted /\ family[family[t]] = family[t]
    /\ \A t \in Tokens \ Minted : family[t] = Nobody
    /\ \A t \in Tokens : row[t] # "none" => t \in Minted /\ family[t] = t

\* The variables other than req.
TableInv ==
    /\ owner \in [Tokens -> Users \cup {Nobody}]
    /\ family \in [Tokens -> Tokens \cup {Nobody}]
    /\ row \in [Tokens -> RowState]
    /\ blacklist \subseteq Tokens
    /\ attempts \in [Users -> 0..Limit]
    /\ guesses \in [Users -> Nat]
    /\ raced \subseteq Users \cup Codes \cup Tokens
    /\ Lineage

CodeInv ==
    /\ code \in [Codes -> CodeEntry]
    /\ \A c \in Codes : code[c].live => code[c].user \in Users

RequestInv ==
    /\ req \in [Requests -> Job]
    /\ \A r \in Requests : Holds(req[r], Minted)

TypeInv == TableInv /\ CodeInv /\ RequestInv

LEMMA Constants == /\ Limit \in Nat /\ 0 < Limit
                   /\ Nobody \notin Users /\ Nobody \notin Tokens /\ Nobody \notin Codes
  BY BoundsAssumption

LEMMA TypesHold == TypeInv => TypeOK
  BY DEF TypeInv, TableInv, CodeInv, RequestInv, TypeOK

LEMMA IdleHolds == Idle \in Job /\ \A M \in SUBSET Tokens : Holds(Idle, M)
  BY Constants DEF Idle, Job, Pcs, Holds

\* What a request holds after a step that starts a job, or moves on within one.
LEMMA JobStarts ==
  ASSUME NEW t \in Minted
  PROVE  /\ \A pc \in {"close", "save", "touch", "view"} : LET j == [Idle EXCEPT !.pc = pc, !.token = t] IN
              j \in Job /\ Holds(j, Minted)
         /\ LET j == [Idle EXCEPT !.pc = "rotate", !.refresh = t] IN j \in Job /\ Holds(j, Minted)
<1>1. ASSUME NEW pc \in {"close", "save", "touch", "view"}
      PROVE  LET j == [Idle EXCEPT !.pc = pc, !.token = t] IN j \in Job /\ Holds(j, Minted)
  <2> DEFINE j == [Idle EXCEPT !.pc = pc, !.token = t]
  <2>1. j \in Job
    BY IdleHolds DEF Minted, Job, Pcs
  <2>2. j.pc = pc /\ j.token = t /\ j.refresh = Nobody
    BY DEF Idle
  <2> HIDE DEF j
  <2> QED
    BY <2>1, <2>2 DEF Holds, j
<1>2. LET j == [Idle EXCEPT !.pc = "rotate", !.refresh = t] IN j \in Job /\ Holds(j, Minted)
  <2> DEFINE j == [Idle EXCEPT !.pc = "rotate", !.refresh = t]
  <2>1. j \in Job
    BY IdleHolds DEF Minted, Job, Pcs
  <2>2. j.pc = "rotate" /\ j.token = Nobody /\ j.refresh = t
    BY DEF Idle
  <2> HIDE DEF j
  <2> QED
    BY <2>1, <2>2 DEF Holds, j
<1> QED
  BY <1>1, <1>2

LEMMA JobMoves ==
  ASSUME NEW k \in Job, Holds(k, Minted)
  PROVE  /\ k.pc = "touch" => LET j == [k EXCEPT !.pc = "view"] IN j \in Job /\ Holds(j, Minted)
         /\ k.pc \in {"password", "spend"} =>
              LET j == [k EXCEPT !.pc = "open"] IN j \in Job /\ Holds(j, Minted)
  BY DEF Job, Pcs, Holds

LEMMA TypeInit == Init => TypeInv
<1> SUFFICES ASSUME Init PROVE TypeInv
  OBVIOUS
<1>1. Minted = {}
  BY DEF Init, Minted, Issued
<1>2. TableInv
  BY <1>1, Constants DEF Init, TableInv, Lineage, RowState
<1>3. CodeInv
  BY Constants DEF Init, CodeInv, CodeEntry
<1>4. RequestInv
  BY <1>1, IdleHolds DEF Init, RequestInv
<1> QED
  BY <1>2, <1>3, <1>4 DEF TypeInv

\* A request that takes a step, while tokens stay minted, leaves the others what they hold.
LEMMA RequestStep ==
  ASSUME RequestInv, Minted \subseteq Minted', NEW r \in Requests, NEW j \in Job,
         Holds(j, Minted'), Become(r, j)
  PROVE  RequestInv'
<1>1. req' \in [Requests -> Job] /\ req'[r] = j /\ \A q \in Requests : q # r => req'[q] = req[q]
  BY DEF Become, RequestInv
<1>2. ASSUME NEW q \in Requests, q # r PROVE Holds(req'[q], Minted')
  BY <1>1, <1>2 DEF RequestInv, Holds
<1> QED
  BY <1>1, <1>2 DEF RequestInv

LEMMA EndStep ==
  ASSUME RequestInv, Minted \subseteq Minted', NEW r \in Requests, End(r)
  PROVE  RequestInv'
  BY RequestStep, IdleHolds DEF End, Minted

LEMMA CodeStep ==
  ASSUME CodeInv, NEW c \in Codes, NEW e \in CodeEntry, e.live => e.user \in Users,
         code' = [code EXCEPT ![c] = e]
  PROVE  CodeInv'
<1>1. code' \in [Codes -> CodeEntry]
  BY DEF CodeInv
<1>2. ASSUME NEW d \in Codes, code'[d].live PROVE code'[d].user \in Users
  <2>1. CASE d = c
    BY <1>2, <2>1 DEF CodeInv
  <2>2. CASE d # c
    BY <1>2, <2>2 DEF CodeInv
  <2> QED
    BY <2>1, <2>2
<1> QED
  BY <1>1, <1>2 DEF CodeInv

\* Counting and withdrawing a code.
LEMMA CodeFields ==
  ASSUME NEW e \in CodeEntry
  PROVE  /\ [e EXCEPT !.live = FALSE] \in CodeEntry
         /\ \A n \in 0..Limit, m \in Nat : [e EXCEPT !.tries = n, !.wrong = m] \in CodeEntry
         /\ \A m \in Nat : [e EXCEPT !.opened = m] \in CodeEntry
         /\ \A u \in Users : [e EXCEPT !.user = u, !.live = TRUE] \in CodeEntry
  BY DEF CodeEntry

LEMMA CountType == \A n \in Nat : \A x : Count(n, x) \in Nat
  BY DEF Count

LEMMA RaceType ==
  ASSUME NEW x \in Users \cup Codes \cup Tokens, NEW STATE used, Race(x, used),
         raced \subseteq Users \cup Codes \cup Tokens
  PROVE  raced' \subseteq Users \cup Codes \cup Tokens
  BY DEF Race

\* Rows change only from active to revoked: nobody gets one.
LEMMA LineageKept ==
  ASSUME Lineage, UNCHANGED <<owner, family>>,
         \A t \in Tokens : row'[t] # "none" => row[t] # "none"
  PROVE  Lineage' /\ Minted' = Minted
  BY DEF Lineage, Minted, Issued

\* A token is minted into a new family, which may get a row, or into one there is.
LEMMA LineageMinted ==
  ASSUME TableInv, NEW t \in Tokens, NEW u \in Users, NEW f \in Tokens, Mint(t, u, f),
         f = t \/ (f \in Minted /\ family[f] = f),
         row' = row \/ (f = t /\ OpenRow(t))
  PROVE  /\ Lineage' /\ Minted' = Minted \cup {t} /\ t \notin Minted
         /\ owner' \in [Tokens -> Users \cup {Nobody}]
         /\ family' \in [Tokens -> Tokens \cup {Nobody}]
         /\ row' \in [Tokens -> RowState]
<1>1. /\ owner' \in [Tokens -> Users \cup {Nobody}] /\ owner'[t] = u
      /\ \A s \in Tokens \ {t} : owner'[s] = owner[s]
  BY DEF Mint, TableInv
<1>2. /\ family' \in [Tokens -> Tokens \cup {Nobody}] /\ family'[t] = f
      /\ \A s \in Tokens \ {t} : family'[s] = family[s]
  BY DEF Mint, TableInv
<1>3. /\ row' \in [Tokens -> RowState]
      /\ \A s \in Tokens \ {t} : row'[s] = row[s]
      /\ row'[t] = row[t] \/ f = t
  BY DEF OpenRow, TableInv, RowState
<1>4. Minted' = Minted \cup {t} /\ t \notin Minted
  BY <1>1, Constants DEF Minted, Issued, Mint
<1>5. ASSUME NEW s \in Minted' PROVE family'[s] \in Minted' /\ family'[family'[s]] = family'[s]
  <2>1. CASE s = t
    BY <1>2, <1>4, <2>1 DEF Minted
  <2>2. CASE s # t
    BY <1>2, <1>4, <1>5, <2>2 DEF Minted, TableInv, Lineage
  <2> QED
    BY <2>1, <2>2
<1>6. ASSUME NEW s \in Tokens, row'[s] # "none" PROVE s \in Minted' /\ family'[s] = s
  <2>1. CASE s = t
    BY <1>2, <1>3, <1>4, <1>6, <2>1 DEF TableInv, Lineage
  <2>2. CASE s # t
    BY <1>2, <1>3, <1>4, <1>6, <2>2 DEF TableInv, Lineage
  <2> QED
    BY <2>1, <2>2
<1>7. \A s \in Tokens \ Minted' : family'[s] = Nobody
  BY <1>2, <1>4 DEF TableInv, Lineage
<1> QED
  BY <1>1, <1>2, <1>3, <1>4, <1>5, <1>6, <1>7 DEF Lineage

LEMMA RevokedRows ==
  ASSUME TableInv, NEW S, row' = Revoked(S)
  PROVE  /\ row' \in [Tokens -> RowState]
         /\ \A t \in Tokens : row'[t] # "none" => row[t] # "none"
  BY DEF TableInv, Revoked, RowState

LEMMA TypeStep == TypeInv /\ [Next]_vars => TypeInv'
<1> SUFFICES ASSUME TypeInv, [Next]_vars PROVE TypeInv'
  OBVIOUS
<1> USE Constants
<1>a. ASSUME NEW r \in Requests PROVE req[r] \in Job /\ Holds(req[r], Minted)
  BY DEF TypeInv, RequestInv
<1>1. ASSUME NEW r \in Requests, NEW u \in Users, Login(r, u) PROVE TypeInv'
  <2>1. Lineage' /\ Minted' = Minted
    BY <1>1, LineageKept DEF Login, TypeInv, TableInv
  <2>2. raced' \subseteq Users \cup Codes \cup Tokens
    BY <1>1, RaceType DEF Login, TypeInv, TableInv, Lineage, Minted
  <2>3. TableInv'
    BY <1>1, <2>1, <2>2 DEF Login, TypeInv, TableInv
  <2>4. CodeInv'
    BY <1>1 DEF Login, TypeInv, CodeInv
  <2> DEFINE j == [Idle EXCEPT !.pc = "password", !.user = u, !.count = attempts[u]]
  <2>5. j \in Job /\ Holds(j, Minted')
    <3>1. attempts[u] \in 0..Limit /\ attempts[u] < Limit
      BY <1>1 DEF Login, TypeInv, TableInv
    <3> QED
      BY <3>1 DEF Job, Pcs, Holds, Idle
  <2>6. RequestInv'
    BY <1>1, <2>1, <2>5, RequestStep DEF Login, TypeInv
  <2> QED
    BY <2>3, <2>4, <2>6 DEF TypeInv
<1>2. ASSUME NEW r \in Requests, LoginDisabled(r) PROVE TypeInv'
  <2>1. Lineage' /\ Minted' = Minted
    BY <1>2, LineageKept DEF LoginDisabled, TypeInv, TableInv
  <2>2. TableInv'
    BY <1>2, <2>1 DEF LoginDisabled, TypeInv, TableInv
  <2>3. CodeInv'
    BY <1>2 DEF LoginDisabled, TypeInv, CodeInv
  <2>4. RequestInv'
    BY <1>2, <2>1, EndStep DEF LoginDisabled, TypeInv
  <2> QED
    BY <2>2, <2>3, <2>4 DEF TypeInv
<1>3. ASSUME NEW r \in Requests, WrongPassword(r) PROVE TypeInv'
  <2>1. Lineage' /\ Minted' = Minted
    BY <1>3, LineageKept DEF WrongPassword, TypeInv, TableInv
  <2>2. TableInv'
    <3> DEFINE u == req[r].user
    <3>1. u \in Users /\ req[r].count + 1 \in 0..Limit
      BY <1>3, <1>a DEF WrongPassword, Holds, At, Job
    <3>2. guesses[u] \in Nat /\ Count(guesses[u], u) \in Nat
      BY <3>1, CountType DEF TypeInv, TableInv
    <3>3. /\ attempts' = [attempts EXCEPT ![u] = req[r].count + 1]
          /\ guesses' = [guesses EXCEPT ![u] = Count(guesses[u], u)]
      BY <1>3, <3>1 DEF WrongPassword, TypeInv, TableInv
    <3>4. UNCHANGED <<owner, family, row, blacklist, raced>>
      BY <1>3 DEF WrongPassword
    <3> HIDE DEF u
    <3>5. attempts' \in [Users -> 0..Limit]
      BY <3>1, <3>3 DEF TypeInv, TableInv
    <3>6. guesses' \in [Users -> Nat]
      BY <3>1, <3>2, <3>3 DEF TypeInv, TableInv
    <3> QED
      BY <2>1, <3>4, <3>5, <3>6 DEF TypeInv, TableInv
  <2>3. CodeInv'
    BY <1>3 DEF WrongPassword, TypeInv, CodeInv
  <2>4. RequestInv'
    BY <1>3, <2>1, EndStep DEF WrongPassword, TypeInv
  <2> QED
    BY <2>2, <2>3, <2>4 DEF TypeInv
<1>4. ASSUME NEW r \in Requests, NEW suspended \in BOOLEAN, RightPassword(r, suspended) PROVE TypeInv'
  <2>1. Lineage' /\ Minted' = Minted
    BY <1>4, LineageKept DEF RightPassword, TypeInv, TableInv
  <2>2. TableInv'
    <3>1. UNCHANGED <<owner, family, row, blacklist, raced>>
      BY <1>4 DEF RightPassword
    <3> DEFINE u == req[r].user
    <3>2. attempts' = [attempts EXCEPT ![u] = 0] /\ guesses' = [guesses EXCEPT ![u] = 0]
      BY <1>4 DEF RightPassword
    <3> HIDE DEF u
    <3>3. 0 \in 0..Limit
      OBVIOUS
    <3>4. attempts' \in [Users -> 0..Limit]
      BY <3>2, <3>3 DEF TypeInv, TableInv
    <3>5. guesses' \in [Users -> Nat]
      BY <3>2 DEF TypeInv, TableInv
    <3> QED
      BY <2>1, <3>1, <3>4, <3>5 DEF TypeInv, TableInv
  <2>3. CodeInv'
    BY <1>4 DEF RightPassword, TypeInv, CodeInv
  <2> DEFINE j == IF suspended THEN Idle ELSE [req[r] EXCEPT !.pc = "open"]
  <2>4. j \in Job /\ Holds(j, Minted')
    BY <1>4, <2>1, <1>a, IdleHolds, JobMoves DEF RightPassword, At, TypeInv, TableInv, Minted
  <2>5. RequestInv'
    <3>1. Become(r, j)
      BY <1>4 DEF RightPassword, End
    <3> HIDE DEF j
    <3> QED
      BY <2>1, <2>4, <3>1, RequestStep DEF TypeInv
  <2> QED
    BY <2>2, <2>3, <2>5 DEF TypeInv
<1>5. ASSUME NEW r \in Requests, NEW c \in Codes, AskForCode(r, c) PROVE TypeInv'
  <2>1. Lineage' /\ Minted' = Minted
    BY <1>5, LineageKept DEF AskForCode, TypeInv, TableInv
  <2>2. TableInv'
    BY <1>5, <2>1 DEF AskForCode, TypeInv, TableInv
  <2> DEFINE e == [code[c] EXCEPT !.user = req[r].user, !.live = TRUE]
  <2>3. CodeInv'
    <3>1. code[c] \in CodeEntry
      BY DEF TypeInv, CodeInv
    <3>2. e \in CodeEntry /\ (e.live => e.user \in Users)
      BY <1>5, <3>1, <1>a, CodeFields DEF AskForCode, CodeEntry, Holds, At, Job
    <3>3. code' = [code EXCEPT ![c] = e]
      BY <1>5, <3>1 DEF AskForCode, TypeInv, CodeInv
    <3> HIDE DEF e
    <3> QED
      BY <3>2, <3>3, CodeStep DEF TypeInv
  <2>4. RequestInv'
    BY <1>5, <2>1, EndStep DEF AskForCode, TypeInv
  <2> QED
    BY <2>2, <2>3, <2>4 DEF TypeInv
<1>6. ASSUME NEW r \in Requests, NEW c \in Codes, VerifyCode(r, c) PROVE TypeInv'
  <2>1. Lineage' /\ Minted' = Minted
    BY <1>6, LineageKept DEF VerifyCode, TypeInv, TableInv
  <2>2. raced' \subseteq Users \cup Codes \cup Tokens
    BY <1>6, RaceType DEF VerifyCode, TypeInv, TableInv, Lineage, Minted
  <2>3. TableInv'
    BY <1>6, <2>1, <2>2 DEF VerifyCode, TypeInv, TableInv
  <2>4. CodeInv'
    BY <1>6 DEF VerifyCode, TypeInv, CodeInv
  <2> DEFINE j == [Idle EXCEPT !.pc = "tries", !.user = code[c].user, !.code = c]
  <2>5. j \in Job /\ Holds(j, Minted')
    <3>1. code[c].user \in Users
      BY <1>6 DEF VerifyCode, TypeInv, CodeInv
    <3> QED
      BY <2>1, <3>1, IdleHolds DEF Job, Pcs, Holds, Idle
  <2>6. RequestInv'
    BY <1>6, <2>1, <2>5, RequestStep DEF VerifyCode, TypeInv
  <2> QED
    BY <2>3, <2>4, <2>6 DEF TypeInv
<1>7. ASSUME NEW r \in Requests, TooManyTries(r) PROVE TypeInv'
  <2>1. Lineage' /\ Minted' = Minted
    BY <1>7, LineageKept DEF TooManyTries, TypeInv, TableInv
  <2>2. TableInv'
    BY <1>7, <2>1 DEF TooManyTries, TypeInv, TableInv
  <2> DEFINE c == req[r].code
             e == [code[c] EXCEPT !.live = FALSE]
  <2>3. CodeInv'
    <3>1. c \in Codes /\ code[c] \in CodeEntry /\ (code[c].live => code[c].user \in Users)
      BY <1>7, <1>a DEF TooManyTries, TypeInv, CodeInv, Holds, At
    <3>2. e \in CodeEntry /\ (e.live => e.user \in Users)
      BY <1>7, <3>1, <1>a, CodeFields, CountType DEF TooManyTries, CodeEntry, Holds, At, Job
    <3>3. code' = [code EXCEPT ![c] = e]
      BY <1>7, <3>1 DEF TooManyTries, TypeInv, CodeInv
    <3> HIDE DEF c, e
    <3> QED
      BY <3>1, <3>2, <3>3, CodeStep DEF TypeInv
  <2>4. RequestInv'
    BY <1>7, <2>1, EndStep DEF TooManyTries, TypeInv
  <2> QED
    BY <2>2, <2>3, <2>4 DEF TypeInv
<1>8. ASSUME NEW r \in Requests, NEW right \in BOOLEAN, CompareCode(r, right) PROVE TypeInv'
  <2>1. Lineage' /\ Minted' = Minted
    BY <1>8, LineageKept DEF CompareCode, TypeInv, TableInv
  <2>2. TableInv'
    BY <1>8, <2>1 DEF CompareCode, TypeInv, TableInv
  <2>3. CodeInv'
    BY <1>8 DEF CompareCode, TypeInv, CodeInv
  <2> DEFINE j == [req[r] EXCEPT !.pc = IF right THEN "spend" ELSE "count", !.count = code[req[r].code].tries]
  <2>4. j \in Job /\ Holds(j, Minted')
    <3> DEFINE tries == code[req[r].code].tries
    <3>1. /\ req[r].pc = "tries" /\ req[r].code \in Codes /\ req[r].user \in Users
          /\ req[r] \in Job /\ Holds(req[r], Minted)
      BY <1>8, <1>a DEF CompareCode, Holds, At
    <3>2. tries \in 0..Limit /\ tries < Limit
      BY <1>8, <3>1 DEF CompareCode, TypeInv, CodeInv, CodeEntry
    <3>3. ASSUME NEW n \in 0..Limit, n < Limit, NEW k \in Job, k.pc = "tries", Holds(k, Minted),
                 NEW pc \in {"spend", "count"}
          PROVE  /\ [k EXCEPT !.pc = pc, !.count = n] \in Job
                 /\ Holds([k EXCEPT !.pc = pc, !.count = n], Minted)
      BY <3>3 DEF Job, Pcs, Holds
    <3>4. j = [req[r] EXCEPT !.pc = IF right THEN "spend" ELSE "count", !.count = tries]
      OBVIOUS
    <3>5. (IF right THEN "spend" ELSE "count") \in {"spend", "count"}
      OBVIOUS
    <3> HIDE DEF tries, j
    <3> QED
      BY <2>1, <3>1, <3>2, <3>3, <3>4, <3>5
  <2>5. RequestInv'
    BY <1>8, <2>1, <2>4, RequestStep DEF CompareCode, TypeInv
  <2> QED
    BY <2>2, <2>3, <2>5 DEF TypeInv
<1>9. ASSUME NEW r \in Requests, CountTry(r) PROVE TypeInv'
  <2>1. Lineage' /\ Minted' = Minted
    BY <1>9, LineageKept DEF CountTry, TypeInv, TableInv
  <2>2. TableInv'
    BY <1>9, <2>1 DEF CountTry, TypeInv, TableInv
  <2> DEFINE c == req[r].code
             e == [code[c] EXCEPT !.tries = req[r].count + 1, !.wrong = Count(@, c)]
  <2>3. CodeInv'
    <3>1. c \in Codes /\ code[c] \in CodeEntry /\ (code[c].live => code[c].user \in Users)
      BY <1>9, <1>a DEF CountTry, TypeInv, CodeInv, Holds, At
    <3>2. e \in CodeEntry /\ (e.live => e.user \in Users)
      <4>1. req[r].count + 1 \in 0..Limit
        BY <1>9, <1>a DEF CountTry, Holds, At, Job
      <4>2. Count(code[c].wrong, c) \in Nat
        BY <3>1, CountType DEF CodeEntry
      <4>3. e = [code[c] EXCEPT !.tries = req[r].count + 1, !.wrong = Count(code[c].wrong, c)]
        BY <3>1 DEF CodeEntry
      <4>4. e.live = code[c].live /\ e.user = code[c].user
        BY <3>1, <4>3 DEF CodeEntry
      <4> HIDE DEF e, c
      <4> QED
        BY <3>1, <4>1, <4>2, <4>3, <4>4, CodeFields
    <3>3. code' = [code EXCEPT ![c] = e]
      BY <1>9, <3>1 DEF CountTry, TypeInv, CodeInv
    <3> HIDE DEF c, e
    <3> QED
      BY <3>1, <3>2, <3>3, CodeStep DEF TypeInv
  <2>4. RequestInv'
    BY <1>9, <2>1, EndStep DEF CountTry, TypeInv
  <2> QED
    BY <2>2, <2>3, <2>4 DEF TypeInv
<1>10. ASSUME NEW r \in Requests, SpendCode(r) PROVE TypeInv'
  <2>1. Lineage' /\ Minted' = Minted
    BY <1>10, LineageKept DEF SpendCode, TypeInv, TableInv
  <2>2. TableInv'
    BY <1>10, <2>1 DEF SpendCode, TypeInv, TableInv
  <2> DEFINE c == req[r].code
             e == [code[c] EXCEPT !.live = FALSE]
  <2>3. CodeInv'
    <3>1. c \in Codes /\ code[c] \in CodeEntry /\ (code[c].live => code[c].user \in Users)
      BY <1>10, <1>a DEF SpendCode, TypeInv, CodeInv, Holds, At
    <3>2. e \in CodeEntry /\ (e.live => e.user \in Users)
      BY <1>10, <3>1, <1>a, CodeFields, CountType DEF SpendCode, CodeEntry, Holds, At, Job
    <3>3. code' = [code EXCEPT ![c] = e]
      BY <1>10, <3>1 DEF SpendCode, TypeInv, CodeInv
    <3> HIDE DEF c, e
    <3> QED
      BY <3>1, <3>2, <3>3, CodeStep DEF TypeInv
  <2> DEFINE j == [req[r] EXCEPT !.pc = "open"]
  <2>4. j \in Job /\ Holds(j, Minted')
    BY <1>10, <2>1, <1>a, JobMoves DEF SpendCode, At
  <2>5. RequestInv'
    BY <1>10, <2>1, <2>4, RequestStep DEF SpendCode, TypeInv
  <2> QED
    BY <2>2, <2>3, <2>5 DEF TypeInv
<1>11. ASSUME NEW r \in Requests, NEW t \in Tokens, Refresh(r, t) PROVE TypeInv'
  <2>1. Lineage' /\ Minted' = Minted
    BY <1>11, LineageKept DEF Refresh, TypeInv, TableInv
  <2>2. raced' \subseteq Users \cup Codes \cup Tokens
    BY <1>11, RaceType DEF Refresh, TypeInv, TableInv, Lineage, Minted
  <2>3. TableInv'
    BY <1>11, <2>1, <2>2 DEF Refresh, TypeInv, TableInv
  <2>4. CodeInv'
    BY <1>11 DEF Refresh, TypeInv, CodeInv
  <2> DEFINE j == [Idle EXCEPT !.pc = "rotate", !.refresh = t]
  <2>5. j \in Job /\ Holds(j, Minted')
    <3>1. t \in Minted
      BY <1>11 DEF Refresh, Minted
    <3> QED
      BY <2>1, <3>1, JobStarts
  <2>6. RequestInv'
    BY <1>11, <2>1, <2>5, RequestStep DEF Refresh, TypeInv
  <2> QED
    BY <2>3, <2>4, <2>6 DEF TypeInv
<1>12. ASSUME NEW r \in Requests, NEW a \in Tokens, NEW t \in Tokens, Logout(r, a, t) PROVE TypeInv'
  <2>1. Lineage' /\ Minted' = Minted
    BY <1>12, LineageKept DEF Logout, TypeInv, TableInv
  <2>2. raced' \subseteq Users \cup Codes \cup Tokens
    BY <1>12, RaceType DEF Logout, TypeInv, TableInv, Lineage, Minted
  <2>3. TableInv'
    BY <1>12, <2>1, <2>2 DEF Logout, TypeInv, TableInv
  <2>4. CodeInv'
    BY <1>12 DEF Logout, TypeInv, CodeInv
  <2> DEFINE j == [Idle EXCEPT !.pc = "blacklist", !.token = a, !.refresh = t]
  <2>5. j \in Job /\ Holds(j, Minted')
    <3>1. a \in Minted /\ t \in Minted
      BY <1>12 DEF Logout, Minted
    <3>2. j \in Job
      BY IdleHolds DEF Job, Pcs
    <3>3. j.pc = "blacklist" /\ j.token = a /\ j.refresh = t
      BY DEF Idle
    <3> HIDE DEF j
    <3> QED
      BY <2>1, <3>1, <3>2, <3>3 DEF Holds
  <2>6. RequestInv'
    BY <1>12, <2>1, <2>5, RequestStep DEF Logout, TypeInv
  <2> QED
    BY <2>3, <2>4, <2>6 DEF TypeInv
<1>13. ASSUME NEW r \in Requests, NEW a \in Tokens, LogoutAccess(r, a) PROVE TypeInv'
  <2>1. Lineage' /\ Minted' = Minted
    BY <1>13, LineageKept DEF LogoutAccess, TypeInv, TableInv
  <2>2. TableInv'
    BY <1>13, <2>1 DEF LogoutAccess, TypeInv, TableInv
  <2>3. CodeInv'
    BY <1>13 DEF LogoutAccess, TypeInv, CodeInv
  <2> DEFINE j == [Idle EXCEPT !.pc = "close", !.token = a]
  <2>4. j \in Job /\ Holds(j, Minted')
    <3>1. a \in Minted
      BY <1>13 DEF LogoutAccess, Minted
    <3> QED
      BY <2>1, <3>1, JobStarts
  <2>5. RequestInv'
    BY <1>13, <2>1, <2>4, RequestStep DEF LogoutAccess, TypeInv
  <2> QED
    BY <2>2, <2>3, <2>5 DEF TypeInv
<1>14. ASSUME NEW r \in Requests, LogoutBlacklist(r) PROVE TypeInv'
  <2>1. Lineage' /\ Minted' = Minted
    BY <1>14, LineageKept DEF LogoutBlacklist, TypeInv, TableInv
  <2>2. TableInv'
    BY <1>14, <2>1 DEF LogoutBlacklist, TypeInv, TableInv, RequestInv, Holds, At, Minted
  <2>3. CodeInv'
    BY <1>14 DEF LogoutBlacklist, TypeInv, CodeInv
  <2> DEFINE j == [req[r] EXCEPT !.pc = "close", !.refresh = Nobody]
  <2>4. j \in Job /\ Holds(j, Minted')
    <3>1. req[r].pc = "blacklist" /\ req[r] \in Job /\ Holds(req[r], Minted)
      BY <1>14, <1>a DEF LogoutBlacklist, At
    <3> QED
      BY <2>1, <3>1 DEF Job, Pcs, Holds
  <2>5. RequestInv'
    BY <1>14, <2>1, <2>4, RequestStep DEF LogoutBlacklist, TypeInv
  <2> QED
    BY <2>2, <2>3, <2>5 DEF TypeInv
<1>15. ASSUME NEW r \in Requests, LogoutClose(r) PROVE TypeInv'
  <2>1. row' \in [Tokens -> RowState] /\ \A t \in Tokens : row'[t] # "none" => row[t] # "none"
    BY <1>15, RevokedRows DEF LogoutClose, TypeInv
  <2>2. Lineage' /\ Minted' = Minted
    BY <1>15, <2>1, LineageKept DEF LogoutClose, TypeInv, TableInv
  <2>3. TableInv'
    BY <1>15, <2>2, <2>1 DEF LogoutClose, TypeInv, TableInv
  <2>4. CodeInv'
    BY <1>15 DEF LogoutClose, TypeInv, CodeInv
  <2>5. RequestInv'
    BY <1>15, <2>2, EndStep DEF LogoutClose, TypeInv
  <2> QED
    BY <2>3, <2>4, <2>5 DEF TypeInv
<1>16. ASSUME NEW r \in Requests, NEW t \in Tokens, Revoke(r, t) PROVE TypeInv'
  <2>1. Lineage' /\ Minted' = Minted
    BY <1>16, LineageKept DEF Revoke, TypeInv, TableInv
  <2>2. TableInv'
    BY <1>16, <2>1 DEF Revoke, TypeInv, TableInv
  <2>3. CodeInv'
    BY <1>16 DEF Revoke, TypeInv, CodeInv
  <2> DEFINE j == [Idle EXCEPT !.pc = "save", !.token = t]
  <2>4. j \in Job /\ Holds(j, Minted')
    <3>1. t \in Minted
      BY <1>16 DEF Revoke, Minted, TypeInv, TableInv, Lineage
    <3> QED
      BY <2>1, <3>1, JobStarts
  <2>5. RequestInv'
    BY <1>16, <2>1, <2>4, RequestStep DEF Revoke, TypeInv
  <2> QED
    BY <2>2, <2>3, <2>5 DEF TypeInv
<1>17. ASSUME NEW r \in Requests, RevokeSave(r) PROVE TypeInv'
  <2>1. row' \in [Tokens -> RowState] /\ \A t \in Tokens : row'[t] # "none" => row[t] # "none"
    BY <1>17, RevokedRows DEF RevokeSave, TypeInv
  <2>2. Lineage' /\ Minted' = Minted
    BY <1>17, <2>1, LineageKept DEF RevokeSave, TypeInv, TableInv
  <2>3. TableInv'
    BY <1>17, <2>2, <2>1 DEF RevokeSave, TypeInv, TableInv
  <2>4. CodeInv'
    BY <1>17 DEF RevokeSave, TypeInv, CodeInv
  <2>5. RequestInv'
    BY <1>17, <2>2, EndStep DEF RevokeSave, TypeInv
  <2> QED
    BY <2>3, <2>4, <2>5 DEF TypeInv
<1>18. ASSUME NEW r \in Requests, NEW t \in Tokens, NEW stale \in BOOLEAN, AdmitToken(r, t, stale) PROVE TypeInv'
  <2>1. Lineage' /\ Minted' = Minted
    BY <1>18, LineageKept DEF AdmitToken, TypeInv, TableInv
  <2>2. TableInv'
    BY <1>18, <2>1 DEF AdmitToken, TypeInv, TableInv
  <2>3. CodeInv'
    BY <1>18 DEF AdmitToken, TypeInv, CodeInv
  <2> DEFINE j == [Idle EXCEPT !.pc = IF stale THEN "touch" ELSE "view", !.token = t]
  <2>4. j \in Job /\ Holds(j, Minted')
    <3>1. t \in Minted
      BY <1>18 DEF AdmitToken, Minted
    <3> QED
      BY <2>1, <3>1, JobStarts
  <2>5. RequestInv'
    BY <1>18, <2>1, <2>4, RequestStep DEF AdmitToken, TypeInv
  <2> QED
    BY <2>2, <2>3, <2>5 DEF TypeInv
<1>19. ASSUME NEW r \in Requests, Touch(r) PROVE TypeInv'
  <2>1. Lineage' /\ Minted' = Minted
    BY <1>19, LineageKept DEF Touch, TypeInv, TableInv
  <2>2. TableInv'
    BY <1>19, <2>1 DEF Touch, TypeInv, TableInv
  <2>3. CodeInv'
    BY <1>19 DEF Touch, TypeInv, CodeInv
  <2> DEFINE j == [req[r] EXCEPT !.pc = "view"]
  <2>4. j \in Job /\ Holds(j, Minted')
    BY <1>19, <2>1, <1>a, JobMoves DEF Touch, At
  <2>5. RequestInv'
    BY <1>19, <2>1, <2>4, RequestStep DEF Touch, TypeInv
  <2> QED
    BY <2>2, <2>3, <2>5 DEF TypeInv
<1>20. ASSUME NEW r \in Requests, Answer(r) PROVE TypeInv'
  <2>1. Lineage' /\ Minted' = Minted
    BY <1>20, LineageKept DEF Answer, TypeInv, TableInv
  <2>2. TableInv'
    BY <1>20, <2>1 DEF Answer, TypeInv, TableInv
  <2>3. CodeInv'
    BY <1>20 DEF Answer, TypeInv, CodeInv
  <2>4. RequestInv'
    BY <1>20, <2>1, EndStep DEF Answer, TypeInv
  <2> QED
    BY <2>2, <2>3, <2>4 DEF TypeInv
<1>21. ASSUME NEW a \in Tokens, RevokeAll(a) PROVE TypeInv'
  <2>1. row' \in [Tokens -> RowState] /\ \A t \in Tokens : row'[t] # "none" => row[t] # "none"
    BY <1>21, RevokedRows DEF RevokeAll, TypeInv
  <2>2. Lineage' /\ Minted' = Minted
    BY <1>21, <2>1, LineageKept DEF RevokeAll, TypeInv, TableInv
  <2>3. TableInv'
    BY <1>21, <2>2, <2>1 DEF RevokeAll, TypeInv, TableInv
  <2>4. CodeInv'
    BY <1>21 DEF RevokeAll, TypeInv, CodeInv
  <2>5. RequestInv'
    BY <1>21, <2>2 DEF RevokeAll, TypeInv, RequestInv
  <2> QED
    BY <2>3, <2>4, <2>5 DEF TypeInv
<1>22. ASSUME NEW u \in Users, UnlockUser(u) PROVE TypeInv'
  <2>1. Lineage' /\ Minted' = Minted
    BY <1>22, LineageKept DEF UnlockUser, TypeInv, TableInv
  <2>2. TableInv'
    BY <1>22, <2>1 DEF UnlockUser, TypeInv, TableInv
  <2>3. CodeInv'
    BY <1>22 DEF UnlockUser, TypeInv, CodeInv
  <2>4. RequestInv'
    BY <1>22, <2>1 DEF UnlockUser, TypeInv, RequestInv
  <2> QED
    BY <2>2, <2>3, <2>4 DEF TypeInv
<1>23. ASSUME NEW c \in Codes, ExpireCode(c) PROVE TypeInv'
  <2>1. Lineage' /\ Minted' = Minted
    BY <1>23, LineageKept DEF ExpireCode, TypeInv, TableInv
  <2>2. TableInv'
    BY <1>23, <2>1 DEF ExpireCode, TypeInv, TableInv
  <2> DEFINE e == [code[c] EXCEPT !.live = FALSE]
  <2>3. CodeInv'
    <3>1. code[c] \in CodeEntry
      BY DEF TypeInv, CodeInv
    <3>2. e \in CodeEntry /\ (e.live => e.user \in Users)
      BY <1>23, <3>1, <1>a, CodeFields DEF ExpireCode, CodeEntry, Holds, At, Job
    <3>3. code' = [code EXCEPT ![c] = e]
      BY <1>23, <3>1 DEF ExpireCode, TypeInv, CodeInv
    <3> HIDE DEF e
    <3> QED
      BY <3>2, <3>3, CodeStep DEF TypeInv
  <2>4. RequestInv'
    BY <1>23, <2>1 DEF ExpireCode, TypeInv, RequestInv
  <2> QED
    BY <2>2, <2>3, <2>4 DEF TypeInv
<1>24. ASSUME NEW r \in Requests, NEW t \in Tokens, OpenSession(r, t) PROVE TypeInv'
  <2>1. TableInv' /\ Minted \subseteq Minted'
    <3>1. req[r].user \in Users /\ Mint(t, req[r].user, t) /\ OpenRow(t)
      BY <1>24, <1>a DEF OpenSession, Holds, At
    <3>2. /\ Lineage' /\ Minted \subseteq Minted'
          /\ owner' \in [Tokens -> Users \cup {Nobody}]
          /\ family' \in [Tokens -> Tokens \cup {Nobody}] /\ row' \in [Tokens -> RowState]
      <4> DEFINE u == req[r].user
      <4>1. TableInv /\ u \in Users /\ Mint(t, u, t) /\ OpenRow(t)
        BY <3>1 DEF TypeInv
      <4> HIDE DEF u
      <4>2. /\ t = t \/ (t \in Minted /\ family[t] = t)
            /\ row' = row \/ (t = t /\ OpenRow(t))
        BY <4>1
      <4> QED
        BY <4>1, <4>2, LineageMinted
    <3>3. UNCHANGED <<blacklist, attempts, guesses, raced>>
      BY <1>24 DEF OpenSession
    <3> QED
      BY <3>2, <3>3 DEF TypeInv, TableInv
  <2>2. CodeInv'
    <3> DEFINE e(c) == IF c = req[r].code THEN [code[c] EXCEPT !.opened = Count(@, c)] ELSE code[c]
    <3>1. ASSUME NEW c \in Codes PROVE e(c) \in CodeEntry /\ e(c).live = code[c].live /\ e(c).user = code[c].user
      <4>1. code[c] \in CodeEntry /\ Count(code[c].opened, c) \in Nat
        BY CountType DEF TypeInv, CodeInv, CodeEntry
      <4>2. ASSUME NEW m \in Nat
            PROVE  /\ [code[c] EXCEPT !.opened = m] \in CodeEntry
                   /\ [code[c] EXCEPT !.opened = m].live = code[c].live
                   /\ [code[c] EXCEPT !.opened = m].user = code[c].user
        BY <4>1 DEF CodeEntry
      <4> QED
        BY <4>1, <4>2
    <3>2. code' = [c \in Codes |-> e(c)]
      BY <1>24 DEF OpenSession
    <3> HIDE DEF e
    <3> QED
      BY <3>1, <3>2 DEF TypeInv, CodeInv
  <2>3. RequestInv'
    BY <1>24, <2>1, EndStep DEF OpenSession, TypeInv
  <2> QED
    BY <2>1, <2>2, <2>3 DEF TypeInv
<1>25. ASSUME NEW u \in Users, NEW t \in Tokens, Register(u, t) PROVE TypeInv'
  <2>1. TableInv' /\ Minted \subseteq Minted'
    <3>1. /\ Lineage' /\ Minted \subseteq Minted'
          /\ owner' \in [Tokens -> Users \cup {Nobody}]
          /\ family' \in [Tokens -> Tokens \cup {Nobody}] /\ row' \in [Tokens -> RowState]
      <4>1. TableInv /\ Mint(t, u, t) /\ row' = row
        BY <1>25 DEF Register, TypeInv
      <4>2. /\ t = t \/ (t \in Minted /\ family[t] = t)
            /\ row' = row \/ (t = t /\ OpenRow(t))
        BY <4>1
      <4> QED
        BY <4>1, <4>2, LineageMinted
    <3>2. UNCHANGED <<blacklist, attempts, guesses, raced>>
      BY <1>25 DEF Register
    <3> QED
      BY <3>1, <3>2 DEF TypeInv, TableInv
  <2>2. CodeInv' /\ RequestInv'
    BY <1>25, <2>1 DEF Register, TypeInv, CodeInv, RequestInv, Holds
  <2> QED
    BY <2>1, <2>2 DEF TypeInv
<1>26. ASSUME NEW r \in Requests, NEW t \in Tokens, Rotate(r, t) PROVE TypeInv'
  <2> DEFINE old == req[r].refresh
  <2>1. old \in Minted /\ owner[old] \in Users /\ family[old] \in Minted /\ family[family[old]] = family[old]
    BY <1>26, <1>a DEF Rotate, Holds, At, Minted, Issued, TypeInv, TableInv, Lineage
  <2>2. Mint(t, owner[old], family[old]) /\ blacklist' = blacklist \cup {old} /\ End(r)
        /\ UNCHANGED <<row, attempts, code, guesses, raced>>
    BY <1>26 DEF Rotate
  <2>3. TableInv' /\ Minted \subseteq Minted'
    <3>1. family[old] \in Tokens /\ old \in Tokens
      BY <2>1 DEF Minted
    <3>2. /\ Lineage' /\ Minted \subseteq Minted'
          /\ owner' \in [Tokens -> Users \cup {Nobody}]
          /\ family' \in [Tokens -> Tokens \cup {Nobody}] /\ row' \in [Tokens -> RowState]
      <4> DEFINE u == owner[old]
                 f == family[old]
      <4>1. /\ TableInv /\ u \in Users /\ f \in Tokens /\ f \in Minted /\ family[f] = f
            /\ Mint(t, u, f) /\ row' = row
        BY <2>1, <2>2, <3>1 DEF TypeInv
      <4> HIDE DEF u, f
      <4>2. /\ f = t \/ (f \in Minted /\ family[f] = f)
            /\ row' = row \/ (f = t /\ OpenRow(t))
        BY <4>1
      <4> QED
        BY <4>1, <4>2, LineageMinted
    <3>3. blacklist' \subseteq Tokens
      BY <2>2, <3>1 DEF TypeInv, TableInv
    <3> QED
      BY <2>2, <3>2, <3>3 DEF TypeInv, TableInv
  <2>4. CodeInv' /\ RequestInv'
    BY <2>2, <2>3, EndStep DEF TypeInv, CodeInv
  <2> QED
    BY <2>3, <2>4 DEF TypeInv
<1>27. CASE UNCHANGED vars
  BY <1>27 DEF vars, TypeInv, TableInv, CodeInv, RequestInv, Lineage, Minted, Issued
<1> QED
  BY <1>1, <1>2, <1>3, <1>4, <1>5, <1>6, <1>7, <1>8, <1>9, <1>10, <1>11, <1>12, <1>13, <1>14, <1>15, <1>16, <1>17, <1>18, <1>19, <1>20, <1>21, <1>22, <1>23, <1>24, <1>25, <1>26, <1>27
  DEF Next, Environment, SignIn, Use

\* Every variable keeps its type: no counter passes its limit, no request uses a token that
\* was not minted.
THEOREM TypeCorrect == Spec => []TypeOK
<1>1. Init => TypeInv
  BY TypeInit
<1>2. TypeInv /\ [Next]_vars => TypeInv'
  BY TypeStep
<1>3. TypeInv => TypeOK
  BY TypesHold
<1> QED
  BY <1>1, <1>2, <1>3, PTL DEF Spec

--------------------------------------------------------------------------------
(***************************************************************************)
(* Lockout.  As long as one login of a user runs at a time, the counter a  *)
(* login has read covers every wrong password there was since.             *)
(***************************************************************************)
AtPassword(r, u) == req[r].pc = "password" /\ req[r].user = u

LockInv ==
    \A u \in Users \ raced :
        /\ guesses[u] <= attempts[u]
        /\ \A r \in Requests : AtPassword(r, u) => guesses[u] <= req[r].count
        /\ \A r, q \in Requests : AtPassword(r, u) /\ AtPassword(q, u) => r = q

\* A step that starts no login and keeps the counters keeps the invariant.
LEMMA LockFrame ==
  ASSUME LockInv, UNCHANGED <<attempts, guesses>>, raced \subseteq raced',
         \A q \in Requests : req'[q].pc = "password" => req'[q] = req[q]
  PROVE  LockInv'
  BY DEF LockInv, AtPassword

LEMMA RacedGrows == ASSUME NEW x, NEW STATE used, Race(x, used)
                    PROVE  raced \subseteq raced' /\ (used => x \in raced')
  BY DEF Race

LEMMA Becomes ==
  ASSUME RequestInv, NEW r \in Requests, NEW j, Become(r, j)
  PROVE  req'[r] = j /\ \A q \in Requests : q # r => req'[q] = req[q]
  BY DEF RequestInv, Become

LEMMA LockStep == TypeInv /\ LockInv /\ [Next]_vars => LockInv'
<1> SUFFICES ASSUME TypeInv, LockInv, [Next]_vars PROVE LockInv'
  OBVIOUS
<1>a. RequestInv /\ req \in [Requests -> Job] /\ \A r \in Requests : req[r] \in Job
  BY DEF TypeInv, RequestInv
<1>1. ASSUME NEW r \in Requests, LoginDisabled(r) PROVE LockInv'
  <2>1. UNCHANGED <<attempts, guesses>> /\ raced \subseteq raced'
    BY <1>1 DEF LoginDisabled
  <2>2. \A q \in Requests : req'[q].pc = "password" => req'[q] = req[q]
    BY <1>1, <1>a, Becomes DEF LoginDisabled, End, Idle
  <2> QED
    BY <2>1, <2>2, LockFrame
<1>2. ASSUME NEW r \in Requests, NEW c \in Codes, AskForCode(r, c) PROVE LockInv'
  <2>1. UNCHANGED <<attempts, guesses>> /\ raced \subseteq raced'
    BY <1>2 DEF AskForCode
  <2>2. \A q \in Requests : req'[q].pc = "password" => req'[q] = req[q]
    BY <1>2, <1>a, Becomes DEF AskForCode, End, Idle
  <2> QED
    BY <2>1, <2>2, LockFrame
<1>3. ASSUME NEW r \in Requests, NEW t \in Tokens, OpenSession(r, t) PROVE LockInv'
  <2>1. UNCHANGED <<attempts, guesses>> /\ raced \subseteq raced'
    BY <1>3 DEF OpenSession
  <2>2. \A q \in Requests : req'[q].pc = "password" => req'[q] = req[q]
    BY <1>3, <1>a, Becomes DEF OpenSession, End, Idle
  <2> QED
    BY <2>1, <2>2, LockFrame
<1>4. ASSUME NEW r \in Requests, NEW c \in Codes, VerifyCode(r, c) PROVE LockInv'
  <2>1. UNCHANGED <<attempts, guesses>> /\ raced \subseteq raced'
    BY <1>4, RacedGrows DEF VerifyCode
  <2>2. \A q \in Requests : req'[q].pc = "password" => req'[q] = req[q]
    <3> DEFINE j == [Idle EXCEPT !.pc = "tries", !.user = code[c].user, !.code = c]
    <3>1. j.pc # "password"
      BY <1>a DEF Idle, Job
    <3>2. Become(r, j)
      BY <1>4 DEF VerifyCode
    <3> QED
      BY <1>a, <3>1, <3>2, Becomes
  <2> QED
    BY <2>1, <2>2, LockFrame
<1>5. ASSUME NEW r \in Requests, TooManyTries(r) PROVE LockInv'
  <2>1. UNCHANGED <<attempts, guesses>> /\ raced \subseteq raced'
    BY <1>5 DEF TooManyTries
  <2>2. \A q \in Requests : req'[q].pc = "password" => req'[q] = req[q]
    BY <1>5, <1>a, Becomes DEF TooManyTries, End, Idle
  <2> QED
    BY <2>1, <2>2, LockFrame
<1>6. ASSUME NEW r \in Requests, NEW right \in BOOLEAN, CompareCode(r, right) PROVE LockInv'
  <2>1. UNCHANGED <<attempts, guesses>> /\ raced \subseteq raced'
    BY <1>6 DEF CompareCode
  <2>2. \A q \in Requests : req'[q].pc = "password" => req'[q] = req[q]
    <3> DEFINE j == [req[r] EXCEPT !.pc = IF right THEN "spend" ELSE "count", !.count = code[req[r].code].tries]
    <3>1. j.pc # "password"
      BY <1>a DEF Idle, Job
    <3>2. Become(r, j)
      BY <1>6 DEF CompareCode
    <3> QED
      BY <1>a, <3>1, <3>2, Becomes
  <2> QED
    BY <2>1, <2>2, LockFrame
<1>7. ASSUME NEW r \in Requests, CountTry(r) PROVE LockInv'
  <2>1. UNCHANGED <<attempts, guesses>> /\ raced \subseteq raced'
    BY <1>7 DEF CountTry
  <2>2. \A q \in Requests : req'[q].pc = "password" => req'[q] = req[q]
    BY <1>7, <1>a, Becomes DEF CountTry, End, Idle
  <2> QED
    BY <2>1, <2>2, LockFrame
<1>8. ASSUME NEW r \in Requests, SpendCode(r) PROVE LockInv'
  <2>1. UNCHANGED <<attempts, guesses>> /\ raced \subseteq raced'
    BY <1>8 DEF SpendCode
  <2>2. \A q \in Requests : req'[q].pc = "password" => req'[q] = req[q]
    <3> DEFINE j == [req[r] EXCEPT !.pc = "open"]
    <3>1. j.pc # "password"
      BY <1>a DEF Idle, Job
    <3>2. Become(r, j)
      BY <1>8 DEF SpendCode
    <3> QED
      BY <1>a, <3>1, <3>2, Becomes
  <2> QED
    BY <2>1, <2>2, LockFrame
<1>9. ASSUME NEW r \in Requests, NEW t \in Tokens, Refresh(r, t) PROVE LockInv'
  <2>1. UNCHANGED <<attempts, guesses>> /\ raced \subseteq raced'
    BY <1>9, RacedGrows DEF Refresh
  <2>2. \A q \in Requests : req'[q].pc = "password" => req'[q] = req[q]
    <3> DEFINE j == [Idle EXCEPT !.pc = "rotate", !.refresh = t]
    <3>1. j.pc # "password"
      BY <1>a DEF Idle, Job
    <3>2. Become(r, j)
      BY <1>9 DEF Refresh
    <3> QED
      BY <1>a, <3>1, <3>2, Becomes
  <2> QED
    BY <2>1, <2>2, LockFrame
<1>10. ASSUME NEW r \in Requests, NEW t \in Tokens, Rotate(r, t) PROVE LockInv'
  <2>1. UNCHANGED <<attempts, guesses>> /\ raced \subseteq raced'
    BY <1>10 DEF Rotate
  <2>2. \A q \in Requests : req'[q].pc = "password" => req'[q] = req[q]
    BY <1>10, <1>a, Becomes DEF Rotate, End, Idle
  <2> QED
    BY <2>1, <2>2, LockFrame
<1>11. ASSUME NEW r \in Requests, NEW a \in Tokens, NEW t \in Tokens, Logout(r, a, t) PROVE LockInv'
  <2>1. UNCHANGED <<attempts, guesses>> /\ raced \subseteq raced'
    BY <1>11, RacedGrows DEF Logout
  <2>2. \A q \in Requests : req'[q].pc = "password" => req'[q] = req[q]
    <3> DEFINE j == [Idle EXCEPT !.pc = "blacklist", !.token = a, !.refresh = t]
    <3>1. j.pc # "password"
      BY <1>a DEF Idle, Job
    <3>2. Become(r, j)
      BY <1>11 DEF Logout
    <3> QED
      BY <1>a, <3>1, <3>2, Becomes
  <2> QED
    BY <2>1, <2>2, LockFrame
<1>12. ASSUME NEW r \in Requests, NEW a \in Tokens, LogoutAccess(r, a) PROVE LockInv'
  <2>1. UNCHANGED <<attempts, guesses>> /\ raced \subseteq raced'
    BY <1>12 DEF LogoutAccess
  <2>2. \A q \in Requests : req'[q].pc = "password" => req'[q] = req[q]
    <3> DEFINE j == [Idle EXCEPT !.pc = "close", !.token = a]
    <3>1. j.pc # "password"
      BY <1>a DEF Idle, Job
    <3>2. Become(r, j)
      BY <1>12 DEF LogoutAccess
    <3> QED
      BY <1>a, <3>1, <3>2, Becomes
  <2> QED
    BY <2>1, <2>2, LockFrame
<1>13. ASSUME NEW r \in Requests, LogoutBlacklist(r) PROVE LockInv'
  <2>1. UNCHANGED <<attempts, guesses>> /\ raced \subseteq raced'
    BY <1>13 DEF LogoutBlacklist
  <2>2. \A q \in Requests : req'[q].pc = "password" => req'[q] = req[q]
    <3> DEFINE j == [req[r] EXCEPT !.pc = "close", !.refresh = Nobody]
    <3>1. j.pc # "password"
      BY <1>a DEF Idle, Job
    <3>2. Become(r, j)
      BY <1>13 DEF LogoutBlacklist
    <3> QED
      BY <1>a, <3>1, <3>2, Becomes
  <2> QED
    BY <2>1, <2>2, LockFrame
<1>14. ASSUME NEW r \in Requests, LogoutClose(r) PROVE LockInv'
  <2>1. UNCHANGED <<attempts, guesses>> /\ raced \subseteq raced'
    BY <1>14 DEF LogoutClose
  <2>2. \A q \in Requests : req'[q].pc = "password" => req'[q] = req[q]
    BY <1>14, <1>a, Becomes DEF LogoutClose, End, Idle
  <2> QED
    BY <2>1, <2>2, LockFrame
<1>15. ASSUME NEW r \in Requests, NEW t \in Tokens, Revoke(r, t) PROVE LockInv'
  <2>1. UNCHANGED <<attempts, guesses>> /\ raced \subseteq raced'
    BY <1>15 DEF Revoke
  <2>2. \A q \in Requests : req'[q].pc = "password" => req'[q] = req[q]
    <3> DEFINE j == [Idle EXCEPT !.pc = "save", !.token = t]
    <3>1. j.pc # "password"
      BY <1>a DEF Idle, Job
    <3>2. Become(r, j)
      BY <1>15 DEF Revoke
    <3> QED
      BY <1>a, <3>1, <3>2, Becomes
  <2> QED
    BY <2>1, <2>2, LockFrame
<1>16. ASSUME NEW r \in Requests, RevokeSave(r) PROVE LockInv'
  <2>1. UNCHANGED <<attempts, guesses>> /\ raced \subseteq raced'
    BY <1>16 DEF RevokeSave
  <2>2. \A q \in Requests : req'[q].pc = "password" => req'[q] = req[q]
    BY <1>16, <1>a, Becomes DEF RevokeSave, End, Idle
  <2> QED
    BY <2>1, <2>2, LockFrame
<1>17. ASSUME NEW r \in Requests, NEW t \in Tokens, NEW stale \in BOOLEAN, AdmitToken(r, t, stale) PROVE LockInv'
  <2>1. UNCHANGED <<attempts, guesses>> /\ raced \subseteq raced'
    BY <1>17 DEF AdmitToken
  <2>2. \A q \in Requests : req'[q].pc = "password" => req'[q] = req[q]
    <3> DEFINE j == [Idle EXCEPT !.pc = IF stale THEN "touch" ELSE "view", !.token = t]
    <3>1. j.pc # "password"
      BY <1>a DEF Idle, Job
    <3>2. Become(r, j)
      BY <1>17 DEF AdmitToken
    <3> QED
      BY <1>a, <3>1, <3>2, Becomes
  <2> QED
    BY <2>1, <2>2, LockFrame
<1>18. ASSUME NEW r \in Requests, Touch(r) PROVE LockInv'
  <2>1. UNCHANGED <<attempts, guesses>> /\ raced \subseteq raced'
    BY <1>18 DEF Touch
  <2>2. \A q \in Requests : req'[q].pc = "password" => req'[q] = req[q]
    <3> DEFINE j == [req[r] EXCEPT !.pc = "view"]
    <3>1. j.pc # "password"
      BY <1>a DEF Idle, Job
    <3>2. Become(r, j)
      BY <1>18 DEF Touch
    <3> QED
      BY <1>a, <3>1, <3>2, Becomes
  <2> QED
    BY <2>1, <2>2, LockFrame
<1>19. ASSUME NEW r \in Requests, Answer(r) PROVE LockInv'
  <2>1. UNCHANGED <<attempts, guesses>> /\ raced \subseteq raced'
    BY <1>19 DEF Answer
  <2>2. \A q \in Requests : req'[q].pc = "password" => req'[q] = req[q]
    BY <1>19, <1>a, Becomes DEF Answer, End, Idle
  <2> QED
    BY <2>1, <2>2, LockFrame
<1>20. ASSUME NEW r \in Requests, NEW u \in Users, Login(r, u) PROVE LockInv'
  <2> DEFINE j == [Idle EXCEPT !.pc = "password", !.user = u, !.count = attempts[u]]
  <2>1. /\ j.pc = "password" /\ j.user = u /\ j.count = attempts[u]
        /\ req'[r] = j /\ \A q \in Requests : q # r => req'[q] = req[q]
    BY <1>20, <1>a, Becomes DEF Login, Idle
  <2>2. /\ UNCHANGED <<attempts, guesses>> /\ raced \subseteq raced'
        /\ (\E q \in Requests : At(q, "password") /\ req[q].user = u) => u \in raced'
    BY <1>20, RacedGrows DEF Login
  <2> HIDE DEF j
  <2> SUFFICES ASSUME NEW v \in Users \ raced' PROVE
        /\ guesses[v] <= attempts[v]
        /\ \A q \in Requests : AtPassword(q, v)' => guesses[v] <= req'[q].count
        /\ \A p, q \in Requests : AtPassword(p, v)' /\ AtPassword(q, v)' => p = q
    BY <2>2 DEF LockInv
  <2>3. /\ guesses[v] <= attempts[v]
        /\ \A q \in Requests : AtPassword(q, v) => guesses[v] <= req[q].count
        /\ \A p, q \in Requests : AtPassword(p, v) /\ AtPassword(q, v) => p = q
    BY <2>2 DEF LockInv
  <2>4. CASE v = u
    BY <2>1, <2>2, <2>3, <2>4 DEF AtPassword, At
  <2>5. CASE v # u
    BY <2>1, <2>3, <2>5 DEF AtPassword
  <2> QED
    BY <2>4, <2>5
<1>21. ASSUME NEW r \in Requests, WrongPassword(r) PROVE LockInv'
  <2> DEFINE u == req[r].user
             n == req[r].count
  <2>1. u \in Users /\ AtPassword(r, u) /\ n \in Nat /\ guesses \in [Users -> Nat]
    BY <1>21, <1>a, Constants DEF WrongPassword, At, AtPassword, TypeInv, TableInv, RequestInv, Holds, Job
  <2>2. /\ req'[r].pc = "idle" /\ \A q \in Requests : q # r => req'[q] = req[q]
        /\ raced' = raced
    BY <1>21, <1>a, Becomes DEF WrongPassword, End, Idle
  <2>3. /\ attempts'[u] = n + 1 /\ guesses'[u] = Count(guesses[u], u)
        /\ \A v \in Users : v # u => attempts'[v] = attempts[v] /\ guesses'[v] = guesses[v]
    BY <1>21, <2>1 DEF WrongPassword, TypeInv, TableInv
  <2> HIDE DEF u, n
  <2> SUFFICES ASSUME NEW v \in Users \ raced PROVE
        /\ guesses'[v] <= attempts'[v]
        /\ \A q \in Requests : AtPassword(q, v)' => guesses'[v] <= req'[q].count
        /\ \A p, q \in Requests : AtPassword(p, v)' /\ AtPassword(q, v)' => p = q
    BY <2>2 DEF LockInv
  <2>4. /\ guesses[v] <= attempts[v]
        /\ \A q \in Requests : AtPassword(q, v) => guesses[v] <= req[q].count
        /\ \A p, q \in Requests : AtPassword(p, v) /\ AtPassword(q, v) => p = q
    BY DEF LockInv
  <2>5. CASE v = u
    <3>1. guesses[u] <= n
      BY <2>1, <2>4, <2>5 DEF n
    <3>2. guesses'[u] <= attempts'[u]
      BY <2>1, <2>3, <2>5, <3>1 DEF Count
    <3>3. \A q \in Requests : ~ AtPassword(q, v)'
      BY <2>1, <2>2, <2>4, <2>5 DEF AtPassword
    <3> QED
      BY <2>5, <3>2, <3>3
  <2>6. CASE v # u
    BY <2>2, <2>3, <2>4, <2>6 DEF AtPassword
  <2> QED
    BY <2>5, <2>6
<1>22. ASSUME NEW r \in Requests, NEW suspended \in BOOLEAN, RightPassword(r, suspended)
       PROVE LockInv'
  <2> DEFINE u == req[r].user
             j == IF suspended THEN Idle ELSE [req[r] EXCEPT !.pc = "open"]
  <2>1. j.pc # "password" /\ req'[r] = j /\ \A q \in Requests : q # r => req'[q] = req[q]
    <3>1. Become(r, j)
      BY <1>22 DEF RightPassword, End
    <3>2. j.pc # "password"
      BY <1>a DEF Idle, Job
    <3> QED
      BY <1>a, <3>1, <3>2, Becomes
  <2>2. /\ u \in Users /\ raced' = raced
        /\ attempts' = [attempts EXCEPT ![u] = 0] /\ guesses' = [guesses EXCEPT ![u] = 0]
    BY <1>22 DEF RightPassword, At, TypeInv, RequestInv, Holds
  <2> HIDE DEF u, j
  <2>3. \A q \in Requests : req'[q].pc = "password" => req'[q] = req[q]
    BY <2>1
  <2>4. \A q \in Requests : req[q].count \in Nat
    BY <1>a, Constants DEF Job
  <2> QED
    BY <2>2, <2>3, <2>4 DEF LockInv, AtPassword, TypeInv, TableInv
<1>23. ASSUME NEW u \in Users, UnlockUser(u) PROVE LockInv'
  <2>1. \A q \in Requests : req[q].count \in Nat
    BY <1>a, Constants DEF Job
  <2> QED
    BY <1>23, <2>1 DEF UnlockUser, LockInv, AtPassword, TypeInv, TableInv
<1>24. ASSUME NEW u \in Users, NEW t \in Tokens, Register(u, t) PROVE LockInv'
  BY <1>24, LockFrame DEF Register
<1>25. ASSUME NEW t \in Tokens, RevokeAll(t) PROVE LockInv'
  BY <1>25, LockFrame DEF RevokeAll
<1>26. ASSUME NEW c \in Codes, ExpireCode(c) PROVE LockInv'
  BY <1>26, LockFrame DEF ExpireCode
<1>27. CASE UNCHANGED vars
  BY <1>27, LockFrame DEF vars
<1> QED
  BY <1>1, <1>2, <1>3, <1>4, <1>5, <1>6, <1>7, <1>8, <1>9, <1>10, <1>11, <1>12, <1>13, <1>14, <1>15, <1>16, <1>17, <1>18, <1>19, <1>20, <1>21, <1>22, <1>23, <1>24, <1>25, <1>26, <1>27
  DEF Next, Environment, SignIn, Use

\* Nobody gets more than Limit wrong passwords past the counter before it is emptied, whatever
\* other users do, unless two of that user's logins overlap.
THEOREM LockoutCorrect == Spec => []LockoutHolds
<1>1. Init => TypeInv /\ LockInv
  BY TypeInit DEF Init, LockInv, AtPassword, Idle
<1>2. TypeInv /\ LockInv /\ [Next]_vars => (TypeInv /\ LockInv)'
  BY TypeStep, LockStep
<1>3. TypeInv /\ LockInv => LockoutHolds
  BY Constants DEF TypeInv, TableInv, LockInv, LockoutHolds
<1> QED
  BY <1>1, <1>2, <1>3, PTL DEF Spec

--------------------------------------------------------------------------------
(***************************************************************************)
(* Rotation.  While the tokens of a family are used one at a time, whoever *)
(* holds a refresh token holds the only one of the family that works.      *)
(***************************************************************************)
Holding(r, t) == req[r].refresh = t

RefreshInv ==
    /\ \A r \in Requests, t \in Tokens :
          Holding(r, t) /\ family[t] \notin raced
          => t \notin blacklist /\ \A q \in Requests : Holding(q, t) => q = r
    /\ OneLiveRefresh

\* A step that takes up, mints and blacklists nothing keeps the invariant.
LEMMA RefreshFrame ==
  ASSUME RefreshInv, UNCHANGED <<owner, family, blacklist>>, raced \subseteq raced',
         \A q \in Requests : req'[q].refresh \in Tokens => req'[q].refresh = req[q].refresh
  PROVE  RefreshInv'
  BY DEF RefreshInv, Holding, OneLiveRefresh, Issued

\* A request takes up a token that is not blacklisted.
LEMMA RefreshTaken ==
  ASSUME RefreshInv, NEW r \in Requests, NEW t \in Tokens, UNCHANGED <<owner, family, blacklist>>,
         t \notin blacklist, Race(family[t], InUse(t)), req'[r].refresh = t,
         \A q \in Requests : q # r => req'[q] = req[q]
  PROVE  RefreshInv'
<1>1. raced \subseteq raced' /\ (InUse(t) => family[t] \in raced')
  BY RacedGrows
<1>2. OneLiveRefresh'
  BY <1>1 DEF RefreshInv, OneLiveRefresh, Issued
<1>3. ASSUME NEW p \in Requests, NEW s \in Tokens, Holding(p, s)', family[s] \notin raced'
      PROVE  s \notin blacklist /\ \A q \in Requests : Holding(q, s)' => q = p
  <2>1. CASE s = t
    <3>1. \A q \in Requests : ~Holding(q, t)
      BY <1>1, <1>3, <2>1 DEF InUse, Holding
    <3> QED
      BY <1>3, <2>1, <3>1 DEF Holding
  <2>2. CASE s # t
    BY <1>1, <1>3, <2>2 DEF RefreshInv, Holding
  <2> QED
    BY <2>1, <2>2
<1> QED
  BY <1>2, <1>3 DEF RefreshInv

\* A token that was never minted is in no family and in no hand; a founder is alone in its own.
LEMMA RefreshFounded ==
  ASSUME TypeInv, RefreshInv, NEW t \in Tokens, NEW u \in Users, Mint(t, u, t),
         UNCHANGED <<blacklist, raced>>,
         \A q \in Requests : req'[q].refresh \in Tokens => req'[q].refresh = req[q].refresh
  PROVE  RefreshInv'
<1>1. /\ t \notin Minted /\ owner'[t] = u /\ family'[t] = t
      /\ \A s \in Tokens : s # t => owner'[s] = owner[s] /\ family'[s] = family[s]
  BY DEF Mint, Minted, TypeInv, TableInv
<1>2. \A q \in Requests : ~Holding(q, t)
  BY <1>1, Constants DEF Holding, TypeInv, RequestInv, Holds
<1>3. \A s \in Minted : family[s] # t
  BY <1>1 DEF TypeInv, TableInv, Lineage
<1>4. OneLiveRefresh'
  <2> SUFFICES ASSUME NEW s \in Tokens, NEW v \in Tokens, Issued(s)', family'[s] = family'[v], s # v,
                      s \notin blacklist, v \notin blacklist
               PROVE  family'[s] \in raced
    BY DEF OneLiveRefresh
  <2>1. CASE s = t \/ v = t
    <3>1. \A x \in Tokens : x # t => family[x] # t
      BY <1>1, <1>3, Constants DEF TypeInv, TableInv, Lineage
    <3> QED
      BY <1>1, <2>1, <3>1
  <2>2. CASE s # t /\ v # t
    BY <1>1, <2>2 DEF RefreshInv, OneLiveRefresh, Issued
  <2> QED
    BY <2>1, <2>2
<1>5. ASSUME NEW p \in Requests, NEW s \in Tokens, Holding(p, s)', family'[s] \notin raced
      PROVE  s \notin blacklist /\ \A q \in Requests : Holding(q, s)' => q = p
  BY <1>1, <1>2, <1>5 DEF RefreshInv, Holding
<1> QED
  BY <1>4, <1>5 DEF RefreshInv

LEMMA RefreshStep == TypeInv /\ RefreshInv /\ [Next]_vars => RefreshInv'
<1> SUFFICES ASSUME TypeInv, RefreshInv, [Next]_vars PROVE RefreshInv'
  OBVIOUS
<1>a. RequestInv /\ req \in [Requests -> Job] /\ \A r \in Requests : req[r] \in Job
  BY DEF TypeInv, RequestInv
<1>b. Nobody \notin Tokens /\ Idle.refresh = Nobody /\ Idle.pc = "idle"
  BY Constants DEF Idle
<1>1. ASSUME NEW r \in Requests, NEW u \in Users, Login(r, u) PROVE RefreshInv'
  <2>1. UNCHANGED <<owner, family, blacklist>> /\ raced \subseteq raced'
    BY <1>1, RacedGrows DEF Login
  <2>2. \A q \in Requests : req'[q].refresh \in Tokens => req'[q].refresh = req[q].refresh
    <3> DEFINE j == [Idle EXCEPT !.pc = "password", !.user = u, !.count = attempts[u]]
    <3>1. j.refresh = Nobody
      BY <1>a, <1>b DEF Idle
    <3>2. Become(r, j)
      BY <1>1 DEF Login
    <3> HIDE DEF j
    <3> QED
      BY <1>a, <1>b, <3>1, <3>2, Becomes
  <2> QED
    BY <2>1, <2>2, RefreshFrame
<1>2. ASSUME NEW r \in Requests, WrongPassword(r) PROVE RefreshInv'
  <2>1. UNCHANGED <<owner, family, blacklist>> /\ raced \subseteq raced'
    BY <1>2 DEF WrongPassword
  <2>2. \A q \in Requests : req'[q].refresh \in Tokens => req'[q].refresh = req[q].refresh
    BY <1>2, <1>a, <1>b, Becomes DEF WrongPassword, End
  <2> QED
    BY <2>1, <2>2, RefreshFrame
<1>3. ASSUME NEW r \in Requests, NEW suspended \in BOOLEAN, RightPassword(r, suspended) PROVE RefreshInv'
  <2>1. UNCHANGED <<owner, family, blacklist>> /\ raced \subseteq raced'
    BY <1>3 DEF RightPassword
  <2>2. \A q \in Requests : req'[q].refresh \in Tokens => req'[q].refresh = req[q].refresh
    <3> DEFINE j == IF suspended THEN Idle ELSE [req[r] EXCEPT !.pc = "open"]
    <3>1. j.refresh \in {Nobody, req[r].refresh}
      BY <1>a, <1>b DEF Job, Idle
    <3>2. Become(r, j)
      BY <1>3 DEF RightPassword, End
    <3> HIDE DEF j
    <3> QED
      BY <1>a, <1>b, <3>1, <3>2, Becomes
  <2> QED
    BY <2>1, <2>2, RefreshFrame
<1>4. ASSUME NEW r \in Requests, LoginDisabled(r) PROVE RefreshInv'
  <2>1. UNCHANGED <<owner, family, blacklist>> /\ raced \subseteq raced'
    BY <1>4 DEF LoginDisabled
  <2>2. \A q \in Requests : req'[q].refresh \in Tokens => req'[q].refresh = req[q].refresh
    BY <1>4, <1>a, <1>b, Becomes DEF LoginDisabled, End
  <2> QED
    BY <2>1, <2>2, RefreshFrame
<1>5. ASSUME NEW r \in Requests, NEW c \in Codes, AskForCode(r, c) PROVE RefreshInv'
  <2>1. UNCHANGED <<owner, family, blacklist>> /\ raced \subseteq raced'
    BY <1>5 DEF AskForCode
  <2>2. \A q \in Requests : req'[q].refresh \in Tokens => req'[q].refresh = req[q].refresh
    BY <1>5, <1>a, <1>b, Becomes DEF AskForCode, End
  <2> QED
    BY <2>1, <2>2, RefreshFrame
<1>6. ASSUME NEW r \in Requests, NEW c \in Codes, VerifyCode(r, c) PROVE RefreshInv'
  <2>1. UNCHANGED <<owner, family, blacklist>> /\ raced \subseteq raced'
    BY <1>6, RacedGrows DEF VerifyCode
  <2>2. \A q \in Requests : req'[q].refresh \in Tokens => req'[q].refresh = req[q].refresh
    <3> DEFINE j == [Idle EXCEPT !.pc = "tries", !.user = code[c].user, !.code = c]
    <3>1. j.refresh = Nobody
      BY <1>a, <1>b DEF Idle
    <3>2. Become(r, j)
      BY <1>6 DEF VerifyCode
    <3> HIDE DEF j
    <3> QED
      BY <1>a, <1>b, <3>1, <3>2, Becomes
  <2> QED
    BY <2>1, <2>2, RefreshFrame
<1>7. ASSUME NEW r \in Requests, TooManyTries(r) PROVE RefreshInv'
  <2>1. UNCHANGED <<owner, family, blacklist>> /\ raced \subseteq raced'
    BY <1>7 DEF TooManyTries
  <2>2. \A q \in Requests : req'[q].refresh \in Tokens => req'[q].refresh = req[q].refresh
    BY <1>7, <1>a, <1>b, Becomes DEF TooManyTries, End
  <2> QED
    BY <2>1, <2>2, RefreshFrame
<1>8. ASSUME NEW r \in Requests, NEW right \in BOOLEAN, CompareCode(r, right) PROVE RefreshInv'
  <2>1. UNCHANGED <<owner, family, blacklist>> /\ raced \subseteq raced'
    BY <1>8 DEF CompareCode
  <2>2. \A q \in Requests : req'[q].refresh \in Tokens => req'[q].refresh = req[q].refresh
    <3> DEFINE j == [req[r] EXCEPT !.pc = IF right THEN "spend" ELSE "count", !.count = code[req[r].code].tries]
    <3>1. j.refresh \in {Nobody, req[r].refresh}
      BY <1>a, <1>b DEF Job
    <3>2. Become(r, j)
      BY <1>8 DEF CompareCode
    <3> HIDE DEF j
    <3> QED
      BY <1>a, <1>b, <3>1, <3>2, Becomes
  <2> QED
    BY <2>1, <2>2, RefreshFrame
<1>9. ASSUME NEW r \in Requests, CountTry(r) PROVE RefreshInv'
  <2>1. UNCHANGED <<owner, family, blacklist>> /\ raced \subseteq raced'
    BY <1>9 DEF CountTry
  <2>2. \A q \in Requests : req'[q].refresh \in Tokens => req'[q].refresh = req[q].refresh
    BY <1>9, <1>a, <1>b, Becomes DEF CountTry, End
  <2> QED
    BY <2>1, <2>2, RefreshFrame
<1>10. ASSUME NEW r \in Requests, SpendCode(r) PROVE RefreshInv'
  <2>1. UNCHANGED <<owner, family, blacklist>> /\ raced \subseteq raced'
    BY <1>10 DEF SpendCode
  <2>2. \A q \in Requests : req'[q].refresh \in Tokens => req'[q].refresh = req[q].refresh
    <3> DEFINE j == [req[r] EXCEPT !.pc = "open"]
    <3>1. j.refresh \in {Nobody, req[r].refresh}
      BY <1>a, <1>b DEF Job
    <3>2. Become(r, j)
      BY <1>10 DEF SpendCode
    <3> HIDE DEF j
    <3> QED
      BY <1>a, <1>b, <3>1, <3>2, Becomes
  <2> QED
    BY <2>1, <2>2, RefreshFrame
<1>11. ASSUME NEW r \in Requests, NEW a \in Tokens, LogoutAccess(r, a) PROVE RefreshInv'
  <2>1. UNCHANGED <<owner, family, blacklist>> /\ raced \subseteq raced'
    BY <1>11 DEF LogoutAccess
  <2>2. \A q \in Requests : req'[q].refresh \in Tokens => req'[q].refresh = req[q].refresh
    <3> DEFINE j == [Idle EXCEPT !.pc = "close", !.token = a]
    <3>1. j.refresh = Nobody
      BY <1>a, <1>b DEF Idle
    <3>2. Become(r, j)
      BY <1>11 DEF LogoutAccess
    <3> HIDE DEF j
    <3> QED
      BY <1>a, <1>b, <3>1, <3>2, Becomes
  <2> QED
    BY <2>1, <2>2, RefreshFrame
<1>12. ASSUME NEW r \in Requests, LogoutClose(r) PROVE RefreshInv'
  <2>1. UNCHANGED <<owner, family, blacklist>> /\ raced \subseteq raced'
    BY <1>12 DEF LogoutClose
  <2>2. \A q \in Requests : req'[q].refresh \in Tokens => req'[q].refresh = req[q].refresh
    BY <1>12, <1>a, <1>b, Becomes DEF LogoutClose, End
  <2> QED
    BY <2>1, <2>2, RefreshFrame
<1>13. ASSUME NEW r \in Requests, NEW t \in Tokens, Revoke(r, t) PROVE RefreshInv'
  <2>1. UNCHANGED <<owner, family, blacklist>> /\ raced \subseteq raced'
    BY <1>13 DEF Revoke
  <2>2. \A q \in Requests : req'[q].refresh \in Tokens => req'[q].refresh = req[q].refresh
    <3> DEFINE j == [Idle EXCEPT !.pc = "save", !.token = t]
    <3>1. j.refresh = Nobody
      BY <1>a, <1>b DEF Idle
    <3>2. Become(r, j)
      BY <1>13 DEF Revoke
    <3> HIDE DEF j
    <3> QED
      BY <1>a, <1>b, <3>1, <3>2, Becomes
  <2> QED
    BY <2>1, <2>2, RefreshFrame
<1>14. ASSUME NEW r \in Requests, RevokeSave(r) PROVE RefreshInv'
  <2>1. UNCHANGED <<owner, family, blacklist>> /\ raced \subseteq raced'
    BY <1>14 DEF RevokeSave
  <2>2. \A q \in Requests : req'[q].refresh \in Tokens => req'[q].refresh = req[q].refresh
    BY <1>14, <1>a, <1>b, Becomes DEF RevokeSave, End
  <2> QED
    BY <2>1, <2>2, RefreshFrame
<1>15. ASSUME NEW r \in Requests, NEW t \in Tokens, NEW stale \in BOOLEAN, AdmitToken(r, t, stale) PROVE RefreshInv'
  <2>1. UNCHANGED <<owner, family, blacklist>> /\ raced \subseteq raced'
    BY <1>15 DEF AdmitToken
  <2>2. \A q \in Requests : req'[q].refresh \in Tokens => req'[q].refresh = req[q].refresh
    <3> DEFINE j == [Idle EXCEPT !.pc = IF stale THEN "touch" ELSE "view", !.token = t]
    <3>1. j.refresh = Nobody
      BY <1>a, <1>b DEF Idle
    <3>2. Become(r, j)
      BY <1>15 DEF AdmitToken
    <3> HIDE DEF j
    <3> QED
      BY <1>a, <1>b, <3>1, <3>2, Becomes
  <2> QED
    BY <2>1, <2>2, RefreshFrame
<1>16. ASSUME NEW r \in Requests, Touch(r) PROVE RefreshInv'
  <2>1. UNCHANGED <<owner, family, blacklist>> /\ raced \subseteq raced'
    BY <1>16 DEF Touch
  <2>2. \A q \in Requests : req'[q].refresh \in Tokens => req'[q].refresh = req[q].refresh
    <3> DEFINE j == [req[r] EXCEPT !.pc = "view"]
    <3>1. j.refresh \in {Nobody, req[r].refresh}
      BY <1>a, <1>b DEF Job
    <3>2. Become(r, j)
      BY <1>16 DEF Touch
    <3> HIDE DEF j
    <3> QED
      BY <1>a, <1>b, <3>1, <3>2, Becomes
  <2> QED
    BY <2>1, <2>2, RefreshFrame
<1>17. ASSUME NEW r \in Requests, Answer(r) PROVE RefreshInv'
  <2>1. UNCHANGED <<owner, family, blacklist>> /\ raced \subseteq raced'
    BY <1>17 DEF Answer
  <2>2. \A q \in Requests : req'[q].refresh \in Tokens => req'[q].refresh = req[q].refresh
    BY <1>17, <1>a, <1>b, Becomes DEF Answer, End
  <2> QED
    BY <2>1, <2>2, RefreshFrame
<1>18. ASSUME NEW r \in Requests, NEW t \in Tokens, Refresh(r, t) PROVE RefreshInv'
  <2> DEFINE j == [Idle EXCEPT !.pc = "rotate", !.refresh = t]
  <2>1. j.refresh = t /\ Become(r, j)
    BY <1>18 DEF Refresh, Idle
  <2> HIDE DEF j
  <2>2. req'[r].refresh = t /\ \A q \in Requests : q # r => req'[q] = req[q]
    BY <1>a, <2>1, Becomes
  <2>3. UNCHANGED <<owner, family, blacklist>> /\ t \notin blacklist /\ Race(family[t], InUse(t))
    BY <1>18 DEF Refresh
  <2> QED
    BY <2>2, <2>3, RefreshTaken
<1>19. ASSUME NEW r \in Requests, NEW a \in Tokens, NEW t \in Tokens, Logout(r, a, t)
       PROVE RefreshInv'
  <2> DEFINE j == [Idle EXCEPT !.pc = "blacklist", !.token = a, !.refresh = t]
  <2>1. j.refresh = t /\ Become(r, j)
    BY <1>19 DEF Logout, Idle
  <2> HIDE DEF j
  <2>2. req'[r].refresh = t /\ \A q \in Requests : q # r => req'[q] = req[q]
    BY <1>a, <2>1, Becomes
  <2>3. UNCHANGED <<owner, family, blacklist>> /\ t \notin blacklist /\ Race(family[t], InUse(t))
    BY <1>19 DEF Logout
  <2> QED
    BY <2>2, <2>3, RefreshTaken
<1>20. ASSUME NEW r \in Requests, LogoutBlacklist(r) PROVE RefreshInv'
  <2> DEFINE t == req[r].refresh
             j == [req[r] EXCEPT !.pc = "close", !.refresh = Nobody]
  <2>1. j.refresh = Nobody /\ Become(r, j)
    BY <1>20, <1>a DEF LogoutBlacklist, Job
  <2> HIDE DEF j
  <2>2. req'[r].refresh = Nobody /\ \A q \in Requests : q # r => req'[q] = req[q]
    BY <1>a, <2>1, Becomes
  <2>3. Holding(r, t) /\ blacklist' = blacklist \cup {t} /\ UNCHANGED <<owner, family, raced>>
    BY <1>20 DEF LogoutBlacklist, Holding
  <2> HIDE DEF t
  <2> QED
    BY <1>b, <2>2, <2>3 DEF RefreshInv, Holding, OneLiveRefresh, Issued
<1>21. ASSUME NEW r \in Requests, NEW t \in Tokens, OpenSession(r, t) PROVE RefreshInv'
  <2>1. req[r].user \in Users /\ Mint(t, req[r].user, t) /\ UNCHANGED <<blacklist, raced>>
    BY <1>21, <1>a DEF OpenSession, At, RequestInv, Holds
  <2>2. \A q \in Requests : req'[q].refresh \in Tokens => req'[q].refresh = req[q].refresh
    BY <1>21, <1>a, <1>b, Becomes DEF OpenSession, End
  <2> QED
    BY <2>1, <2>2, RefreshFounded
<1>22. ASSUME NEW u \in Users, NEW t \in Tokens, Register(u, t) PROVE RefreshInv'
  BY <1>22, RefreshFounded DEF Register
<1>23. ASSUME NEW r \in Requests, NEW t \in Tokens, Rotate(r, t) PROVE RefreshInv'
  <2> DEFINE old == req[r].refresh
             f == family[old]
  <2>1. old \in Minted /\ old \in Tokens /\ Issued(old) /\ Holding(r, old)
    BY <1>23 DEF Rotate, At, TypeInv, RequestInv, Holds, Minted, Holding
  <2>2. /\ req'[r].refresh = Nobody /\ \A q \in Requests : q # r => req'[q] = req[q]
        /\ blacklist' = blacklist \cup {old} /\ raced' = raced
    BY <1>23, <1>a, <1>b, Becomes DEF Rotate, End
  <2>3. /\ t \notin Minted /\ family'[t] = f
        /\ \A s \in Tokens : s # t => owner'[s] = owner[s] /\ family'[s] = family[s]
    BY <1>23 DEF Rotate, Mint, Minted, TypeInv, TableInv
  <2>4. /\ \A q \in Requests : ~Holding(q, t)
        /\ \A s \in Minted : family[s] \in Tokens
        /\ \A s \in Tokens \ Minted : family[s] = Nobody
    BY <1>b, <2>3 DEF Holding, TypeInv, RequestInv, Holds, TableInv, Lineage, Minted
  <2>5. f \notin raced => old \notin blacklist /\ \A q \in Requests : Holding(q, old) => q = r
    BY <2>1 DEF RefreshInv
  <2>6. \A s \in Tokens : s # t /\ s # old /\ family[s] = f /\ s \notin blacklist => f \in raced
    BY <2>1, <2>5 DEF RefreshInv, OneLiveRefresh
  <2> HIDE DEF old
  <2>7. OneLiveRefresh'
    <3> SUFFICES ASSUME NEW s \in Tokens, NEW v \in Tokens, Issued(s)', family'[s] = family'[v], s # v,
                        s \notin blacklist', v \notin blacklist'
                 PROVE  family'[s] \in raced
      BY <2>2 DEF OneLiveRefresh
    <3>1. CASE s = t \/ v = t
      BY <2>2, <2>3, <2>6, <3>1
    <3>2. CASE s # t /\ v # t
      BY <2>2, <2>3, <3>2 DEF RefreshInv, OneLiveRefresh, Issued
    <3> QED
      BY <3>1, <3>2
  <2>8. ASSUME NEW p \in Requests, NEW s \in Tokens, Holding(p, s)', family'[s] \notin raced
        PROVE  s \notin blacklist' /\ \A q \in Requests : Holding(q, s)' => q = p
    <3>1. p # r /\ Holding(p, s) /\ s # t /\ family'[s] = family[s]
      BY <1>b, <2>2, <2>3, <2>4, <2>8 DEF Holding
    <3>2. s \notin blacklist /\ \A q \in Requests : Holding(q, s) => q = p
      BY <2>8, <3>1 DEF RefreshInv
    <3> QED
      BY <1>b, <2>1, <2>2, <3>1, <3>2 DEF Holding
  <2> QED
    BY <2>2, <2>7, <2>8 DEF RefreshInv
<1>24. ASSUME NEW t \in Tokens, RevokeAll(t) PROVE RefreshInv'
  BY <1>24, RefreshFrame DEF RevokeAll
<1>25. ASSUME NEW u \in Users, UnlockUser(u) PROVE RefreshInv'
  BY <1>25, RefreshFrame DEF UnlockUser
<1>26. ASSUME NEW c \in Codes, ExpireCode(c) PROVE RefreshInv'
  BY <1>26, RefreshFrame DEF ExpireCode
<1>27. CASE UNCHANGED vars
  BY <1>27, RefreshFrame DEF vars
<1> QED
  BY <1>1, <1>2, <1>3, <1>4, <1>5, <1>6, <1>7, <1>8, <1>9, <1>10, <1>11, <1>12, <1>13, <1>14, <1>15, <1>16, <1>17, <1>18, <1>19, <1>20, <1>21, <1>22, <1>23, <1>24, <1>25, <1>26, <1>27
  DEF Next, Environment, SignIn, Use

\* A sign-in never has two refresh tokens that work, however often it is refreshed and logged
\* out, unless two requests overlap on one token of it.
THEOREM RotationCorrect == Spec => []OneLiveRefresh
<1>1. Init => TypeInv /\ RefreshInv
  <2>1. Init => RefreshInv
    BY Constants DEF Init, RefreshInv, Holding, OneLiveRefresh, Issued, Idle
  <2> QED
    BY <2>1, TypeInit
<1>2. TypeInv /\ RefreshInv /\ [Next]_vars => (TypeInv /\ RefreshInv)'
  BY TypeStep, RefreshStep
<1>3. RefreshInv => OneLiveRefresh
  BY DEF RefreshInv
<1> QED
  BY <1>1, <1>2, <1>3, PTL DEF Spec

--------------------------------------------------------------------------------
(***************************************************************************)
(* Codes.  As long as one request verifies a code at a time, the request   *)
(* that has it has what the counter and the cache say of it.               *)
(***************************************************************************)
Verifies(r, c) == req[r].code = c

CodeUse(c) ==
    /\ code[c].wrong <= code[c].tries /\ code[c].opened <= 1
    /\ code[c].live => code[c].opened = 0
    /\ \A r, q \in Requests : Verifies(r, c) /\ Verifies(q, c) => r = q
    /\ \A r \in Requests : Verifies(r, c) =>
          /\ code[c].opened = 0
          /\ req[r].pc = "open" => ~code[c].live
          /\ req[r].pc = "count" => req[r].count = code[c].tries

\* A code that was never mailed is in no hand, and a login reaches its end with none.
SpendInv ==
    /\ \A r \in Requests : req[r].pc = "password" => req[r].code = Nobody
    /\ \A c \in Codes : code[c].user = Nobody =>
          code[c].opened = 0 /\ code[c].wrong = 0 /\ \A r \in Requests : ~Verifies(r, c)
    /\ \A c \in Codes \ raced : CodeUse(c)

\* What a request may turn to without a code to account for.
Spares(q) ==
    /\ req'[q].pc = "password" => req'[q].code = Nobody
    /\ req'[q].code \in Codes =>
          /\ req'[q].code = req[q].code
          /\ req'[q].pc = "open" => req[q].pc = "open"
          /\ req'[q].pc = "count" => req[q].pc = "count" /\ req'[q].count = req[q].count

LEMMA SpendFrame ==
  ASSUME SpendInv, UNCHANGED code, raced \subseteq raced', \A q \in Requests : Spares(q)
  PROVE  SpendInv'
<1>1. \A q \in Requests, c \in Codes : Verifies(q, c)' => Verifies(q, c)
  BY DEF Spares, Verifies
<1>2. ASSUME NEW c \in Codes \ raced' PROVE CodeUse(c)'
  BY <1>1, <1>2 DEF SpendInv, CodeUse, Spares, Verifies
<1> QED
  BY <1>1, <1>2 DEF SpendInv, Spares

\* A step that changes the entry of one code, by a request that then lets go of it or by nobody.
LEMMA SpendCodeStep ==
  ASSUME SpendInv, NEW c \in Codes, UNCHANGED raced,
         \A d \in Codes : d # c => code'[d] = code[d],
         \A q \in Requests : req'[q].pc = "password" => req'[q].code = Nobody,
         \A q \in Requests : Verifies(q, c)' => Verifies(q, c),
         \A q \in Requests : ~Verifies(q, c)' => Spares(q),
         code'[c].user = Nobody =>
            code'[c].opened = 0 /\ code'[c].wrong = 0 /\ \A q \in Requests : ~Verifies(q, c)',
         c \notin raced => CodeUse(c)'
  PROVE  SpendInv'
<1>1. ASSUME NEW d \in Codes, d # c, NEW q \in Requests, Verifies(q, d)'
      PROVE  /\ Verifies(q, d)
             /\ req'[q].pc = "open" => req[q].pc = "open"
             /\ req'[q].pc = "count" => req[q].pc = "count" /\ req'[q].count = req[q].count
  BY <1>1 DEF Spares, Verifies
<1>2. ASSUME NEW d \in Codes \ raced, d # c PROVE CodeUse(d)'
  BY <1>1, <1>2 DEF SpendInv, CodeUse, Verifies
<1>3. ASSUME NEW d \in Codes, d # c, code'[d].user = Nobody
      PROVE  code'[d].opened = 0 /\ code'[d].wrong = 0 /\ \A q \in Requests : ~Verifies(q, d)'
  BY <1>1, <1>3 DEF SpendInv
<1> QED
  BY <1>2, <1>3 DEF SpendInv

\* A code is withdrawn, by the request that has it or by its timeout.
LEMMA SpendWithdrawn ==
  ASSUME SpendInv, NEW c \in Codes, UNCHANGED raced, code \in [Codes -> CodeEntry],
         code' = [code EXCEPT ![c].live = FALSE],
         \A q \in Requests : req'[q] = req[q]
            \/ (req'[q].pc = "idle" /\ req'[q].code = Nobody)
            \/ (req'[q].pc = "open" /\ req'[q].code = c /\ Verifies(q, c))
  PROVE  SpendInv'
<1>1. /\ code'[c].live = FALSE /\ code'[c].user = code[c].user /\ code'[c].wrong = code[c].wrong
      /\ code'[c].tries = code[c].tries /\ code'[c].opened = code[c].opened
      /\ \A d \in Codes : d # c => code'[d] = code[d]
  BY DEF CodeEntry
<1>2. \A q \in Requests : Verifies(q, c)' => Verifies(q, c)
  BY Constants DEF Verifies
<1>3. ASSUME NEW q \in Requests, ~Verifies(q, c)' PROVE Spares(q)
  BY <1>3, Constants DEF Verifies, Spares, SpendInv
<1>4. \A q \in Requests : req'[q].pc = "password" => req'[q].code = Nobody
  BY DEF SpendInv
<1>5. ASSUME c \notin raced PROVE CodeUse(c)'
  <2>1. CodeUse(c)
    BY <1>5 DEF SpendInv
  <2>2. ASSUME NEW q \in Requests, Verifies(q, c)'
        PROVE  code'[c].opened = 0 /\ (req'[q].pc = "count" => req'[q].count = code'[c].tries)
    BY <1>1, <1>2, <2>1, <2>2, Constants DEF CodeUse, Verifies
  <2> QED
    BY <1>1, <1>2, <2>1, <2>2 DEF CodeUse
<1> QED
  BY <1>1, <1>2, <1>3, <1>4, <1>5, SpendCodeStep DEF SpendInv

LEMMA SpendStep == TypeInv /\ SpendInv /\ [Next]_vars => SpendInv'
<1> SUFFICES ASSUME TypeInv, SpendInv, [Next]_vars PROVE SpendInv'
  OBVIOUS
<1>a. /\ RequestInv /\ req \in [Requests -> Job]
      /\ \A r \in Requests : req[r] \in Job /\ Holds(req[r], Minted)
  BY DEF TypeInv, RequestInv
<1>b. Nobody \notin Codes /\ Idle.code = Nobody /\ Idle.pc = "idle"
  BY Constants DEF Idle
<1>c. /\ code \in [Codes -> CodeEntry]
      /\ \A c \in Codes : code[c] \in CodeEntry /\ (code[c].live => code[c].user \in Users)
  BY DEF TypeInv, CodeInv
<1>1. ASSUME NEW r \in Requests, NEW u \in Users, Login(r, u) PROVE SpendInv'
  <2>1. UNCHANGED code /\ raced \subseteq raced'
    BY <1>1, RacedGrows DEF Login
  <2>2. \A q \in Requests : Spares(q)
    <3> DEFINE j == [Idle EXCEPT !.pc = "password", !.user = u, !.count = attempts[u]]
    <3>1. j.code = Nobody
      BY <1>1, <1>a, <1>b DEF Idle
    <3>2. Become(r, j)
      BY <1>1 DEF Login
    <3> HIDE DEF j
    <3>3. req'[r] = j /\ \A q \in Requests : q # r => req'[q] = req[q]
      BY <1>a, <3>2, Becomes
    <3> QED
      BY <1>b, <3>1, <3>3 DEF Spares, SpendInv
  <2> QED
    BY <2>1, <2>2, SpendFrame
<1>2. ASSUME NEW r \in Requests, WrongPassword(r) PROVE SpendInv'
  <2>1. UNCHANGED code /\ raced \subseteq raced'
    BY <1>2 DEF WrongPassword
  <2>2. \A q \in Requests : Spares(q)
    BY <1>2, <1>a, <1>b, Becomes DEF WrongPassword, End, Spares, SpendInv
  <2> QED
    BY <2>1, <2>2, SpendFrame
<1>3. ASSUME NEW r \in Requests, NEW suspended \in BOOLEAN, RightPassword(r, suspended) PROVE SpendInv'
  <2>1. UNCHANGED code /\ raced \subseteq raced'
    BY <1>3 DEF RightPassword
  <2>2. \A q \in Requests : Spares(q)
    <3> DEFINE j == IF suspended THEN Idle ELSE [req[r] EXCEPT !.pc = "open"]
    <3>1. j.code = Nobody
      BY <1>3, <1>a, <1>b DEF Idle, Job, RightPassword, At, SpendInv
    <3>2. Become(r, j)
      BY <1>3 DEF RightPassword, End
    <3> HIDE DEF j
    <3>3. req'[r] = j /\ \A q \in Requests : q # r => req'[q] = req[q]
      BY <1>a, <3>2, Becomes
    <3> QED
      BY <1>b, <3>1, <3>3 DEF Spares, SpendInv
  <2> QED
    BY <2>1, <2>2, SpendFrame
<1>4. ASSUME NEW r \in Requests, LoginDisabled(r) PROVE SpendInv'
  <2>1. UNCHANGED code /\ raced \subseteq raced'
    BY <1>4 DEF LoginDisabled
  <2>2. \A q \in Requests : Spares(q)
    BY <1>4, <1>a, <1>b, Becomes DEF LoginDisabled, End, Spares, SpendInv
  <2> QED
    BY <2>1, <2>2, SpendFrame
<1>5. ASSUME NEW r \in Requests, NEW t \in Tokens, Refresh(r, t) PROVE SpendInv'
  <2>1. UNCHANGED code /\ raced \subseteq raced'
    BY <1>5, RacedGrows DEF Refresh
  <2>2. \A q \in Requests : Spares(q)
    <3> DEFINE j == [Idle EXCEPT !.pc = "rotate", !.refresh = t]
    <3>1. j.code = Nobody
      BY <1>5, <1>a, <1>b DEF Idle
    <3>2. Become(r, j)
      BY <1>5 DEF Refresh
    <3> HIDE DEF j
    <3>3. req'[r] = j /\ \A q \in Requests : q # r => req'[q] = req[q]
      BY <1>a, <3>2, Becomes
    <3> QED
      BY <1>b, <3>1, <3>3 DEF Spares, SpendInv
  <2> QED
    BY <2>1, <2>2, SpendFrame
<1>6. ASSUME NEW r \in Requests, NEW t \in Tokens, Rotate(r, t) PROVE SpendInv'
  <2>1. UNCHANGED code /\ raced \subseteq raced'
    BY <1>6 DEF Rotate
  <2>2. \A q \in Requests : Spares(q)
    BY <1>6, <1>a, <1>b, Becomes DEF Rotate, End, Spares, SpendInv
  <2> QED
    BY <2>1, <2>2, SpendFrame
<1>7. ASSUME NEW r \in Requests, NEW a \in Tokens, NEW t \in Tokens, Logout(r, a, t) PROVE SpendInv'
  <2>1. UNCHANGED code /\ raced \subseteq raced'
    BY <1>7, RacedGrows DEF Logout
  <2>2. \A q \in Requests : Spares(q)
    <3> DEFINE j == [Idle EXCEPT !.pc = "blacklist", !.token = a, !.refresh = t]
    <3>1. j.code = Nobody
      BY <1>7, <1>a, <1>b DEF Idle
    <3>2. Become(r, j)
      BY <1>7 DEF Logout
    <3> HIDE DEF j
    <3>3. req'[r] = j /\ \A q \in Requests : q # r => req'[q] = req[q]
      BY <1>a, <3>2, Becomes
    <3> QED
      BY <1>b, <3>1, <3>3 DEF Spares, SpendInv
  <2> QED
    BY <2>1, <2>2, SpendFrame
<1>8. ASSUME NEW r \in Requests, NEW a \in Tokens, LogoutAccess(r, a) PROVE SpendInv'
  <2>1. UNCHANGED code /\ raced \subseteq raced'
    BY <1>8 DEF LogoutAccess
  <2>2. \A q \in Requests : Spares(q)
    <3> DEFINE j == [Idle EXCEPT !.pc = "close", !.token = a]
    <3>1. j.code = Nobody
      BY <1>8, <1>a, <1>b DEF Idle
    <3>2. Become(r, j)
      BY <1>8 DEF LogoutAccess
    <3> HIDE DEF j
    <3>3. req'[r] = j /\ \A q \in Requests : q # r => req'[q] = req[q]
      BY <1>a, <3>2, Becomes
    <3> QED
      BY <1>b, <3>1, <3>3 DEF Spares, SpendInv
  <2> QED
    BY <2>1, <2>2, SpendFrame
<1>9. ASSUME NEW r \in Requests, LogoutBlacklist(r) PROVE SpendInv'
  <2>1. UNCHANGED code /\ raced \subseteq raced'
    BY <1>9 DEF LogoutBlacklist
  <2>2. \A q \in Requests : Spares(q)
    <3> DEFINE j == [req[r] EXCEPT !.pc = "close", !.refresh = Nobody]
    <3>1. j.code = req[r].code /\ j.pc \in {"close", "view"}
      BY <1>9, <1>a, <1>b DEF Job
    <3>2. Become(r, j)
      BY <1>9 DEF LogoutBlacklist
    <3> HIDE DEF j
    <3>3. req'[r] = j /\ \A q \in Requests : q # r => req'[q] = req[q]
      BY <1>a, <3>2, Becomes
    <3> QED
      BY <1>b, <3>1, <3>3 DEF Spares, SpendInv
  <2> QED
    BY <2>1, <2>2, SpendFrame
<1>10. ASSUME NEW r \in Requests, LogoutClose(r) PROVE SpendInv'
  <2>1. UNCHANGED code /\ raced \subseteq raced'
    BY <1>10 DEF LogoutClose
  <2>2. \A q \in Requests : Spares(q)
    BY <1>10, <1>a, <1>b, Becomes DEF LogoutClose, End, Spares, SpendInv
  <2> QED
    BY <2>1, <2>2, SpendFrame
<1>11. ASSUME NEW r \in Requests, NEW t \in Tokens, Revoke(r, t) PROVE SpendInv'
  <2>1. UNCHANGED code /\ raced \subseteq raced'
    BY <1>11 DEF Revoke
  <2>2. \A q \in Requests : Spares(q)
    <3> DEFINE j == [Idle EXCEPT !.pc = "save", !.token = t]
    <3>1. j.code = Nobody
      BY <1>11, <1>a, <1>b DEF Idle
    <3>2. Become(r, j)
      BY <1>11 DEF Revoke
    <3> HIDE DEF j
    <3>3. req'[r] = j /\ \A q \in Requests : q # r => req'[q] = req[q]
      BY <1>a, <3>2, Becomes
    <3> QED
      BY <1>b, <3>1, <3>3 DEF Spares, SpendInv
  <2> QED
    BY <2>1, <2>2, SpendFrame
<1>12. ASSUME NEW r \in Requests, RevokeSave(r) PROVE SpendInv'
  <2>1. UNCHANGED code /\ raced \subseteq raced'
    BY <1>12 DEF RevokeSave
  <2>2. \A q \in Requests : Spares(q)
    BY <1>12, <1>a, <1>b, Becomes DEF RevokeSave, End, Spares, SpendInv
  <2> QED
    BY <2>1, <2>2, SpendFrame
<1>13. ASSUME NEW r \in Requests, NEW t \in Tokens, NEW stale \in BOOLEAN, AdmitToken(r, t, stale) PROVE SpendInv'
  <2>1. UNCHANGED code /\ raced \subseteq raced'
    BY <1>13 DEF AdmitToken
  <2>2. \A q \in Requests : Spares(q)
    <3> DEFINE j == [Idle EXCEPT !.pc = IF stale THEN "touch" ELSE "view", !.token = t]
    <3>1. j.code = Nobody
      BY <1>13, <1>a, <1>b DEF Idle
    <3>2. Become(r, j)
      BY <1>13 DEF AdmitToken
    <3> HIDE DEF j
    <3>3. req'[r] = j /\ \A q \in Requests : q # r => req'[q] = req[q]
      BY <1>a, <3>2, Becomes
    <3> QED
      BY <1>b, <3>1, <3>3 DEF Spares, SpendInv
  <2> QED
    BY <2>1, <2>2, SpendFrame
<1>14. ASSUME NEW r \in Requests, Touch(r) PROVE SpendInv'
  <2>1. UNCHANGED code /\ raced \subseteq raced'
    BY <1>14 DEF Touch
  <2>2. \A q \in Requests : Spares(q)
    <3> DEFINE j == [req[r] EXCEPT !.pc = "view"]
    <3>1. j.code = req[r].code /\ j.pc \in {"close", "view"}
      BY <1>14, <1>a, <1>b DEF Job
    <3>2. Become(r, j)
      BY <1>14 DEF Touch
    <3> HIDE DEF j
    <3>3. req'[r] = j /\ \A q \in Requests : q # r => req'[q] = req[q]
      BY <1>a, <3>2, Becomes
    <3> QED
      BY <1>b, <3>1, <3>3 DEF Spares, SpendInv
  <2> QED
    BY <2>1, <2>2, SpendFrame
<1>15. ASSUME NEW r \in Requests, Answer(r) PROVE SpendInv'
  <2>1. UNCHANGED code /\ raced \subseteq raced'
    BY <1>15 DEF Answer
  <2>2. \A q \in Requests : Spares(q)
    BY <1>15, <1>a, <1>b, Becomes DEF Answer, End, Spares, SpendInv
  <2> QED
    BY <2>1, <2>2, SpendFrame
<1>16. ASSUME NEW r \in Requests, NEW c \in Codes, AskForCode(r, c) PROVE SpendInv'
  <2>1. /\ req[r].user \in Users /\ code[c].user = Nobody /\ UNCHANGED raced
        /\ req'[r] = Idle /\ \A q \in Requests : q # r => req'[q] = req[q]
    BY <1>16, <1>a, Becomes DEF AskForCode, At, Holds, End
  <2>2. /\ code'[c].user = req[r].user /\ code'[c].opened = code[c].opened
        /\ code'[c].wrong = code[c].wrong /\ code'[c].tries = code[c].tries
        /\ \A d \in Codes : d # c => code'[d] = code[d]
    BY <1>16, <1>c DEF AskForCode, CodeEntry
  <2>3. /\ code[c].opened = 0 /\ code[c].wrong = 0 /\ \A q \in Requests : ~Verifies(q, c)
        /\ code[c].tries \in Nat
    BY <1>c, <2>1, Constants DEF SpendInv, CodeEntry
  <2>4. \A q \in Requests : ~Verifies(q, c)' /\ Spares(q)
    BY <1>b, <2>1, <2>3 DEF Verifies, Spares, SpendInv
  <2>5. CodeUse(c)'
    BY <2>2, <2>3, <2>4 DEF CodeUse
  <2>6. \A q \in Requests : req'[q].pc = "password" => req'[q].code = Nobody
    BY <2>4 DEF Spares
  <2> QED
    BY <2>1, <2>2, <2>3, <2>4, <2>5, <2>6, SpendCodeStep
<1>17. ASSUME NEW r \in Requests, NEW c \in Codes, VerifyCode(r, c) PROVE SpendInv'
  <2> DEFINE j == [Idle EXCEPT !.pc = "tries", !.user = code[c].user, !.code = c]
  <2>1. j.pc = "tries" /\ j.code = c /\ Become(r, j)
    BY <1>17 DEF VerifyCode, Idle
  <2> HIDE DEF j
  <2>2. /\ req'[r].pc = "tries" /\ req'[r].code = c
        /\ \A q \in Requests : q # r => req'[q] = req[q]
    BY <1>a, <2>1, Becomes
  <2>3. /\ UNCHANGED code /\ code[c].live /\ code[c].user # Nobody
        /\ raced \subseteq raced' /\ ((\E q \in Requests : Verifies(q, c)) => c \in raced')
    BY <1>17, <1>c, RacedGrows, Constants DEF VerifyCode, Verifies
  <2>4. ASSUME NEW d \in Codes \ raced' PROVE CodeUse(d)'
    <3>1. CodeUse(d)
      BY <2>3 DEF SpendInv
    <3>2. CASE d = c
      BY <2>2, <2>3, <3>1, <3>2 DEF CodeUse, Verifies
    <3>3. CASE d # c
      BY <2>2, <2>3, <3>1, <3>3 DEF CodeUse, Verifies
    <3> QED
      BY <3>2, <3>3
  <2> QED
    BY <2>2, <2>3, <2>4 DEF SpendInv, Verifies
<1>18. ASSUME NEW r \in Requests, TooManyTries(r) PROVE SpendInv'
  <2>1. PICK c \in Codes : Verifies(r, c)
    BY <1>18, <1>a DEF TooManyTries, At, Holds, Verifies
  <2>2. /\ req'[r] = Idle /\ \A q \in Requests : q # r => req'[q] = req[q]
        /\ UNCHANGED raced /\ code' = [code EXCEPT ![c].live = FALSE]
    BY <1>18, <1>a, <2>1, Becomes DEF TooManyTries, End, Verifies
  <2>3. \A q \in Requests : req'[q] = req[q]
            \/ (req'[q].pc = "idle" /\ req'[q].code = Nobody)
            \/ (req'[q].pc = "open" /\ req'[q].code = c /\ Verifies(q, c))
    BY <1>b, <2>2
  <2> QED
    BY <1>c, <2>2, <2>3, SpendWithdrawn
<1>19. ASSUME NEW r \in Requests, NEW right \in BOOLEAN, CompareCode(r, right) PROVE SpendInv'
  <2> DEFINE c == req[r].code
             pc == IF right THEN "spend" ELSE "count"
             n == code[c].tries
             j == [req[r] EXCEPT !.pc = pc, !.count = n]
  <2>1. c \in Codes /\ Verifies(r, c) /\ req[r] \in Job
    BY <1>19, <1>a DEF CompareCode, At, Holds, Verifies
  <2>2. j.pc \in {"spend", "count"} /\ j.code = c /\ j.count = n /\ Become(r, j)
    BY <1>19, <2>1 DEF CompareCode, Job
  <2>3. /\ req'[r].pc \in {"spend", "count"} /\ req'[r].code = c /\ req'[r].count = code[c].tries
        /\ \A q \in Requests : q # r => req'[q] = req[q]
    <3> HIDE DEF j
    <3> QED
      BY <1>a, <2>2, Becomes
  <2>4. UNCHANGED <<code, raced>>
    BY <1>19 DEF CompareCode
  <2> HIDE DEF c, j
  <2>5. \A q \in Requests, d \in Codes : Verifies(q, d)' <=> Verifies(q, d)
    BY <2>1, <2>3 DEF Verifies
  <2>6. ASSUME NEW d \in Codes \ raced' PROVE CodeUse(d)'
    <3>1. CodeUse(d)
      BY <2>4 DEF SpendInv
    <3>2. ASSUME NEW q \in Requests, Verifies(q, d)'
          PROVE  /\ code[d].opened = 0
                 /\ req'[q].pc = "open" => ~code[d].live
                 /\ req'[q].pc = "count" => req'[q].count = code[d].tries
      <4>1. CASE q = r
        BY <2>1, <2>3, <2>5, <3>1, <3>2, <4>1 DEF CodeUse, Verifies
      <4>2. CASE q # r
        BY <2>3, <2>5, <3>1, <3>2, <4>2 DEF CodeUse
      <4> QED
        BY <4>1, <4>2
    <3> QED
      BY <2>4, <2>5, <3>1, <3>2 DEF CodeUse
  <2> QED
    BY <2>3, <2>4, <2>5, <2>6 DEF SpendInv
<1>20. ASSUME NEW r \in Requests, CountTry(r) PROVE SpendInv'
  <2>0. PICK n \in Nat : n = req[r].count
    BY <1>a, Constants DEF Job
  <2>1. PICK c \in Codes : Verifies(r, c) /\ req[r].pc = "count"
    BY <1>20, <1>a DEF CountTry, At, Holds, Verifies
  <2>2. /\ req'[r] = Idle /\ \A q \in Requests : q # r => req'[q] = req[q]
        /\ UNCHANGED raced
    BY <1>20, <1>a, Becomes DEF CountTry, End
  <2>3. /\ code'[c].tries = n + 1 /\ code'[c].wrong = Count(code[c].wrong, c)
        /\ code'[c].live = code[c].live /\ code'[c].opened = code[c].opened
        /\ code'[c].user = code[c].user
        /\ \A d \in Codes : d # c => code'[d] = code[d]
    BY <1>20, <1>c, <2>0, <2>1 DEF CountTry, CodeEntry, Verifies
  <2>4. \A q \in Requests : Spares(q) /\ (Verifies(q, c)' => Verifies(q, c) /\ q # r)
    BY <1>b, <2>1, <2>2 DEF Spares, Verifies, SpendInv
  <2>5. ASSUME c \notin raced PROVE CodeUse(c)'
    <3>1. CodeUse(c)
      BY <2>1, <2>5 DEF SpendInv
    <3>2. n = code[c].tries /\ code[c].wrong \in Nat /\ code[c].tries \in Nat /\ code[c].opened = 0
      BY <1>c, <2>0, <2>1, <3>1, Constants DEF CodeUse, CodeEntry
    <3>3. \A q \in Requests : ~Verifies(q, c)'
      BY <2>1, <2>4, <3>1 DEF CodeUse
    <3> QED
      BY <2>3, <2>5, <3>1, <3>2, <3>3 DEF CodeUse, Count
  <2>6. code[c].user # Nobody
    BY <2>1 DEF SpendInv
  <2>7. \A q \in Requests : req'[q].pc = "password" => req'[q].code = Nobody
    BY <2>4 DEF Spares
  <2> QED
    BY <2>1, <2>2, <2>3, <2>4, <2>5, <2>6, <2>7, SpendCodeStep
<1>21. ASSUME NEW r \in Requests, SpendCode(r) PROVE SpendInv'
  <2> DEFINE j == [req[r] EXCEPT !.pc = "open"]
  <2>1. PICK c \in Codes : Verifies(r, c)
    BY <1>21, <1>a DEF SpendCode, At, Holds, Verifies
  <2>2. j.pc = "open" /\ j.code = c /\ Become(r, j)
    BY <1>21, <1>a, <2>1 DEF SpendCode, Job, Verifies
  <2>3. /\ req'[r].pc = "open" /\ req'[r].code = c
        /\ \A q \in Requests : q # r => req'[q] = req[q]
        /\ UNCHANGED raced /\ code' = [code EXCEPT ![c].live = FALSE]
    <3> HIDE DEF j
    <3> QED
      BY <1>21, <1>a, <2>1, <2>2, Becomes DEF SpendCode, Verifies
  <2>4. \A q \in Requests : req'[q] = req[q]
            \/ (req'[q].pc = "idle" /\ req'[q].code = Nobody)
            \/ (req'[q].pc = "open" /\ req'[q].code = c /\ Verifies(q, c))
    BY <2>1, <2>3
  <2> QED
    BY <1>c, <2>3, <2>4, SpendWithdrawn
<1>22. ASSUME NEW r \in Requests, NEW t \in Tokens, OpenSession(r, t) PROVE SpendInv'
  <2>1. /\ req'[r] = Idle /\ \A q \in Requests : q # r => req'[q] = req[q]
        /\ UNCHANGED raced /\ req[r].pc = "open"
    BY <1>22, <1>a, Becomes DEF OpenSession, End, At
  <2>2. \A q \in Requests : Spares(q)
    BY <1>b, <2>1 DEF Spares, SpendInv
  <2>3. CASE req[r].code \notin Codes
    <3>1. UNCHANGED code
      BY <1>22, <1>c, <2>3 DEF OpenSession
    <3> QED
      BY <2>1, <2>2, <3>1, SpendFrame
  <2>4. ASSUME NEW c \in Codes, c = req[r].code PROVE SpendInv'
    <3>1. /\ code'[c].opened = Count(code[c].opened, c) /\ code'[c].wrong = code[c].wrong
          /\ code'[c].tries = code[c].tries /\ code'[c].live = code[c].live
          /\ code'[c].user = code[c].user /\ Verifies(r, c)
          /\ \A d \in Codes : d # c => code'[d] = code[d]
      BY <1>22, <1>c, <2>4 DEF OpenSession, CodeEntry, Verifies
    <3>2. \A q \in Requests : Verifies(q, c)' => Verifies(q, c) /\ q # r
      BY <1>b, <2>1, <2>4 DEF Verifies
    <3>3. ASSUME c \notin raced PROVE CodeUse(c)'
      <4>1. CodeUse(c)
        BY <2>4, <3>3 DEF SpendInv
      <4>2. code[c].opened = 0 /\ ~code[c].live /\ \A q \in Requests : ~Verifies(q, c)'
        BY <2>1, <3>1, <3>2, <4>1 DEF CodeUse
      <4> QED
        BY <3>1, <3>3, <4>1, <4>2 DEF CodeUse, Count
    <3>4. code[c].user # Nobody
      BY <2>4, <3>1 DEF SpendInv
    <3>5. \A q \in Requests : req'[q].pc = "password" => req'[q].code = Nobody
      BY <2>2 DEF Spares
    <3> QED
      BY <2>1, <2>2, <2>4, <3>1, <3>2, <3>3, <3>4, <3>5, SpendCodeStep
  <2> QED
    BY <2>3, <2>4
<1>23. ASSUME NEW c \in Codes, ExpireCode(c) PROVE SpendInv'
  <2>1. UNCHANGED <<req, raced>> /\ code' = [code EXCEPT ![c].live = FALSE]
    BY <1>23 DEF ExpireCode
  <2>2. raced' = raced /\ \A q \in Requests : req'[q] = req[q]
    BY <2>1
  <2>3. code \in [Codes -> CodeEntry]
    BY <1>c
  <2> QED
    BY <2>1, <2>2, <2>3, SpendWithdrawn
<1>24. ASSUME NEW u \in Users, NEW t \in Tokens, Register(u, t) PROVE SpendInv'
  BY <1>24, SpendFrame DEF Register, Spares, SpendInv
<1>25. ASSUME NEW t \in Tokens, RevokeAll(t) PROVE SpendInv'
  BY <1>25, SpendFrame DEF RevokeAll, Spares, SpendInv
<1>26. ASSUME NEW u \in Users, UnlockUser(u) PROVE SpendInv'
  BY <1>26, SpendFrame DEF UnlockUser, Spares, SpendInv
<1>27. CASE UNCHANGED vars
  BY <1>27, SpendFrame DEF vars, Spares, SpendInv
<1> QED
  BY <1>1, <1>2, <1>3, <1>4, <1>5, <1>6, <1>7, <1>8, <1>9, <1>10, <1>11, <1>12, <1>13, <1>14, <1>15, <1>16, <1>17, <1>18, <1>19, <1>20, <1>21, <1>22, <1>23, <1>24, <1>25, <1>26, <1>27
  DEF Next, Environment, SignIn, Use

\* A mailed code opens one session and takes Limit wrong answers at most, unless two requests
\* verify it at the same time.
THEOREM CodesCorrect == Spec => []CodeSpentOnce
<1>1. Init => TypeInv /\ SpendInv
  <2>1. Init => SpendInv
    BY Constants DEF Init, SpendInv, CodeUse, Verifies, Idle
  <2> QED
    BY <2>1, TypeInit
<1>2. TypeInv /\ SpendInv /\ [Next]_vars => (TypeInv /\ SpendInv)'
  BY TypeStep, SpendStep
<1>3. TypeInv /\ SpendInv => CodeSpentOnce
  <2>1. TypeInv => \A c \in Codes : code[c].tries <= Limit /\ code[c].tries \in Nat /\ code[c].wrong \in Nat
    BY Constants DEF TypeInv, CodeInv, CodeEntry
  <2> QED
    BY <2>1, Constants DEF SpendInv, CodeUse, CodeSpentOnce
<1> QED
  BY <1>1, <1>2, <1>3, PTL DEF Spec
===============================================================================
