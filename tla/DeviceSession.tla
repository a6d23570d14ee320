----------------------------- MODULE DeviceSession -----------------------------
(***************************************************************************)
(* What the session table promises the user of one device: it is signed in *)
(* once, its session can be revoked, and from then on no request it starts *)
(* reaches a protected route, whichever of its tokens it sends.  A request *)
(* admitted before the revocation may still be answered after it.          *)
(***************************************************************************)
EXTENDS Naturals

CONSTANT Requests       \* requests of any client

VARIABLES
    life,       \* "out", "in", or "revoked"
    serving     \* the requests of this device a protected route is answering

vars == <<life, serving>>

Init == life = "out" /\ serving = {}

SignIn == life = "out" /\ life' = "in" /\ UNCHANGED serving

Revoke == life = "in" /\ life' = "revoked" /\ UNCHANGED serving

Admit(r) == life = "in" /\ r \notin serving /\ serving' = serving \cup {r} /\ UNCHANGED life

Answer(r) == r \in serving /\ serving' = serving \ {r} /\ UNCHANGED life

Next == SignIn \/ Revoke \/ \E r \in Requests : Admit(r) \/ Answer(r)

Spec == Init /\ [][Next]_vars
================================================================================
