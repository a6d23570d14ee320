---------------------------- MODULE MCAuditChain ----------------------------
(***************************************************************************)
(* Instances of AuditChain for TLC.  No action treats one worker unlike    *)
(* another, so states that differ in their names only are the same.        *)
(***************************************************************************)
EXTENDS AuditChain, TLC

WorkerSymmetry == Permutations(Workers)

\* The requests that wait for one another: verifications take no lock.
LockingNext == \E w \in Workers : Writer(w) \/ Remover(w)
LockingSpec == Init /\ [][LockingNext]_vars /\ \A w \in Workers : WF_vars(Proceed(w))
=============================================================================
