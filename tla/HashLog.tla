------------------------------ MODULE HashLog ------------------------------
(***************************************************************************)
(* What an append-only, hash-linked log promises, without the database,    *)
(* the cache or the processes.  Entries are only ever added, and an entry  *)
(* covers the hash of an entry that was in the log before it, so the links *)
(* can never form a cycle or point outside the log.                        *)
(*                                                                         *)
(* TreeSpec is that promise.  ChainSpec adds that the log is one chain:    *)
(* a new entry covers the newest one, as README.md:36 puts it, "linked     *)
(* into a continuous cryptographic hash chain".                            *)
(***************************************************************************)
EXTENDS Integers

CONSTANTS
    Ids,        \* hashes of entries
    Origin      \* what the first entry covers instead of a hash; not in Ids

VARIABLE entries    \* the log: a set of [id, prev]

Entry == [id : Ids, prev : Ids \cup {Origin}]

Hashes == {e.id : e \in entries}
Covered == {e.prev : e \in entries}

\* The hashes that nothing covers yet; Origin as long as the log is empty.
Tips == IF entries = {} THEN {Origin} ELSE Hashes \ Covered

Empty == entries = {}

Append(id, prev) ==
    /\ id \notin Hashes
    /\ entries' = entries \cup {[id |-> id, prev |-> prev]}

AppendAnywhere == \E id \in Ids, prev \in Hashes \cup {Origin} : Append(id, prev)
AppendToTip    == \E id \in Ids, prev \in Tips : Append(id, prev)

TreeSpec  == Empty /\ [][AppendAnywhere]_entries
ChainSpec == Empty /\ [][AppendToTip]_entries
=============================================================================
