------------------------------- MODULE MCAccess -------------------------------
(***************************************************************************)
(* Access with a department, which has no ranks, and a role, which has.    *)
(***************************************************************************)
EXTENDS Access, PolicyLibraries

MCLevels(attr) == IF attr = "role" THEN <<"intern", "employee", "manager">> ELSE << >>
MCAllowedValues(attr) == IF attr = "role" THEN Range(MCLevels(attr)) ELSE {"hr", "it", "law"}
Order == <<"employee", "hr", "intern", "it", "law", "manager">>
MCAtLeast(v, w) == \E i, j \in DOMAIN Order : i >= j /\ Order[i] = v /\ Order[j] = w

Profile(dept, role) == [dept |-> dept, role |-> role]
MCProfiles == {Profile("it", "employee"), Profile("hr", "manager"), Profile("None", "manager")}

It == Compare("dept", "==", {"it"})
NotIt == Compare("dept", "!=", {"it"})
MCConditions ==
    {Compare("dept", ">=", {"hr"}),
     Some(<<Compare("dept", "in", {"hr", "law"}), All(<<NotIt, Compare("role", "not in", {"intern"})>>)>>),
     Not(It)}

RECURSIVE PartsOf(_), Nesting(_)
PartsOf(c) == {c} \cup IF c.kind = "compare" THEN {} ELSE UNION {PartsOf(d) : d \in Range(c.args)}
Nesting(c) == IF c.kind = "compare" THEN 0 ELSE 1 + Max({Nesting(d) : d \in Range(c.args)})
MCDepth == [c \in UNION {PartsOf(d) : d \in MCConditions} |-> Nesting(c)]

\* The owner starts with the first profile, the others with one of a department; each may be given another.
MCInit ==
    /\ Init
    /\ profile[Owner] = Profile("it", "employee")
    /\ \A u \in Users : profile[u].dept # "None"
MCSpec == MCInit /\ [][Next]_vars
===============================================================================
