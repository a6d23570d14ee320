---------------------------- MODULE PolicyLibraries ----------------------------
(***************************************************************************)
(* How the ABE libraries read the text of a policy: rabe for AC17, CIRCL   *)
(* for TKN20.  PolicyTerms asks no more of them than these equations.      *)
(***************************************************************************)
EXTENDS PolicyTerms

\* rabe knows no negation.
RECURSIVE WellFormed(_, _)
WellFormed(scheme, term) ==
    CASE term.kind = "empty" -> FALSE
      [] term.kind = "has" -> TRUE
      [] term.kind = "not" -> scheme = "tkn20"
      [] OTHER -> \A t \in term.args : WellFormed(scheme, t)

\* CIRCL's negation asks for the attribute, with another value.
RECURSIVE Grants(_, _, _)
Grants(scheme, attrs, term) ==
    CASE term.kind = "has" -> <<term.attr, term.val>> \in attrs
      [] term.kind = "not" -> \E a \in attrs : a[1] = term.attr /\ a[2] # term.val
      [] term.kind = "and" -> \A t \in term.args : Grants(scheme, attrs, t)
      [] term.kind = "or" -> \E t \in term.args : Grants(scheme, attrs, t)
===============================================================================
