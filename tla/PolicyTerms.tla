------------------------------ MODULE PolicyTerms ------------------------------
(***************************************************************************)
(* Conditions on attributes, and the three things the program does with    *)
(* them: the policy decision point evaluates them (casbin_service.py), an  *)
(* AccessPolicy compiles them into the policy of a ciphertext              *)
(* (models/policy.py), and the ABE library compares that policy with the   *)
(* attributes of a key.                                                    *)
(*                                                                         *)
(* A condition is a tree: a comparison of an attribute with literals, or   *)
(* "and", "or", "not" of conditions.  A profile gives every attribute the  *)
(* value a user has, or "None".                                            *)
(***************************************************************************)
EXTENDS HybridCipher, Sequences, FiniteSetsExt, Functions

CONSTANTS
    Profiles,           \* attribute values a user may have
    Depth,              \* every condition, and part of one, with its nesting
    Levels(_),          \* the ranks of an attribute, lowest first; << >> if it has none
    AllowedValues(_),   \* AttributeDefinition.allowed_values, as a set
    AtLeast(_, _)       \* Python's >= on two values

Parts == DOMAIN Depth

Compare(attr, op, vals) == [kind |-> "compare", attr |-> attr, op |-> op, vals |-> vals]
All(conditions) == [kind |-> "and", args |-> conditions]
Some(conditions) == [kind |-> "or", args |-> conditions]
Not(condition) == [kind |-> "not", args |-> <<condition>>]

\* Conditions are finite trees.
ASSUME PartsAssumption ==
    /\ Depth \in [Parts -> Nat]
    /\ \A c \in Parts :
        \/ c.kind = "compare"
        \/ /\ c.kind \in {"and", "or", "not"}
           /\ c.args \in Seq(Parts) /\ c.args # << >>
           /\ \A i \in DOMAIN c.args : Depth[c.args[i]] < Depth[c]

Args(c) == IF c.kind = "compare" THEN << >> ELSE c.args

LeavesOf(c, parts) == IF c.kind = "compare" THEN {c} ELSE UNION Range(parts)

Leaves[c \in Parts] == LeavesOf(c, [i \in DOMAIN Args(c) |-> Leaves[Args(c)[i]]])

\* Comparisons are of attributes that are defined, with literals; a value is one its definition allows.
ASSUME VocabularyAssumption ==
    /\ \A c \in Parts : c.kind = "compare" =>
        /\ \A p \in Profiles : c.attr \in DOMAIN p
        /\ "None" \notin c.vals
        /\ \/ c.op \in {"in", "not in"}
           \/ c.op \in {"==", "!=", ">="} /\ \E v \in c.vals : c.vals = {v} /\ AtLeast(v, v)
    /\ \A p \in Profiles : \A a \in DOMAIN p : p[a] = "None" \/ p[a] \in AllowedValues(a)

--------------------------------------------------------------------------------
(***************************************************************************)
(* safe_eval_condition: "error" is an exception, which ends the evaluation *)
(* and counts as false.  An attribute a user lacks is None, which is equal *)
(* to nothing and has no order.                                            *)
(***************************************************************************)
Truth(b) == IF b THEN "true" ELSE "false"

CompareValue(left, op, vals) ==
    IF op = ">=" /\ left = "None" THEN "error"
    ELSE Truth(\/ op \in {"==", "in"} /\ left \in vals
               \/ op \in {"!=", "not in"} /\ left \notin vals
               \/ op = ">=" /\ \A v \in vals : AtLeast(left, v))

Negated(v) == IF v = "error" THEN v ELSE Truth(v = "false")

\* visit_BoolOp stops at the first operand that decides.
FirstDeciding(neutral, parts) ==
    LET deciding == {i \in DOMAIN parts : parts[i] # neutral}
    IN  IF deciding = {} THEN neutral ELSE parts[Min(deciding)]

ValueOf(c, profile, parts) ==
    IF c.kind = "compare" THEN CompareValue(profile[c.attr], c.op, c.vals)
    ELSE IF c.kind = "not" THEN Negated(parts[1])
    ELSE FirstDeciding(Truth(c.kind = "and"), parts)

Value[c \in Parts] == [profile \in Profiles |->
    ValueOf(c, profile, [i \in DOMAIN Args(c) |-> Value[Args(c)[i]][profile]])]

Evaluates(profile, c) == Value[c][profile] = "true"

--------------------------------------------------------------------------------
(***************************************************************************)
(* _generate_cpabe_policy.  A text is a tree, which the libraries parse,   *)
(* and the tokens a regular expression finds in it: "" (Empty), a token, a *)
(* negated token, or "and"/"or" of such.  How operands are nested and in   *)
(* which order is left out.                                                *)
(***************************************************************************)
Empty == [kind |-> "empty", tokens |-> {}]
Has(attr, val) == [kind |-> "has", attr |-> attr, val |-> val, tokens |-> {<<attr, val>>}]
HasNot(attr, val) == [kind |-> "not", attr |-> attr, val |-> val, tokens |-> {<<attr, val>>}]

\* An empty operand makes a text that no library parses.
Join(kind, terms) == [kind |-> kind, args |-> terms, tokens |-> UNION {t.tokens : t \in terms}]

\* Mutant: the values are joined by "and".
AnyOfAll(attr, vals) == IF vals = {} THEN Empty ELSE Join("and", {Has(attr, v) : v \in vals})

AnyOf(attr, vals) == IF vals = {} THEN Empty ELSE Join("or", {Has(attr, v) : v \in vals})

\* Mutant: the excluded values are listed in place of the others.
NoneOfInverted(scheme, attr, vals) == AnyOf(attr, vals)

\* TKN20 has negation; for AC17 the other allowed values are listed.
NoneOf(scheme, attr, vals) ==
    IF scheme = "tkn20" /\ vals # {} THEN Join("and", {HasNot(attr, v) : v \in vals})
    ELSE IF scheme = "tkn20" THEN Empty
    ELSE AnyOf(attr, AllowedValues(attr) \ vals)

\* An order is compiled as an equation.
TextOf(c, scheme, parts) ==
    IF c.kind = "not" THEN Empty
    ELSE IF c.kind \in {"and", "or"} THEN Join(c.kind, Range(parts))
    ELSE IF c.op \in {"!=", "not in"} THEN NoneOf(scheme, c.attr, c.vals)
    ELSE AnyOf(c.attr, c.vals)

Texts[c \in Parts] == [scheme \in Schemes |->
    TextOf(c, scheme, [i \in DOMAIN Args(c) |-> Texts[Args(c)[i]][scheme]])]

Compile(scheme, c) == Texts[c][scheme]

--------------------------------------------------------------------------------
(***************************************************************************)
(* expand_hierarchical_attributes.  During a request an attribute has a    *)
(* value or, if the request was padded, a list of them; only a value       *)
(* brings the ranks below it.                                              *)
(***************************************************************************)
Below(attr, val) == {Levels(attr)[i] : i \in {j \in DOMAIN Levels(attr) :
                        \E k \in DOMAIN Levels(attr) : j < k /\ Levels(attr)[k] = val}}

Plainly(profile) == [a \in DOMAIN profile |->
                        [list |-> FALSE, vals |-> IF profile[a] = "None" THEN {} ELSE {profile[a]}]]

Expand(attrs) ==
    LET ranks(a) == IF attrs[a].list THEN {} ELSE UNION {Below(a, v) : v \in attrs[a].vals}
    IN  UNION {{a} \X (attrs[a].vals \cup ranks(a)) : a \in DOMAIN attrs}

\* A value the policy names is added to those the user has, which become a list.
Pad(attrs, term) ==
    [a \in DOMAIN attrs |->
        LET named == {t[2] : t \in {u \in term.tokens : u[1] = a}}
        IN  IF named \subseteq attrs[a].vals THEN attrs[a]
            ELSE [list |-> TRUE, vals |-> attrs[a].vals \cup named]]

--------------------------------------------------------------------------------
(***************************************************************************)
(* Who a condition is meant to admit to a ciphertext: a comparison holds   *)
(* of a user if it holds of his value or, for a ranked attribute, of one   *)
(* below it.                                                               *)
(***************************************************************************)
AdmittedOf(c, parts) == {profile \in Profiles :
    \/ /\ c.kind = "compare"
       /\ \E v \in {profile[c.attr]} \cup Below(c.attr, profile[c.attr]) :
            CompareValue(v, c.op, c.vals) = "true"
    \/ c.kind = "and" /\ \A i \in DOMAIN parts : profile \in parts[i]
    \/ c.kind = "or" /\ \E i \in DOMAIN parts : profile \in parts[i]}

Admitted[c \in Parts] == AdmittedOf(c, [i \in DOMAIN Args(c) |-> Admitted[Args(c)[i]]])

Admits(profile, c) == profile \in Admitted[c]

--------------------------------------------------------------------------------
Operands(term) == IF term.kind \in {"and", "or"} THEN term.args ELSE {}

\* Every text a policy may have, and part of one.
Terms ==
    LET texts == {Compile(s, c) : s \in Schemes, c \in Parts}
    IN  texts \cup UNION {Operands(t) : t \in texts}

\* Every attribute a key may have.
Attributes == UNION ({Expand(Plainly(p)) : p \in Profiles} \cup {t.tokens : t \in Terms})

(***************************************************************************)
(* The libraries read a text by its structure.  rabe knows no negation;    *)
(* CIRCL's asks for the attribute, with another value.                     *)
(***************************************************************************)
ASSUME LibrariesAssumption ==
    \A scheme \in Schemes : \A t \in Terms :
        /\ Parses(scheme, t) <=>
            /\ t.kind # "empty"
            /\ t.kind = "not" => scheme = "tkn20"
            /\ \A u \in Operands(t) : Parses(scheme, u)
        /\ \A attrs \in SUBSET Attributes : Parses(scheme, t) =>
            /\ t.kind = "has" => (Satisfies(scheme, attrs, t) <=> <<t.attr, t.val>> \in attrs)
            /\ t.kind = "not" => (Satisfies(scheme, attrs, t) <=>
                                    \E a \in attrs : a[1] = t.attr /\ a[2] # t.val)
            /\ t.kind = "and" => (Satisfies(scheme, attrs, t) <=>
                                    \A u \in t.args : Satisfies(scheme, attrs, u))
            /\ t.kind = "or" => (Satisfies(scheme, attrs, t) <=>
                                    \E u \in t.args : Satisfies(scheme, attrs, u))
===============================================================================
