----------------------------- MODULE AccessProofs -----------------------------
(***************************************************************************)
(* Proofs about Access, for every set of users, of conditions and of       *)
(* profiles, and about the policy compiler, for conditions however deep.   *)
(***************************************************************************)
EXTENDS Access, TLAPS

--------------------------------------------------------------------------------
(***************************************************************************)
(* The recursive definitions of PolicyTerms are functions on the parts of  *)
(* conditions; TreeRecursion says that they satisfy their equations.       *)
(***************************************************************************)
ValueStep(c, parts) == [who \in Profiles |->
    ValueOf(c, who, [i \in DOMAIN parts |-> parts[i][who]])]

TextStep(c, parts) == [lib \in Schemes |->
    TextOf(c, lib, [i \in DOMAIN parts |-> parts[i][lib]])]

OfLeaves == INSTANCE TreeRecursion WITH Nodes <- Parts, Of <- LeavesOf
OfValues == INSTANCE TreeRecursion WITH Nodes <- Parts, Of <- ValueStep
OfTexts == INSTANCE TreeRecursion WITH Nodes <- Parts, Of <- TextStep
OfAdmitted == INSTANCE TreeRecursion WITH Nodes <- Parts, Of <- AdmittedOf

\* A part of a condition is a comparison, or a group of parts.
LEMMA PartKinds ==
    ASSUME NEW c \in Parts
    PROVE  \/ c.kind = "compare"
           \/ /\ c.kind \in {"and", "or", "not"}
              /\ Args(c) = c.args /\ c.args # << >>
              /\ \E n \in Nat : DOMAIN c.args = 1..n
              /\ \A i \in DOMAIN c.args : c.args[i] \in Parts
<1>1. CASE c.kind # "compare"
  <2>1. c.kind \in {"and", "or", "not"} /\ c.args \in Seq(Parts) /\ c.args # << >>
    BY <1>1, PartsAssumption
  <2>2. QED
    BY <2>1, <1>1 DEF Args
<1>2. QED
  BY <1>1

LEMMA PartsAreTrees ==
    OfLeaves!Trees /\ OfValues!Trees /\ OfTexts!Trees /\ OfAdmitted!Trees
<1>1. ASSUME NEW c \in Parts, NEW i \in DOMAIN Args(c)
      PROVE  Args(c)[i] \in Parts /\ Depth[Args(c)[i]] < Depth[c]
  <2>1. c.kind # "compare"
    BY DEF Args
  <2>2. Args(c) = c.args /\ \A j \in DOMAIN c.args : c.args[j] \in Parts
    BY <2>1, PartKinds
  <2>3. \A j \in DOMAIN c.args : Depth[c.args[j]] < Depth[c]
    BY <2>1, PartsAssumption
  <2>4. QED
    BY <2>2, <2>3
<1>2. QED
  BY <1>1, PartsAssumption DEF OfLeaves!Trees, OfValues!Trees, OfTexts!Trees, OfAdmitted!Trees

\* What holds of a condition if it holds of its operands holds of every condition.
LEMMA ConditionInduction ==
    ASSUME NEW Good,
           \A c \in Parts : (\A i \in DOMAIN Args(c) : Args(c)[i] \in Good) => c \in Good
    PROVE  Parts \subseteq Good
  BY PartsAreTrees, OfLeaves!TreeInduction, Zenon

LEMMA LeavesEquation ==
    ASSUME NEW c \in Parts
    PROVE  Leaves[c] = LeavesOf(c, [i \in DOMAIN Args(c) |-> Leaves[Args(c)[i]]])
<1>1. \E f : f = [d \in Parts |-> LeavesOf(d, [i \in DOMAIN Args(d) |-> f[Args(d)[i]]])]
  BY PartsAreTrees, OfLeaves!RecursionExists, Zenon
<1>2. Leaves = [d \in Parts |-> LeavesOf(d, [i \in DOMAIN Args(d) |-> Leaves[Args(d)[i]]])]
  BY <1>1 DEF Leaves
<1>3. QED
  BY <1>2

LEMMA ValueEquation ==
    ASSUME NEW c \in Parts, NEW p \in Profiles
    PROVE  Value[c][p] = ValueOf(c, p, [i \in DOMAIN Args(c) |-> Value[Args(c)[i]][p]])
<1> DEFINE Body(f, d) == [who \in Profiles |->
                ValueOf(d, who, [i \in DOMAIN Args(d) |-> f[Args(d)[i]][who]])]
<1>1. PICK f : f = [d \in Parts |-> ValueStep(d, [i \in DOMAIN Args(d) |-> f[Args(d)[i]]])]
  BY PartsAreTrees, OfValues!RecursionExists, Zenon
<1>2. ASSUME NEW g, NEW d \in Parts
      PROVE  ValueStep(d, [i \in DOMAIN Args(d) |-> g[Args(d)[i]]]) = Body(g, d)
  BY DEF ValueStep
<1>3. f = [d \in Parts |-> Body(f, d)]
  BY <1>1, <1>2
<1>4. Value = [d \in Parts |-> Body(Value, d)]
  BY <1>3 DEF Value
<1>5. Value[c] = Body(Value, c)
  BY <1>4
<1>6. QED
  BY <1>5

LEMMA TextsEquation ==
    ASSUME NEW c \in Parts, NEW s \in Schemes
    PROVE  Compile(s, c) = TextOf(c, s, [i \in DOMAIN Args(c) |-> Compile(s, Args(c)[i])])
<1> DEFINE Body(f, d) == [lib \in Schemes |->
                TextOf(d, lib, [i \in DOMAIN Args(d) |-> f[Args(d)[i]][lib]])]
<1>1. PICK f : f = [d \in Parts |-> TextStep(d, [i \in DOMAIN Args(d) |-> f[Args(d)[i]]])]
  BY PartsAreTrees, OfTexts!RecursionExists, Zenon
<1>2. ASSUME NEW g, NEW d \in Parts
      PROVE  TextStep(d, [i \in DOMAIN Args(d) |-> g[Args(d)[i]]]) = Body(g, d)
  BY DEF TextStep
<1>3. f = [d \in Parts |-> Body(f, d)]
  BY <1>1, <1>2
<1>4. Texts = [d \in Parts |-> Body(Texts, d)]
  BY <1>3 DEF Texts
<1>5. Texts[c] = Body(Texts, c)
  BY <1>4
<1>6. QED
  BY <1>5 DEF Compile

LEMMA AdmittedEquation ==
    ASSUME NEW c \in Parts
    PROVE  Admitted[c] = AdmittedOf(c, [i \in DOMAIN Args(c) |-> Admitted[Args(c)[i]]])
<1>1. \E f : f = [d \in Parts |-> AdmittedOf(d, [i \in DOMAIN Args(d) |-> f[Args(d)[i]]])]
  BY PartsAreTrees, OfAdmitted!RecursionExists, Zenon
<1>2. Admitted = [d \in Parts |-> AdmittedOf(d, [i \in DOMAIN Args(d) |-> Admitted[Args(d)[i]]])]
  BY <1>1 DEF Admitted
<1>3. QED
  BY <1>2

\* A condition holds if its comparison does, all its operands do, or one of them does.
LEMMA EvaluatesAs ==
    ASSUME NEW c \in Parts, NEW p \in Profiles, Evaluates(p, c)
    PROVE  /\ c.kind = "compare" => CompareValue(p[c.attr], c.op, c.vals) = "true"
           /\ c.kind = "and" => \A i \in DOMAIN c.args : Evaluates(p, c.args[i])
           /\ c.kind = "or" => \E i \in DOMAIN c.args : Evaluates(p, c.args[i])
<1> DEFINE parts == [i \in DOMAIN Args(c) |-> Value[Args(c)[i]][p]]
<1>1. ValueOf(c, p, parts) = "true"
  BY ValueEquation DEF Evaluates
<1>2. CASE c.kind = "compare"
  BY <1>1, <1>2 DEF ValueOf
<1>3. CASE c.kind \in {"and", "or"}
  <2> DEFINE neutral == Truth(c.kind = "and")
             deciding == {i \in DOMAIN parts : parts[i] # neutral}
  <2>1. FirstDeciding(neutral, parts) = "true"
    BY <1>1, <1>3 DEF ValueOf
  <2>2. Args(c) = c.args /\ c.args # << >> /\ DOMAIN parts = DOMAIN c.args
    BY <1>3, PartKinds
  <2>3. \A i \in DOMAIN c.args : parts[i] = Value[c.args[i]][p]
    BY <2>2
  <2>4. deciding # {} => Min(deciding) \in DOMAIN c.args /\ parts[Min(deciding)] # neutral
    <3>1. deciding \in SUBSET Nat
      BY <1>3, <2>2, PartKinds
    <3> HIDE DEF deciding
    <3>2. deciding # {} => Min(deciding) \in deciding
      BY <3>1, OfLeaves!LeastExists DEF Min
    <3>3. QED
      BY <3>2, <2>2 DEF deciding
  <2> HIDE DEF parts
  <2>5. CASE c.kind = "and"
    <3>1. neutral = "true"
      BY <2>5 DEF Truth
    <3>2. deciding = {}
      BY <2>1, <2>4, <3>1 DEF FirstDeciding
    <3>3. QED
      BY <3>1, <3>2, <2>2, <2>3, <2>5 DEF Evaluates
  <2>6. CASE c.kind = "or"
    <3>1. neutral = "false"
      BY <2>6 DEF Truth
    <3>2. deciding # {} /\ parts[Min(deciding)] = "true"
      BY <2>1, <3>1 DEF FirstDeciding
    <3>3. QED
      BY <3>2, <2>4, <2>3, <2>6 DEF Evaluates
  <2>7. QED
    BY <1>3, <2>5, <2>6
<1>4. QED
  BY <1>2, <1>3

LEMMA AdmitsIf ==
    ASSUME NEW c \in Parts, NEW p \in Profiles
    PROVE  /\ /\ c.kind = "compare"
              /\ \E v \in {p[c.attr]} \cup Below(c.attr, p[c.attr]) :
                    CompareValue(v, c.op, c.vals) = "true"
              => Admits(p, c)
           /\ c.kind = "and" /\ (\A i \in DOMAIN c.args : Admits(p, c.args[i])) => Admits(p, c)
           /\ c.kind = "or" /\ (\E i \in DOMAIN c.args : Admits(p, c.args[i])) => Admits(p, c)
  BY AdmittedEquation, PartKinds DEF AdmittedOf, Admits

LEMMA GroupText ==
    ASSUME NEW c \in Parts, NEW s \in Schemes, c.kind \in {"and", "or"}
    PROVE  Compile(s, c) = Join(c.kind, {Compile(s, c.args[i]) : i \in DOMAIN c.args})
<1> DEFINE parts == [i \in DOMAIN Args(c) |-> Compile(s, Args(c)[i])]
<1>1. Args(c) = c.args
  BY PartKinds
<1>2. Range(parts) = {Compile(s, c.args[i]) : i \in DOMAIN c.args}
  BY <1>1 DEF Range
<1> HIDE DEF parts
<1>3. Compile(s, c) = Join(c.kind, Range(parts))
  BY TextsEquation DEF TextOf, parts
<1>4. QED
  BY <1>2, <1>3

--------------------------------------------------------------------------------
(***************************************************************************)
(* What the libraries make of the texts the compiler writes.               *)
(***************************************************************************)
LEMMA TextsAreTerms ==
    ASSUME NEW c \in Parts, NEW s \in Schemes
    PROVE  Compile(s, c) \in Terms /\ Operands(Compile(s, c)) \subseteq Terms
  BY DEF Terms

LEMMA ParsedAs ==
    ASSUME NEW z \in Schemes, NEW t \in Terms, Parses(z, t)
    PROVE  /\ t.kind # "empty"
           /\ t.kind = "not" => z = "tkn20"
           /\ \A u \in Operands(t) : Parses(z, u)
  BY LibrariesAssumption, Zenon

LEMMA ReadAs ==
    ASSUME NEW z \in Schemes, NEW t \in Terms, NEW attrs \in SUBSET Attributes, Parses(z, t)
    PROVE  /\ t.kind = "has" => (Satisfies(z, attrs, t) <=> <<t.attr, t.val>> \in attrs)
           /\ t.kind = "not" => (Satisfies(z, attrs, t) <=> \E a \in attrs : a[1] = t.attr /\ a[2] # t.val)
           /\ t.kind = "and" => (Satisfies(z, attrs, t) <=> \A u \in t.args : Satisfies(z, attrs, u))
           /\ t.kind = "or" => (Satisfies(z, attrs, t) <=> \E u \in t.args : Satisfies(z, attrs, u))
<1>1. \A attributes \in SUBSET Attributes : Parses(z, t) =>
        /\ t.kind = "has" => (Satisfies(z, attributes, t) <=> <<t.attr, t.val>> \in attributes)
        /\ t.kind = "not" => (Satisfies(z, attributes, t) <=> \E a \in attributes : a[1] = t.attr /\ a[2] # t.val)
        /\ t.kind = "and" => (Satisfies(z, attributes, t) <=> \A u \in t.args : Satisfies(z, attributes, u))
        /\ t.kind = "or" => (Satisfies(z, attributes, t) <=> \E u \in t.args : Satisfies(z, attributes, u))
  BY LibrariesAssumption, Zenon
<1>2. QED
  BY <1>1, Zenon

\* A group of conditions is read as the group of what they are read as.
LEMMA GroupReadAs ==
    ASSUME NEW c \in Parts, NEW s \in Schemes, NEW z \in Schemes, NEW attrs \in SUBSET Attributes,
           c.kind \in {"and", "or"}, Parses(z, Compile(s, c))
    PROVE  /\ \A i \in DOMAIN c.args : Parses(z, Compile(s, c.args[i]))
           /\ c.kind = "and" => (Satisfies(z, attrs, Compile(s, c)) <=>
                                    \A i \in DOMAIN c.args : Satisfies(z, attrs, Compile(s, c.args[i])))
           /\ c.kind = "or" => (Satisfies(z, attrs, Compile(s, c)) <=>
                                    \E i \in DOMAIN c.args : Satisfies(z, attrs, Compile(s, c.args[i])))
<1> DEFINE t == Compile(s, c)
           args == {Compile(s, c.args[i]) : i \in DOMAIN c.args}
<1>1. t.kind = c.kind /\ t.args = args
  BY GroupText DEF Join
<1>2. t \in Terms /\ Operands(t) = args /\ Parses(z, t)
  BY <1>1, TextsAreTerms DEF Operands
<1> HIDE DEF t, args
<1>3. \A u \in args : Parses(z, u)
  BY <1>2, ParsedAs
<1>4. /\ t.kind = "and" => (Satisfies(z, attrs, t) <=> \A u \in args : Satisfies(z, attrs, u))
      /\ t.kind = "or" => (Satisfies(z, attrs, t) <=> \E u \in args : Satisfies(z, attrs, u))
  BY <1>1, <1>2, ReadAs
<1>5. QED
  BY <1>1, <1>3, <1>4 DEF t, args

LEMMA AnyOfReadAs ==
    ASSUME NEW z \in Schemes, NEW attr, NEW vals, NEW attrs \in SUBSET Attributes,
           AnyOf(attr, vals) \in Terms, Operands(AnyOf(attr, vals)) \subseteq Terms,
           Parses(z, AnyOf(attr, vals))
    PROVE  Satisfies(z, attrs, AnyOf(attr, vals)) <=> \E v \in vals : <<attr, v>> \in attrs
<1> DEFINE t == AnyOf(attr, vals)
           args == {Has(attr, v) : v \in vals}
<1>1. vals # {}
  <2>1. t.kind # "empty"
    BY ParsedAs
  <2>2. QED
    BY <2>1 DEF AnyOf, Empty
<1>2. t.kind = "or" /\ t.args = args /\ Operands(t) = args
  BY <1>1 DEF AnyOf, Join, Operands
<1> t \in Terms /\ Parses(z, t)
  OBVIOUS
<1> HIDE DEF t
<1>3. Satisfies(z, attrs, t) <=> \E u \in args : Satisfies(z, attrs, u)
  BY <1>2, ReadAs
<1>4. ASSUME NEW v \in vals
      PROVE  Satisfies(z, attrs, Has(attr, v)) <=> <<attr, v>> \in attrs
  <2>1. Has(attr, v) \in Operands(t)
    BY <1>2
  <2>2. Has(attr, v) \in Terms
    BY <2>1 DEF t
  <2>3. Parses(z, Has(attr, v))
    BY <2>1, ParsedAs
  <2>4. QED
    BY <2>2, <2>3, ParsedAs, ReadAs DEF Has
<1>5. QED
  BY <1>3, <1>4 DEF t

\* There is a value of the attribute other than v.
Another(attrs, attr, v) == \E a \in attrs : a[1] = attr /\ a[2] # v

LEMMA NoneOfReadAs ==
    ASSUME NEW z \in Schemes, NEW attr, NEW vals, NEW attrs \in SUBSET Attributes,
           NoneOf("tkn20", attr, vals) \in Terms, Operands(NoneOf("tkn20", attr, vals)) \subseteq Terms,
           Parses(z, NoneOf("tkn20", attr, vals))
    PROVE  /\ z = "tkn20" /\ vals # {}
           /\ Satisfies(z, attrs, NoneOf("tkn20", attr, vals)) <=>
                \A v \in vals : Another(attrs, attr, v)
<1> DEFINE t == NoneOf("tkn20", attr, vals)
           args == {HasNot(attr, v) : v \in vals}
<1>1. vals # {}
  <2>1. t.kind # "empty"
    BY ParsedAs
  <2>2. QED
    BY <2>1 DEF NoneOf, Empty
<1>2. t.kind = "and" /\ t.args = args /\ Operands(t) = args
  BY <1>1 DEF NoneOf, Join, Operands
<1> t \in Terms /\ Parses(z, t)
  OBVIOUS
<1> HIDE DEF t
<1>3. Satisfies(z, attrs, t) <=> \A u \in args : Satisfies(z, attrs, u)
  BY <1>2, ReadAs
<1>4. ASSUME NEW v \in vals
      PROVE  /\ z = "tkn20"
             /\ Satisfies(z, attrs, HasNot(attr, v)) <=> Another(attrs, attr, v)
  <2>1. HasNot(attr, v) \in Operands(t)
    BY <1>2
  <2>2. HasNot(attr, v) \in Terms
    BY <2>1 DEF t
  <2>3. Parses(z, HasNot(attr, v))
    BY <2>1, ParsedAs
  <2>4. QED
    BY <2>2, <2>3, ParsedAs, ReadAs DEF HasNot, Another
<1>5. QED
  BY <1>1, <1>3, <1>4 DEF t

--------------------------------------------------------------------------------
\* A user has, of each attribute he has a value of, that value and the ranks below it.
LEMMA PlainAttributes ==
    ASSUME NEW p, NEW x
    PROVE  x \in Expand(Plainly(p)) <=>
            \E a \in DOMAIN p : \E v \in {p[a]} \cup Below(a, p[a]) : p[a] # "None" /\ x = <<a, v>>
<1> DEFINE attrs == Plainly(p)
           ranks(a) == IF attrs[a].list THEN {} ELSE UNION {Below(a, w) : w \in attrs[a].vals}
           all(a) == attrs[a].vals \cup ranks(a)
<1>1. DOMAIN attrs = DOMAIN p
  BY DEF Plainly
<1>2. ASSUME NEW a \in DOMAIN p
      PROVE  all(a) = IF p[a] = "None" THEN {} ELSE {p[a]} \cup Below(a, p[a])
  <2>1. ~attrs[a].list /\ attrs[a].vals = IF p[a] = "None" THEN {} ELSE {p[a]}
    BY DEF Plainly
  <2>2. QED
    BY <2>1
<1> HIDE DEF attrs, all
<1>3. Expand(attrs) = UNION {{a} \X all(a) : a \in DOMAIN attrs}
  BY DEF Expand, all
<1>4. x \in Expand(attrs) <=> \E a \in DOMAIN p : x \in {a} \X all(a)
  BY <1>1, <1>3
<1>5. ASSUME NEW a \in DOMAIN p
      PROVE  x \in {a} \X all(a) <=> \E v \in all(a) : x = <<a, v>>
  OBVIOUS
<1>6. QED
  BY <1>2, <1>4, <1>5 DEF attrs

LEMMA PlainAttributesAreAttributes ==
    ASSUME NEW p \in Profiles
    PROVE  Expand(Plainly(p)) \subseteq Attributes
  BY DEF Attributes

\* A key of TKN20 holds one value of each attribute.
OneOfEach(attrs) == \A a, b \in attrs : a[1] = b[1] => a = b

\* How the text of a comparison is read.
LEMMA CompareReadAs ==
    ASSUME NEW c \in Parts, NEW s \in Schemes, NEW z \in Schemes, NEW attrs \in SUBSET Attributes,
           c.kind = "compare", Parses(z, Compile(s, c))
    PROVE  \/ /\ c.op \in {"==", "in", ">="}
              /\ Satisfies(z, attrs, Compile(s, c)) <=> \E v \in c.vals : <<c.attr, v>> \in attrs
           \/ /\ c.op \in {"!=", "not in"} /\ s # "tkn20"
              /\ Satisfies(z, attrs, Compile(s, c)) <=>
                    \E v \in AllowedValues(c.attr) \ c.vals : <<c.attr, v>> \in attrs
           \/ /\ c.op \in {"!=", "not in"} /\ z = "tkn20" /\ c.vals # {}
              /\ Satisfies(z, attrs, Compile(s, c)) <=>
                    \A v \in c.vals : Another(attrs, c.attr, v)
<1>1. c.op \in {"==", "in", ">=", "!=", "not in"}
  BY VocabularyAssumption
<1>2. Compile(s, c) = IF c.op \in {"!=", "not in"} THEN NoneOf(s, c.attr, c.vals) ELSE AnyOf(c.attr, c.vals)
  BY TextsEquation DEF TextOf
<1>3. Compile(s, c) \in Terms /\ Operands(Compile(s, c)) \subseteq Terms
  BY TextsAreTerms
<1>4. CASE c.op \notin {"!=", "not in"}
  <2> DEFINE t == AnyOf(c.attr, c.vals)
  <2>1. Compile(s, c) = t
    BY <1>2, <1>4
  <2>2. t \in Terms /\ Operands(t) \subseteq Terms /\ Parses(z, t)
    BY <1>3, <2>1
  <2>3. Satisfies(z, attrs, t) <=> \E v \in c.vals : <<c.attr, v>> \in attrs
    BY <2>2, AnyOfReadAs
  <2> HIDE DEF t
  <2>4. QED
    BY <1>1, <1>4, <2>1, <2>3
<1>5. CASE c.op \in {"!=", "not in"} /\ s # "tkn20"
  <2> DEFINE vals == AllowedValues(c.attr) \ c.vals
             t == AnyOf(c.attr, vals)
  <2>1. Compile(s, c) = t
    BY <1>2, <1>5 DEF NoneOf
  <2> HIDE DEF vals
  <2>2. t \in Terms /\ Operands(t) \subseteq Terms /\ Parses(z, t)
    BY <1>3, <2>1
  <2>3. Satisfies(z, attrs, t) <=> \E v \in vals : <<c.attr, v>> \in attrs
    BY <2>2, AnyOfReadAs
  <2> HIDE DEF t
  <2>4. QED
    BY <1>5, <2>1, <2>3 DEF vals
<1>6. CASE c.op \in {"!=", "not in"} /\ s = "tkn20"
  <2> DEFINE t == NoneOf("tkn20", c.attr, c.vals)
  <2>1. Compile(s, c) = t
    BY <1>2, <1>6
  <2>2. t \in Terms /\ Operands(t) \subseteq Terms /\ Parses(z, t)
    BY <1>3, <2>1
  <2>3. /\ z = "tkn20" /\ c.vals # {}
        /\ Satisfies(z, attrs, t) <=> \A v \in c.vals : Another(attrs, c.attr, v)
    BY <2>2, NoneOfReadAs
  <2> HIDE DEF t
  <2>4. QED
    BY <1>6, <2>1, <2>3
<1>7. QED
  BY <1>4, <1>5, <1>6

LEMMA CompareSound ==
    ASSUME NEW c \in Parts, NEW s \in Schemes, NEW z \in Schemes, NEW p \in Profiles,
           NEW attrs \in SUBSET Expand(Plainly(p)), z = "tkn20" => OneOfEach(attrs),
           c.kind = "compare", Parses(z, Compile(s, c)), Satisfies(z, attrs, Compile(s, c))
    PROVE  Admits(p, c)
<1> DEFINE mine == {p[c.attr]} \cup Below(c.attr, p[c.attr])
<1>1. attrs \in SUBSET Attributes
  BY PlainAttributesAreAttributes
<1>2. \A x \in attrs : \E v \in {p[x[1]]} \cup Below(x[1], p[x[1]]) : x = <<x[1], v>>
  <2>1. ASSUME NEW x \in attrs
        PROVE  \E v \in {p[x[1]]} \cup Below(x[1], p[x[1]]) : x = <<x[1], v>>
    <3>1. x \in Expand(Plainly(p))
      OBVIOUS
    <3>2. PICK a \in DOMAIN p : \E v \in {p[a]} \cup Below(a, p[a]) : x = <<a, v>>
      BY <3>1, PlainAttributes
    <3>3. QED
      BY <3>2
  <2>2. QED
    BY <2>1
<1>3. \A x \in attrs : x[1] = c.attr => x[2] \in mine
  BY <1>2
<1>4. SUFFICES \E v \in mine : CompareValue(v, c.op, c.vals) = "true"
  BY AdmitsIf
<1>5. CASE c.op \in {"==", "in", ">="} /\ \E v \in c.vals : <<c.attr, v>> \in attrs
  <2>1. PICK v \in c.vals : <<c.attr, v>> \in attrs
    BY <1>5
  <2>2. v \in mine
    BY <2>1, <1>3
  <2>3. v # "None" /\ (c.op = ">=" => c.vals = {v} /\ AtLeast(v, v))
    BY VocabularyAssumption
  <2>4. CompareValue(v, c.op, c.vals) = "true"
    BY <1>5, <2>3 DEF CompareValue, Truth
  <2>5. QED
    BY <2>2, <2>4
<1>6. CASE c.op \in {"!=", "not in"} /\ \E v \in AllowedValues(c.attr) \ c.vals : <<c.attr, v>> \in attrs
  <2>1. PICK v \in AllowedValues(c.attr) \ c.vals : <<c.attr, v>> \in attrs
    BY <1>6
  <2>2. v \in mine
    BY <2>1, <1>3
  <2>3. CompareValue(v, c.op, c.vals) = "true"
    BY <1>6 DEF CompareValue, Truth
  <2>4. QED
    BY <2>2, <2>3
<1>7. CASE /\ c.op \in {"!=", "not in"} /\ z = "tkn20" /\ c.vals # {}
           /\ \A v \in c.vals : Another(attrs, c.attr, v)
  <2>1. PICK x \in attrs : x[1] = c.attr
    BY <1>7 DEF Another
  <2>2. \A y \in attrs : y[1] = c.attr => y = x
    <3>1. OneOfEach(attrs)
      BY <1>7
    <3>2. QED
      BY <3>1, <2>1 DEF OneOfEach
  <2>3. x[2] \notin c.vals /\ x[2] \in mine
    BY <1>3, <1>7, <2>1, <2>2 DEF Another
  <2>4. CompareValue(x[2], c.op, c.vals) = "true"
    BY <1>7, <2>3 DEF CompareValue, Truth
  <2>5. QED
    BY <2>3, <2>4
<1>8. QED
  <2> HIDE DEF mine
  <2>1. \/ c.op \in {"==", "in", ">="} /\ \E v \in c.vals : <<c.attr, v>> \in attrs
        \/ c.op \in {"!=", "not in"} /\ \E v \in AllowedValues(c.attr) \ c.vals : <<c.attr, v>> \in attrs
        \/ /\ c.op \in {"!=", "not in"} /\ z = "tkn20" /\ c.vals # {}
           /\ \A v \in c.vals : Another(attrs, c.attr, v)
    BY <1>1, CompareReadAs
  <2>2. QED
    BY <2>1, <1>5, <1>6, <1>7

(***************************************************************************)
(* The compiler is sound: a key made of no more than a user's attributes   *)
(* opens the text of a condition, compiled for either scheme and used with *)
(* either, only if the condition is meant to admit him.                    *)
(***************************************************************************)
THEOREM CompilerSound ==
    ASSUME NEW s \in Schemes, NEW z \in Schemes, NEW p \in Profiles,
           NEW attrs \in SUBSET Expand(Plainly(p)), z = "tkn20" => OneOfEach(attrs),
           NEW c \in Parts, Parses(z, Compile(s, c)), Satisfies(z, attrs, Compile(s, c))
    PROVE  Admits(p, c)
<1> DEFINE Opens(d) == Parses(z, Compile(s, d)) /\ Satisfies(z, attrs, Compile(s, d))
           Good == {d \in Parts : Opens(d) => Admits(p, d)}
<1>1. ASSUME NEW d \in Parts, \A i \in DOMAIN Args(d) : Args(d)[i] \in Good, Opens(d)
      PROVE  Admits(p, d)
  <2>1. CASE d.kind = "compare"
    BY <1>1, <2>1, CompareSound
  <2>2. CASE d.kind = "not"
    <3>1. Compile(s, d) = Empty
      BY <2>2, TextsEquation DEF TextOf
    <3>2. Empty \in Terms /\ Parses(z, Empty)
      BY <1>1, <3>1, TextsAreTerms
    <3>3. Empty.kind # "empty"
      BY <3>2, ParsedAs
    <3>4. QED
      BY <3>3 DEF Empty
  <2>3. CASE d.kind \in {"and", "or"}
    <3>1. Args(d) = d.args
      BY <2>3, PartKinds
    <3>2. attrs \in SUBSET Attributes
      BY PlainAttributesAreAttributes
    <3>3. /\ \A i \in DOMAIN d.args : Parses(z, Compile(s, d.args[i]))
          /\ d.kind = "and" => \A i \in DOMAIN d.args : Satisfies(z, attrs, Compile(s, d.args[i]))
          /\ d.kind = "or" => \E i \in DOMAIN d.args : Satisfies(z, attrs, Compile(s, d.args[i]))
      BY <1>1, <2>3, <3>2, GroupReadAs
    <3>4. \A i \in DOMAIN d.args : Satisfies(z, attrs, Compile(s, d.args[i])) => Admits(p, d.args[i])
      BY <1>1, <3>1, <3>3
    <3>5. QED
      BY <2>3, <3>3, <3>4, AdmitsIf
  <2>4. QED
    BY <2>1, <2>2, <2>3, PartKinds
<1>2. \A d \in Parts : (\A i \in DOMAIN Args(d) : Args(d)[i] \in Good) => d \in Good
  BY <1>1
<1>3. Parts \subseteq Good
  <2> HIDE DEF Good
  <2>1. QED
    BY <1>2, ConditionInduction
<1>4. QED
  BY <1>3

\* The key holds the user's own value of each attribute the condition compares, and none has an order.
Covers(attrs, p, c) ==
    \A l \in Leaves[c] : p[l.attr] # "None" /\ l.op # ">=" /\ <<l.attr, p[l.attr]>> \in attrs

LEMMA LeavesAre ==
    ASSUME NEW c \in Parts
    PROVE  /\ c.kind = "compare" => Leaves[c] = {c}
           /\ c.kind # "compare" => \A i \in DOMAIN c.args : Leaves[c.args[i]] \subseteq Leaves[c]
<1> DEFINE parts == [i \in DOMAIN Args(c) |-> Leaves[Args(c)[i]]]
<1>1. Leaves[c] = LeavesOf(c, parts)
  BY LeavesEquation
<1>2. ASSUME c.kind # "compare", NEW i \in DOMAIN c.args
      PROVE  Leaves[c.args[i]] \subseteq Leaves[c]
  <2>1. i \in DOMAIN parts /\ parts[i] = Leaves[c.args[i]]
    BY <1>2 DEF Args
  <2> HIDE DEF parts
  <2>2. Leaves[c] = UNION Range(parts)
    BY <1>1, <1>2 DEF LeavesOf
  <2>3. QED
    BY <2>1, <2>2 DEF Range
<1>3. QED
  BY <1>1, <1>2 DEF LeavesOf

LEMMA CompareComplete ==
    ASSUME NEW c \in Parts, NEW s \in Schemes, NEW z \in Schemes, NEW p \in Profiles,
           NEW attrs \in SUBSET Attributes, Covers(attrs, p, c),
           c.kind = "compare", Parses(z, Compile(s, c)), Evaluates(p, c)
    PROVE  Satisfies(z, attrs, Compile(s, c))
<1> DEFINE mine == p[c.attr]
<1>1. mine # "None" /\ c.op # ">=" /\ <<c.attr, mine>> \in attrs
  BY LeavesAre DEF Covers
<1>2. mine \in AllowedValues(c.attr)
  BY <1>1, VocabularyAssumption
<1>3. CompareValue(mine, c.op, c.vals) = "true"
  BY EvaluatesAs
<1> HIDE DEF mine
<1>4. /\ c.op \in {"==", "in"} => mine \in c.vals
      /\ c.op \in {"!=", "not in"} => mine \notin c.vals
  BY <1>3 DEF CompareValue, Truth
<1>5. \A v \in c.vals : mine # v => Another(attrs, c.attr, v)
  BY <1>1 DEF Another
<1>6. QED
  BY <1>1, <1>2, <1>4, <1>5, CompareReadAs

(***************************************************************************)
(* The compiler is complete for equations and memberships: a key with the  *)
(* values of a user a condition holds of opens its text, compiled for      *)
(* either scheme, if the library parses it and the user has every          *)
(* attribute the condition compares.                                       *)
(***************************************************************************)
THEOREM CompilerComplete ==
    ASSUME NEW s \in Schemes, NEW z \in Schemes, NEW p \in Profiles,
           NEW attrs \in SUBSET Attributes, NEW c \in Parts,
           Covers(attrs, p, c), Parses(z, Compile(s, c)), Evaluates(p, c)
    PROVE  Satisfies(z, attrs, Compile(s, c))
<1> DEFINE Holds(d) == Covers(attrs, p, d) /\ Parses(z, Compile(s, d)) /\ Evaluates(p, d)
           Good == {d \in Parts : Holds(d) => Satisfies(z, attrs, Compile(s, d))}
<1>1. ASSUME NEW d \in Parts, \A i \in DOMAIN Args(d) : Args(d)[i] \in Good, Holds(d)
      PROVE  Satisfies(z, attrs, Compile(s, d))
  <2>1. CASE d.kind = "compare"
    BY <1>1, <2>1, CompareComplete
  <2>2. CASE d.kind = "not"
    <3>1. Compile(s, d) = Empty
      BY <2>2, TextsEquation DEF TextOf
    <3>2. Empty \in Terms /\ Parses(z, Empty)
      BY <1>1, <3>1, TextsAreTerms
    <3>3. Empty.kind # "empty"
      BY <3>2, ParsedAs
    <3>4. QED
      BY <3>3 DEF Empty
  <2>3. CASE d.kind \in {"and", "or"}
    <3>1. Args(d) = d.args
      BY <2>3, PartKinds
    <3>2. \A i \in DOMAIN d.args : Covers(attrs, p, d.args[i])
      BY <1>1, <2>3, LeavesAre DEF Covers
    <3>3. \A i \in DOMAIN d.args : Parses(z, Compile(s, d.args[i]))
      BY <1>1, <2>3, GroupReadAs
    <3>4. \A i \in DOMAIN d.args :
            Evaluates(p, d.args[i]) => Satisfies(z, attrs, Compile(s, d.args[i]))
      BY <1>1, <3>1, <3>2, <3>3
    <3>5. /\ d.kind = "and" => \A i \in DOMAIN d.args : Evaluates(p, d.args[i])
          /\ d.kind = "or" => \E i \in DOMAIN d.args : Evaluates(p, d.args[i])
      BY <1>1, EvaluatesAs
    <3>6. CASE d.kind = "and"
      <4>1. \A i \in DOMAIN d.args : Satisfies(z, attrs, Compile(s, d.args[i]))
        BY <3>4, <3>5, <3>6
      <4>2. QED
        BY <1>1, <3>6, <4>1, GroupReadAs
    <3>7. CASE d.kind = "or"
      <4>1. \E i \in DOMAIN d.args : Satisfies(z, attrs, Compile(s, d.args[i]))
        BY <3>4, <3>5, <3>7
      <4>2. QED
        BY <1>1, <3>7, <4>1, GroupReadAs
    <3>8. QED
      BY <2>3, <3>6, <3>7
  <2>4. QED
    BY <2>1, <2>2, <2>3, PartKinds
<1>2. \A d \in Parts : (\A i \in DOMAIN Args(d) : Args(d)[i] \in Good) => d \in Good
  BY <1>1
<1>3. Parts \subseteq Good
  <2> HIDE DEF Good
  <2>1. QED
    BY <1>2, ConditionInduction
<1>4. QED
  BY <1>3

--------------------------------------------------------------------------------
LEMMA AnyOfHasTokens ==
    ASSUME NEW attr, NEW vals, vals # {}
    PROVE  /\ \E v \in vals : TRUE
           /\ AnyOf(attr, vals).tokens = {<<attr, v>> : v \in vals}
<1>1. AnyOf(attr, vals).tokens = UNION {t.tokens : t \in {Has(attr, v) : v \in vals}}
  BY DEF AnyOf, Join
<1>2. \A v \in vals : Has(attr, v).tokens = {<<attr, v>>}
  BY DEF Has
<1>3. UNION {t.tokens : t \in {Has(attr, v) : v \in vals}} = {<<attr, v>> : v \in vals}
  BY <1>2
<1>4. QED
  BY <1>1, <1>3

LEMMA CompareTokensOpen ==
    ASSUME NEW c \in Parts, NEW s \in Schemes, NEW attrs \in SUBSET Attributes,
           c.kind = "compare", Parses("ac17", Compile(s, c)), Compile(s, c).tokens \subseteq attrs
    PROVE  Satisfies("ac17", attrs, Compile(s, c))
<1> DEFINE t == Compile(s, c)
<1>1. t \in Terms /\ Operands(t) \subseteq Terms /\ "ac17" \in Schemes
  BY TextsAreTerms DEF Schemes
<1>2. PICK vals : t = AnyOf(c.attr, vals)
  <2>1. t = IF c.op \in {"!=", "not in"} THEN NoneOf(s, c.attr, c.vals) ELSE AnyOf(c.attr, c.vals)
    BY TextsEquation DEF TextOf
  <2>2. CASE c.op \notin {"!=", "not in"}
    BY <2>1, <2>2
  <2>3. CASE c.op \in {"!=", "not in"} /\ s # "tkn20"
    BY <2>1, <2>3 DEF NoneOf
  <2>4. CASE c.op \in {"!=", "not in"} /\ s = "tkn20"
    <3> DEFINE u == NoneOf("tkn20", c.attr, c.vals)
    <3>1. t = u
      BY <2>1, <2>4
    <3>2. u \in Terms /\ Operands(u) \subseteq Terms /\ Parses("ac17", u)
      BY <1>1, <3>1
    <3> HIDE DEF t
    <3>3. "ac17" = "tkn20"
      BY <1>1, <3>2, NoneOfReadAs
    <3>4. QED
      BY <3>3
  <2>5. QED
    BY <2>2, <2>3, <2>4
<1> HIDE DEF t
<1>3. vals # {}
  <2>1. t.kind # "empty"
    BY <1>1, ParsedAs DEF t
  <2>2. QED
    BY <1>2, <2>1 DEF AnyOf, Empty
<1>4. PICK v \in vals : <<c.attr, v>> \in t.tokens
  BY <1>2, <1>3, AnyOfHasTokens
<1>5. <<c.attr, v>> \in attrs
  BY <1>4 DEF t
<1> DEFINE u == AnyOf(c.attr, vals)
<1>6. u \in Terms /\ Operands(u) \subseteq Terms /\ Parses("ac17", u)
  BY <1>1, <1>2 DEF t
<1>7. Satisfies("ac17", attrs, u)
  BY <1>1, <1>5, <1>6, AnyOfReadAs
<1>8. QED
  BY <1>2, <1>7 DEF t

(***************************************************************************)
(* What the owner relies on: every token of a text opens it, under AC17,   *)
(* if the library parses it at all.                                        *)
(***************************************************************************)
THEOREM TokensOpen ==
    ASSUME NEW s \in Schemes, NEW attrs \in SUBSET Attributes, NEW c \in Parts,
           Parses("ac17", Compile(s, c)), Compile(s, c).tokens \subseteq attrs
    PROVE  Satisfies("ac17", attrs, Compile(s, c))
<1> DEFINE Holds(d) == Parses("ac17", Compile(s, d)) /\ Compile(s, d).tokens \subseteq attrs
           Good == {d \in Parts : Holds(d) => Satisfies("ac17", attrs, Compile(s, d))}
<1>0. "ac17" \in Schemes
  BY DEF Schemes
<1>1. ASSUME NEW d \in Parts, \A i \in DOMAIN Args(d) : Args(d)[i] \in Good, Holds(d)
      PROVE  Satisfies("ac17", attrs, Compile(s, d))
  <2>1. CASE d.kind = "compare"
    BY <1>1, <2>1, CompareTokensOpen
  <2>2. CASE d.kind = "not"
    <3>1. Compile(s, d) = Empty
      BY <2>2, TextsEquation DEF TextOf
    <3>2. Empty \in Terms /\ Parses("ac17", Empty)
      BY <1>1, <3>1, TextsAreTerms
    <3>3. Empty.kind # "empty"
      BY <1>0, <3>2, ParsedAs
    <3>4. QED
      BY <3>3 DEF Empty
  <2>3. CASE d.kind \in {"and", "or"}
    <3>1. Args(d) = d.args /\ \E i \in DOMAIN d.args : TRUE
      <4>1. Args(d) = d.args /\ d.args # << >> /\ \E n \in Nat : DOMAIN d.args = 1..n
        BY <2>3, PartKinds
      <4>2. d.args \in Seq(Parts)
        BY <2>3, PartsAssumption
      <4>3. QED
        BY <4>1, <4>2
    <3>2. \A i \in DOMAIN d.args : Parses("ac17", Compile(s, d.args[i]))
      BY <1>0, <1>1, <2>3, GroupReadAs
    <3>3. ASSUME NEW i \in DOMAIN d.args
          PROVE  Compile(s, d.args[i]).tokens \subseteq attrs
      <4> DEFINE texts == {Compile(s, d.args[j]) : j \in DOMAIN d.args}
      <4>1. Compile(s, d).tokens = UNION {t.tokens : t \in texts}
        BY <2>3, GroupText DEF Join
      <4>2. Compile(s, d.args[i]) \in texts
        OBVIOUS
      <4> HIDE DEF texts
      <4>3. QED
        BY <1>1, <4>1, <4>2
    <3>4. \A i \in DOMAIN d.args : Satisfies("ac17", attrs, Compile(s, d.args[i]))
      BY <1>1, <3>1, <3>2, <3>3
    <3>5. QED
      BY <1>0, <1>1, <2>3, <3>1, <3>4, GroupReadAs
  <2>4. QED
    BY <2>1, <2>2, <2>3, PartKinds
<1>2. \A d \in Parts : (\A i \in DOMAIN Args(d) : Args(d)[i] \in Good) => d \in Good
  BY <1>1
<1>3. Parts \subseteq Good
  <2> HIDE DEF Good
  <2>1. QED
    BY <1>2, ConditionInduction
<1>4. QED
  BY <1>3

--------------------------------------------------------------------------------
(***************************************************************************)
(* Keys and ciphertexts.  There is one key set of each scheme.             *)
(***************************************************************************)
LEMMA KeysHold ==
    ASSUME NEW z \in Schemes, NEW attrs, NEW sk \in GenKey(KeySet(z, 1), attrs)
    PROVE  /\ sk.scheme = z /\ sk.set = 1 /\ sk.attrs \subseteq attrs
           /\ z = "ac17" => sk.attrs = attrs
           /\ z = "tkn20" => OneOfEach(sk.attrs) /\ \A a \in attrs : \E b \in sk.attrs : b[1] = a[1]
<1>1. CASE z = "ac17"
  BY <1>1 DEF GenKey, KeySet, Ac17GenKey, Tkn20GenKey
<1>2. CASE z = "tkn20"
  <2> DEFINE kept(S) == {a[1] : a \in S} = {a[1] : a \in attrs} /\ \A a, b \in S : a[1] = b[1] => a = b
  <2>1. sk \in {[scheme |-> "tkn20", set |-> 1, attrs |-> k] : k \in {S \in SUBSET attrs : kept(S)}}
    BY <1>2 DEF GenKey, KeySet, Ac17GenKey, Tkn20GenKey
  <2>2. PICK k \in SUBSET attrs : kept(k) /\ sk = [scheme |-> "tkn20", set |-> 1, attrs |-> k]
    BY <2>1
  <2>3. \A a \in attrs : \E b \in k : b[1] = a[1]
    <3>1. ASSUME NEW a \in attrs
          PROVE  a[1] \in {b[1] : b \in k}
      BY <2>2
    <3>2. QED
      BY <3>1
  <2>4. OneOfEach(k)
    BY <2>2 DEF OneOfEach
  <2>5. QED
    BY <1>2, <2>2, <2>3, <2>4
<1>3. QED
  BY <1>1, <1>2 DEF Schemes

\* What upload writes of a text under scheme z, as version n.
Ciphertext(z, text, n) ==
    [version |-> 2, scheme |-> z, capsule |-> [scheme |-> z, set |-> 1, policy |-> text],
     payload |-> [signer |-> 1, policy |-> text, data |-> n]]

LEMMA Encrypts ==
    ASSUME NEW z \in Schemes, NEW text, NEW n
    PROVE  LET result == EncryptBufferAndSign(KeySet(z, 1), 1, n, text, z)
           IN  Succeeded(result) => Parses(z, text) /\ result.out = Ciphertext(z, text, n)
<1> DEFINE result == EncryptBufferAndSign(KeySet(z, 1), 1, n, text, z)
           capsule == IF z = "ac17" THEN Ac17Encapsulate(KeySet(z, 1), text)
                      ELSE Tkn20Encapsulate(KeySet(z, 1), text)
<1>1. result = IF ~Succeeded(capsule) THEN capsule
               ELSE Done([version |-> 2, scheme |-> z, capsule |-> capsule.out,
                          payload |-> [signer |-> 1, policy |-> text, data |-> n]])
  BY DEF EncryptBufferAndSign, EncryptBuffer
<1>2. Succeeded(capsule) => Parses(z, text) /\ capsule.out = [scheme |-> z, set |-> 1, policy |-> text]
  BY DEF Ac17Encapsulate, Tkn20Encapsulate, KeySet, Capsule, Succeeded, Done, Fail, Schemes
<1> HIDE DEF capsule, result
<1>3. Succeeded(result) => Succeeded(capsule)
  BY <1>1
<1>4. Succeeded(capsule) => result.out = Ciphertext(z, text, n)
  BY <1>1, <1>2 DEF Done, Ciphertext
<1>5. QED
  BY <1>2, <1>3, <1>4 DEF result

LEMMA Decrypts ==
    ASSUME NEW z \in Schemes, NEW text, NEW n, NEW s \in Schemes, NEW attrs, NEW sk \in GenKey(KeySet(s, 1), attrs)
    PROVE  Succeeded(DecryptBufferAndVerify(sk, 1, Ciphertext(z, text, n))) <=>
                s = z /\ Satisfies(z, sk.attrs, text)
<1> DEFINE ct == Ciphertext(z, text, n)
           key == IF z = "ac17" THEN Ac17Decapsulate(sk, ct.capsule) ELSE Tkn20Decapsulate(sk, ct.capsule)
<1>1. sk.scheme = s /\ sk.set = 1
  BY KeysHold
<1>2. ct.version = 2 /\ ct.scheme = z /\ ct.capsule.scheme = z /\ ct.capsule.set = 1
      /\ ct.capsule.policy = text /\ ct.payload.signer = 1
  BY DEF Ciphertext
<1> HIDE DEF ct
<1>3. Succeeded(key) <=> s = z /\ Satisfies(z, sk.attrs, text)
  BY <1>1, <1>2 DEF Ac17Decapsulate, Tkn20Decapsulate, Succeeded, Done, Fail, Schemes
<1>4. DecryptBuffer(sk, ct) = IF Succeeded(key) THEN Done(ct.payload) ELSE key
  BY <1>2 DEF DecryptBuffer
<1> HIDE DEF key
<1>5. Succeeded(DecryptBuffer(sk, ct)) <=> Succeeded(key)
  BY <1>4 DEF Succeeded, Done
<1>6. Succeeded(key) => DecryptBuffer(sk, ct).out.signer = 1
  BY <1>2, <1>4 DEF Done
<1>7. Succeeded(DecryptBufferAndVerify(sk, 1, ct)) <=> Succeeded(key)
  BY <1>5, <1>6 DEF DecryptBufferAndVerify, Succeeded, Done, Unsigned
<1>8. QED
  BY <1>3, <1>7 DEF ct

--------------------------------------------------------------------------------
(***************************************************************************)
(* The attributes of a request.                                            *)
(***************************************************************************)
LEMMA LeavesCompare ==
    ASSUME NEW c \in Parts, NEW l \in Leaves[c]
    PROVE  l \in Parts /\ l.kind = "compare"
<1> DEFINE Good == {d \in Parts : \A m \in Leaves[d] : m \in Parts /\ m.kind = "compare"}
<1>1. ASSUME NEW d \in Parts, \A i \in DOMAIN Args(d) : Args(d)[i] \in Good
      PROVE  d \in Good
  <2> DEFINE parts == [i \in DOMAIN Args(d) |-> Leaves[Args(d)[i]]]
  <2>1. Leaves[d] = LeavesOf(d, parts)
    BY LeavesEquation
  <2>2. CASE d.kind = "compare"
    BY <2>1, <2>2 DEF LeavesOf
  <2>3. CASE d.kind # "compare"
    <3>1. \A i \in DOMAIN parts : \A m \in parts[i] : m \in Parts /\ m.kind = "compare"
      BY <1>1
    <3> HIDE DEF parts
    <3>2. Leaves[d] = UNION Range(parts)
      BY <2>1, <2>3 DEF LeavesOf
    <3>3. QED
      BY <3>1, <3>2 DEF Range
  <2>4. QED
    BY <2>2, <2>3
<1> HIDE DEF Good
<1>2. Parts \subseteq Good
  BY <1>1, ConditionInduction
<1>3. QED
  BY <1>2 DEF Good

\* A token names an attribute that every user has a place for.
Named(t) == t = <<t[1], t[2]>> /\ \A p \in Profiles : t[1] \in DOMAIN p

LEMMA TextTokensNamed ==
    ASSUME NEW c \in Parts, NEW s \in Schemes, NEW t \in Compile(s, c).tokens
    PROVE  Named(t)
<1> DEFINE Good == {d \in Parts : \A u \in Compile(s, d).tokens : Named(u)}
<1>1. ASSUME NEW d \in Parts, \A i \in DOMAIN Args(d) : Args(d)[i] \in Good
      PROVE  d \in Good
  <2> DEFINE parts == [i \in DOMAIN Args(d) |-> Compile(s, Args(d)[i])]
  <2>0. Compile(s, d) = TextOf(d, s, parts)
    BY TextsEquation
  <2>1. CASE d.kind = "compare"
    <3>1. \A p \in Profiles : d.attr \in DOMAIN p
      BY <2>1, VocabularyAssumption
    <3>2. PICK vals : Compile(s, d).tokens \subseteq {<<d.attr, v>> : v \in vals}
      <4>1. \A vals : AnyOf(d.attr, vals).tokens \subseteq {<<d.attr, v>> : v \in vals}
        <5>1. ASSUME NEW vals
              PROVE  AnyOf(d.attr, vals).tokens \subseteq {<<d.attr, v>> : v \in vals}
          BY AnyOfHasTokens DEF AnyOf, Empty
        <5>2. QED
          BY <5>1
      <4>2. NoneOf(s, d.attr, d.vals).tokens \subseteq {<<d.attr, v>> : v \in d.vals \cup AllowedValues(d.attr)}
        <5>1. CASE s = "tkn20" /\ d.vals # {}
          <6>1. NoneOf(s, d.attr, d.vals).tokens = UNION {u.tokens : u \in {HasNot(d.attr, v) : v \in d.vals}}
            BY <5>1 DEF NoneOf, Join
          <6>2. \A v : HasNot(d.attr, v).tokens = {<<d.attr, v>>}
            BY DEF HasNot
          <6>3. QED
            BY <6>1, <6>2
        <5>2. CASE s = "tkn20" /\ d.vals = {}
          BY <5>2 DEF NoneOf, Empty
        <5>3. CASE s # "tkn20"
          BY <5>3, <4>1 DEF NoneOf
        <5>4. QED
          BY <5>1, <5>2, <5>3
      <4>3. QED
        BY <2>0, <2>1, <4>1, <4>2 DEF TextOf
    <3>3. \A u \in Compile(s, d).tokens : Named(u)
      BY <3>1, <3>2 DEF Named
    <3>4. QED
      BY <3>3
  <2>2. CASE d.kind = "not"
    BY <2>0, <2>2 DEF TextOf, Empty
  <2>3. CASE d.kind \in {"and", "or"}
    <3>1. Compile(s, d) = Join(d.kind, {Compile(s, d.args[i]) : i \in DOMAIN d.args})
      BY <2>3, GroupText
    <3>2. \A i \in DOMAIN d.args : d.args[i] \in Good
      BY <1>1, <2>3, PartKinds
    <3>3. \A u \in Compile(s, d).tokens : Named(u)
      BY <3>1, <3>2 DEF Join
    <3>4. QED
      BY <3>3
  <2>4. QED
    BY <2>1, <2>2, <2>3, PartKinds
<1> HIDE DEF Good
<1>2. Parts \subseteq Good
  BY <1>1, ConditionInduction
<1>3. QED
  BY <1>2 DEF Good

\* What padding gives the owner is known to the libraries, and holds every token of the text.
LEMMA PaddedAttributes ==
    ASSUME NEW p \in Profiles, NEW c \in Parts, NEW s \in Schemes
    PROVE  /\ Expand(Pad(Plainly(p), Compile(s, c))) \subseteq Attributes
           /\ Compile(s, c).tokens \subseteq Expand(Pad(Plainly(p), Compile(s, c)))
<1> DEFINE tokens == Compile(s, c).tokens
           plain == Plainly(p)
           named(a) == {t[2] : t \in {u \in tokens : u[1] = a}}
           padded == Pad(plain, Compile(s, c))
           ranks(a) == IF padded[a].list THEN {} ELSE UNION {Below(a, v) : v \in padded[a].vals}
           all(a) == padded[a].vals \cup ranks(a)
<1>1. tokens \subseteq Attributes
  BY TextsAreTerms DEF Attributes
<1>2. Expand(plain) \subseteq Attributes
  BY PlainAttributesAreAttributes
<1>3. DOMAIN plain = DOMAIN p /\ DOMAIN padded = DOMAIN p
  BY DEF Pad, Plainly
<1>4. \A a \in DOMAIN p : padded[a] = IF named(a) \subseteq plain[a].vals THEN plain[a]
                                      ELSE [list |-> TRUE, vals |-> plain[a].vals \cup named(a)]
  BY <1>3 DEF Pad
<1>5. \A t \in tokens : Named(t)
  BY TextTokensNamed
<1>6. Expand(padded) = UNION {{a} \X all(a) : a \in DOMAIN p}
  BY <1>3, Zenon DEF Expand
<1>7. Expand(plain) = UNION {{a} \X (plain[a].vals \cup IF plain[a].list THEN {}
                                     ELSE UNION {Below(a, v) : v \in plain[a].vals}) : a \in DOMAIN p}
  BY <1>3, Zenon DEF Expand
<1> HIDE DEF tokens, plain, padded
<1>8. ASSUME NEW x \in Expand(padded)
      PROVE  x \in Attributes
  <2>1. PICK a \in DOMAIN p : \E v \in all(a) : x = <<a, v>>
    <3> HIDE DEF all
    <3>1. QED
      BY <1>6
  <2>2. PICK v \in all(a) : x = <<a, v>>
    BY <2>1
  <2>3. CASE named(a) \subseteq plain[a].vals
    <3>1. padded[a] = plain[a]
      BY <1>4, <2>3
    <3>2. v \in plain[a].vals \cup IF plain[a].list THEN {} ELSE UNION {Below(a, w) : w \in plain[a].vals}
      BY <2>2, <3>1
    <3>3. x \in Expand(plain)
      BY <1>7, <2>2, <3>2
    <3>4. QED
      BY <1>2, <3>3
  <2>4. CASE ~(named(a) \subseteq plain[a].vals)
    <3>1. v \in plain[a].vals \/ v \in named(a)
      <4> HIDE DEF named
      <4>1. padded[a] = [list |-> TRUE, vals |-> plain[a].vals \cup named(a)]
        BY <1>4, <2>4, Zenon
      <4>2. padded[a].list = TRUE /\ padded[a].vals = plain[a].vals \cup named(a)
        BY <4>1
      <4>3. QED
        BY <2>2, <4>2
    <3>2. CASE v \in plain[a].vals
      BY <1>2, <1>7, <2>2, <3>2
    <3>3. CASE v \in named(a)
      <4>1. PICK t \in tokens : t[1] = a /\ t[2] = v
        BY <3>3
      <4>2. t = x
        BY <1>5, <2>2, <4>1 DEF Named
      <4>3. QED
        BY <1>1, <4>2
    <3>4. QED
      BY <3>1, <3>2, <3>3
  <2>5. QED
    BY <2>3, <2>4
<1>9. ASSUME NEW t \in tokens
      PROVE  t \in Expand(padded)
  <2>1. t = <<t[1], t[2]>> /\ t[1] \in DOMAIN p
    BY <1>5 DEF Named
  <2>2. t[2] \in named(t[1])
    OBVIOUS
  <2>3. t[2] \in padded[t[1]].vals
    <3>1. CASE named(t[1]) \subseteq plain[t[1]].vals
      BY <1>4, <2>1, <2>2, <3>1
    <3>2. CASE ~(named(t[1]) \subseteq plain[t[1]].vals)
      <4>1. padded[t[1]] = [list |-> TRUE, vals |-> plain[t[1]].vals \cup named(t[1])]
        BY <1>4, <2>1, <3>2
      <4>2. padded[t[1]].vals = plain[t[1]].vals \cup named(t[1])
        BY <4>1
      <4>3. QED
        BY <2>2, <4>2
    <3>3. QED
      BY <3>1, <3>2
  <2>4. t[2] \in all(t[1])
    BY <2>3
  <2> HIDE DEF all
  <2>5. QED
    BY <1>6, <2>1, <2>4
<1>10. QED
  BY <1>8, <1>9 DEF tokens, plain, padded

--------------------------------------------------------------------------------
(***************************************************************************)
(* The inductive invariant.  A version was written for a text that its     *)
(* condition compiles to, under whichever scheme it was saved and under    *)
(* whichever it was encrypted.  A key, cached or in use, was generated     *)
(* from the attributes it is filed under, and a cached "allowed" was true  *)
(* of the policy at some time, unless the attributes changed meanwhile.    *)
(* The upload under way keeps its scheme and its place.                    *)
(***************************************************************************)
Numbers == 1..MaxChanges + 1

Written(v) ==
    /\ v.condition \in Conditions
    /\ \E s \in Schemes : v.text = Compile(s, v.condition)
    /\ \/ ~Sealed(v) /\ v.object = Plaintext
       \/ Sealed(v) /\ \E z \in Schemes, n \in Numbers :
                            Parses(z, v.text) /\ v.object = Ciphertext(z, v.text, n)

Versions ==
    {v \in [text : CpabePolicies,
            object : {Plaintext} \cup {Ciphertext(z, t, n) : z \in Schemes, t \in CpabePolicies, n \in Numbers},
            condition : Conditions] : Written(v)}

\* The row, the policy and the bounded counter.
RowInv ==
    /\ scheme \in Schemes /\ copies \subseteq Schemes /\ rowScheme \in copies /\ torn \in BOOLEAN
    /\ profile \in [Users -> Profiles]
    /\ policy.condition \in past /\ past \subseteq Conditions
    /\ \E s \in Schemes : policy.text = Compile(s, policy.condition)
    /\ changes \in 0..MaxChanges

VersionsInv == versions \in Seq(Versions) /\ Len(versions) \in 1..changes + 1

PendingInv == upload = NoUpload \/
    /\ DOMAIN upload = {"step", "version", "scheme"}
    /\ upload.step \in {"stored", "saved"} /\ upload.version \in Versions /\ upload.scheme \in Schemes
    /\ Len(versions) <= changes
    /\ Sealed(upload.version) => upload.version.object.scheme = upload.scheme
    /\ Sealed(upload.version) /\ upload.step = "saved" => torn \/ rowScheme = upload.scheme

KeysInv == \A k \in keys :
    k.user \in Users /\ k.scheme \in Schemes /\ k.key \in GenKey(KeySet(k.scheme, 1), Expand(k.attrs))

AllowedInv == \A a \in allowed :
    /\ a.user \in Users /\ a.profile \in Profiles /\ a.ok \in BOOLEAN /\ a.crossed \in BOOLEAN
    /\ a.ok => a.crossed \/ \E c \in past : Evaluates(a.profile, c)

\* The key of a request was generated from the attributes it read.
HasKey(u) == job[u].key \in
    GenKey(KeySet(job[u].scheme, 1), Expand(KeyAttributes(u, job[u].version, job[u].profile)))

Opens(u) == Succeeded(DecryptBufferAndVerify(job[u].key, 1, Read(u).object))

\* A request at the gate asks with the attributes its user has or had, and crosses their change.
GateJob(u) ==
    LET j == job[u]
        held == j.crossed \/ \E c \in past : Evaluates(j.asked, c)
    IN  /\ DOMAIN j = DOMAIN Idle
        /\ j.pc \in GatePcs /\ j.asked \in Profiles /\ j.ok \in BOOLEAN /\ j.crossed \in BOOLEAN
        /\ j.pc = "gate" => j.crossed \/ j.asked = profile[u]
        /\ j.pc = "evaluate" => j.crossed \/ j.asked = j.profile
        /\ j.pc = "fill" /\ j.ok => held
        /\ j.pc = "passed" => held

DownloadJob(u) ==
    /\ DOMAIN job[u] = DOMAIN Idle
    /\ job[u].pc \in DownloadPcs
    /\ job[u].version \in DOMAIN versions
    /\ job[u].scheme \in Schemes /\ job[u].profile \in Profiles
    /\ job[u].pc # "served" => Sealed(Read(u))
    /\ job[u].pc \in {"open", "served", "refused"} /\ Sealed(Read(u)) => HasKey(u)
    /\ job[u].pc = "served" /\ Sealed(Read(u)) => Opens(u)
    /\ job[u].pc = "refused" => ~Opens(u)

JobInv(u) == job[u] = Idle \/ GateJob(u) \/ DownloadJob(u)

JobsInv == DOMAIN job = Users /\ \A u \in Users : JobInv(u)

IInv == RowInv /\ VersionsInv /\ PendingInv /\ KeysInv /\ AllowedInv /\ JobsInv /\ RowNamesScheme

--------------------------------------------------------------------------------
(***************************************************************************)
(* The invariant implies the properties.                                   *)
(***************************************************************************)
LEMMA NotPlain ==
    ASSUME NEW z, NEW text, NEW n
    PROVE  Ciphertext(z, text, n) # Plaintext
<1>1. "version" \in DOMAIN Ciphertext(z, text, n)
  BY DEF Ciphertext
<1>2. "version" \notin DOMAIN Plaintext
  BY DEF Plaintext
<1>3. QED
  BY <1>1, <1>2

LEMMA VersionAt ==
    ASSUME VersionsInv, NEW n \in DOMAIN versions
    PROVE  versions[n] \in Versions /\ Written(versions[n])
  BY DEF VersionsInv, Versions

\* An encrypted version that is being read.
LEMMA SealedRead ==
    ASSUME VersionsInv, NEW u \in Users, DownloadJob(u), Sealed(Read(u))
    PROVE  LET v == Read(u) IN
           \E s \in Schemes, z \in Schemes, n \in Numbers :
                /\ v.condition \in Parts /\ v.text = Compile(s, v.condition)
                /\ Parses(z, v.text) /\ v.object = Ciphertext(z, v.text, n) /\ v.object.scheme = z
<1>1. Written(Read(u))
  BY VersionAt DEF DownloadJob, Read
<1>2. Conditions \subseteq Parts
  BY ReadersAssumption
<1>3. \A z, t, n : Ciphertext(z, t, n).scheme = z
  BY DEF Ciphertext
<1>4. QED
  BY <1>1, <1>2, <1>3 DEF Written

\* What the key of a request has, and whether it opens the version.
LEMMA KeyOfRequest ==
    ASSUME VersionsInv, NEW u \in Users, DownloadJob(u), Sealed(Read(u)), HasKey(u)
    PROVE  LET attrs == Expand(KeyAttributes(u, job[u].version, job[u].profile))
               key == job[u].key
           IN  /\ key.scheme = job[u].scheme /\ key.attrs \subseteq attrs
               /\ key.scheme = "ac17" => key.attrs = attrs
               /\ key.scheme = "tkn20" => OneOfEach(key.attrs) /\ \A a \in attrs : \E b \in key.attrs : b[1] = a[1]
               /\ Opens(u) <=> /\ key.scheme = Read(u).object.scheme
                               /\ Satisfies(key.scheme, key.attrs, Read(u).text)
<1> DEFINE attrs == Expand(KeyAttributes(u, job[u].version, job[u].profile))
           key == job[u].key
           v == Read(u)
<1>1. job[u].scheme \in Schemes
  BY DEF DownloadJob
<1>2. key \in GenKey(KeySet(job[u].scheme, 1), attrs)
  BY DEF HasKey
<1>3. PICK z \in Schemes, n \in Numbers : v.object = Ciphertext(z, v.text, n) /\ v.object.scheme = z
  BY SealedRead
<1> HIDE DEF attrs, key, v
<1>4. Succeeded(DecryptBufferAndVerify(key, 1, Ciphertext(z, v.text, n))) <=>
            job[u].scheme = z /\ Satisfies(z, key.attrs, v.text)
  BY <1>1, <1>2, Decrypts
<1>5. /\ key.scheme = job[u].scheme /\ key.attrs \subseteq attrs
      /\ job[u].scheme = "ac17" => key.attrs = attrs
      /\ job[u].scheme = "tkn20" => OneOfEach(key.attrs) /\ \A a \in attrs : \E b \in key.attrs : b[1] = a[1]
  BY <1>1, <1>2, KeysHold
<1>6. Opens(u) <=> key.scheme = v.object.scheme /\ Satisfies(key.scheme, key.attrs, v.text)
  BY <1>3, <1>4, <1>5 DEF Opens, key, v
<1>7. QED
  BY <1>5, <1>6 DEF attrs, key, v

LEMMA InvType == IInv => TypeOK
<1> SUFFICES ASSUME IInv
             PROVE  TypeOK
  OBVIOUS
<1> USE DEF IInv
<1>1. policy.text \in CpabePolicies
  BY DEF RowInv, CpabePolicies
<1>2. Len(versions) \in 1..MaxChanges + 1
  BY ReadersAssumption DEF RowInv, VersionsInv
<1>3. ASSUME NEW v \in Range(versions)
      PROVE  v.text \in CpabePolicies /\ (Sealed(v) <=> v.object # Plaintext)
  <2>1. v \in Versions
    BY <1>3 DEF VersionsInv, Range
  <2>2. Written(v) /\ v.text \in CpabePolicies
    BY <2>1 DEF Versions
  <2>3. QED
    BY <2>2, NotPlain DEF Written
<1>4. ASSUME NEW k \in keys
      PROVE  k.user \in Users /\ k.scheme \in Schemes /\ k.key.scheme = k.scheme
  BY KeysHold DEF KeysInv
<1>5. ASSUME NEW u \in Users
      PROVE  \/ job[u] = Idle
             \/ job[u].pc \in GatePcs /\ job[u].asked \in Profiles
             \/ job[u].pc \in DownloadPcs /\ job[u].version \in DOMAIN versions
  BY DEF JobsInv, JobInv, GateJob, DownloadJob
<1>6. /\ upload.step \in {"none", "stored", "saved"} /\ upload.scheme \in Schemes
      /\ upload.version.text \in CpabePolicies \cup {Empty}
      /\ Sealed(upload.version) <=> upload.version.object # Plaintext
  <2>1. CASE upload = NoUpload
    BY <2>1 DEF NoUpload, Version, Sealed, Schemes
  <2>2. CASE upload # NoUpload
    <3>1. upload.version \in Versions /\ upload.step \in {"none", "stored", "saved"} /\ upload.scheme \in Schemes
      BY <2>2 DEF PendingInv
    <3>2. Written(upload.version) /\ upload.version.text \in CpabePolicies
      BY <3>1 DEF Versions
    <3>3. QED
      BY <3>1, <3>2, NotPlain DEF Written
  <2>3. QED
    BY <2>1, <2>2
<1>7. QED
  BY <1>1, <1>2, <1>3, <1>4, <1>5, <1>6 DEF TypeOK, RowInv, AllowedInv

LEMMA Downloading ==
    ASSUME NEW u \in Users, JobInv(u), job[u].pc \in DownloadPcs
    PROVE  DownloadJob(u)
  BY DEF JobInv, GateJob, Idle, GatePcs, DownloadPcs

LEMMA AtGate ==
    ASSUME NEW u \in Users, JobInv(u), job[u].pc \in GatePcs
    PROVE  GateJob(u)
  BY DEF JobInv, DownloadJob, Idle, GatePcs, DownloadPcs

LEMMA InvNoStaleKey == IInv => NoStaleKey
<1> SUFFICES ASSUME IInv, NEW u \in Users, At(u, "open")
             PROVE  /\ job[u].key.scheme = job[u].scheme
                    /\ job[u].key.attrs \subseteq Expand(KeyAttributes(u, job[u].version, job[u].profile))
  BY DEF NoStaleKey
<1>1. DownloadJob(u)
  BY Downloading DEF IInv, JobsInv, At, DownloadPcs
<1>2. HasKey(u) /\ Sealed(Read(u))
  BY <1>1 DEF DownloadJob, At
<1>3. QED
  BY <1>1, <1>2, KeyOfRequest DEF IInv

LEMMA InvOnlyAdmitted == IInv => OnlyAdmitted
<1> SUFFICES ASSUME IInv, NEW u \in Users \ {Owner}, At(u, "served"), Sealed(Read(u))
             PROVE  Admits(job[u].profile, Read(u).condition)
  BY DEF OnlyAdmitted
<1> DEFINE v == Read(u)
           p == job[u].profile
           attrs == job[u].key.attrs
           z == job[u].key.scheme
<1>1. VersionsInv /\ DownloadJob(u)
  BY Downloading DEF IInv, JobsInv, At, DownloadPcs
<1>2. HasKey(u) /\ Opens(u) /\ p \in Profiles /\ job[u].scheme \in Schemes
  BY <1>1 DEF DownloadJob, At
<1>3. KeyAttributes(u, job[u].version, p) = Plainly(p)
  BY DEF KeyAttributes
<1>4. /\ attrs \subseteq Expand(Plainly(p))
      /\ z \in Schemes
      /\ z = "tkn20" => OneOfEach(attrs)
      /\ z = v.object.scheme /\ Satisfies(z, attrs, v.text)
  BY <1>1, <1>2, <1>3, KeyOfRequest
<1>5. PICK s \in Schemes : v.condition \in Parts /\ v.text = Compile(s, v.condition) /\ Parses(z, v.text)
  BY <1>1, <1>4, SealedRead
<1> HIDE DEF v, p, attrs, z
<1>6. Admits(p, v.condition)
  BY <1>2, <1>4, <1>5, CompilerSound
<1>7. QED
  BY <1>6 DEF v, p

LEMMA InvOwnerOpens == IInv => OwnerOpens
<1> SUFFICES ASSUME IInv, At(Owner, "refused"), job[Owner].scheme = "ac17", Read(Owner).object.scheme = "ac17"
             PROVE  FALSE
  BY DEF OwnerOpens
<1> DEFINE v == Read(Owner)
           p == job[Owner].profile
           attrs == job[Owner].key.attrs
<1>0. Owner \in Users
  BY ReadersAssumption
<1>1. VersionsInv /\ DownloadJob(Owner)
  BY <1>0, Downloading DEF IInv, JobsInv, At, DownloadPcs
<1>2. HasKey(Owner) /\ ~Opens(Owner) /\ p \in Profiles /\ Sealed(v)
  BY <1>1 DEF DownloadJob, At
<1>3. KeyAttributes(Owner, job[Owner].version, p) = Pad(Plainly(p), v.text)
  BY DEF KeyAttributes, Read
<1>4. attrs = Expand(Pad(Plainly(p), v.text)) /\ ~Satisfies("ac17", attrs, v.text)
  BY <1>0, <1>1, <1>2, <1>3, KeyOfRequest
<1>5. PICK s \in Schemes : v.condition \in Parts /\ v.text = Compile(s, v.condition) /\ Parses("ac17", v.text)
  BY <1>0, <1>1, <1>2, SealedRead
<1> HIDE DEF v, p, attrs
<1>6. attrs \subseteq Attributes /\ Compile(s, v.condition).tokens \subseteq attrs
  BY <1>2, <1>4, <1>5, PaddedAttributes
<1>7. Satisfies("ac17", attrs, Compile(s, v.condition))
  BY <1>5, <1>6, TokensOpen
<1>8. QED
  BY <1>4, <1>5, <1>7

LEMMA InvGate == IInv => GateFollowsAttributes
<1> SUFFICES ASSUME IInv, NEW u \in Users \ {Owner}, At(u, "passed")
             PROVE  job[u].crossed \/ \E c \in past : Evaluates(job[u].asked, c)
  BY DEF GateFollowsAttributes
<1>1. GateJob(u)
  BY AtGate DEF IInv, JobsInv, At, GatePcs
<1>2. QED
  BY <1>1 DEF GateJob, At

LEMMA InvAllAdmitted == IInv => AllAdmitted
<1> SUFFICES ASSUME IInv, NEW u \in Users \ {Owner}, At(u, "refused"),
                    job[u].scheme = Read(u).object.scheme,
                    Evaluates(job[u].profile, Read(u).condition),
                    \A l \in Leaves[Read(u).condition] :
                        /\ job[u].profile[l.attr] # "None" /\ l.op # ">="
                        /\ job[u].scheme = "tkn20" => Levels(l.attr) = << >>
             PROVE  FALSE
  BY DEF AllAdmitted
<1> DEFINE v == Read(u)
           p == job[u].profile
           attrs == job[u].key.attrs
           z == job[u].scheme
<1>1. VersionsInv /\ DownloadJob(u)
  BY Downloading DEF IInv, JobsInv, At, DownloadPcs
<1>2. HasKey(u) /\ ~Opens(u) /\ p \in Profiles /\ z \in Schemes /\ Sealed(v)
  BY <1>1 DEF DownloadJob, At
<1>3. KeyAttributes(u, job[u].version, p) = Plainly(p)
  BY DEF KeyAttributes
<1>4. /\ attrs \subseteq Expand(Plainly(p))
      /\ z = "ac17" => attrs = Expand(Plainly(p))
      /\ z = "tkn20" => \A a \in Expand(Plainly(p)) : \E b \in attrs : b[1] = a[1]
      /\ ~Satisfies(z, attrs, v.text)
  BY <1>1, <1>2, <1>3, KeyOfRequest
<1>5. PICK s \in Schemes : v.condition \in Parts /\ v.text = Compile(s, v.condition) /\ Parses(z, v.text)
  BY <1>1, <1>2, SealedRead
<1>6. \A l \in Leaves[v.condition] :
        /\ p[l.attr] # "None" /\ l.op # ">="
        /\ z = "tkn20" => Levels(l.attr) = << >>
  OBVIOUS
<1>7. Evaluates(p, v.condition)
  OBVIOUS
<1> HIDE DEF v, p, attrs, z
<1>8. ASSUME NEW l \in Leaves[v.condition]
      PROVE  <<l.attr, p[l.attr]>> \in attrs
  <2> DEFINE x == <<l.attr, p[l.attr]>>
  <2>1. l.attr \in DOMAIN p
    BY <1>2, <1>5, LeavesCompare, VocabularyAssumption
  <2>2. x \in Expand(Plainly(p))
    BY <1>6, <2>1, PlainAttributes
  <2>3. CASE z = "ac17"
    BY <1>4, <2>2, <2>3
  <2>4. CASE z = "tkn20"
    <3>1. PICK b \in attrs : b[1] = l.attr
      BY <1>4, <2>2, <2>4
    <3>2. PICK a \in DOMAIN p : \E w \in {p[a]} \cup Below(a, p[a]) : b = <<a, w>>
      BY <1>4, PlainAttributes
    <3>3. a = l.attr
      BY <3>1, <3>2
    <3>4. Below(a, p[a]) = {}
      BY <1>6, <2>4, <3>3 DEF Below
    <3>5. QED
      BY <3>2, <3>3, <3>4
  <2>5. QED
    BY <1>2, <2>3, <2>4 DEF Schemes
<1>9. Covers(attrs, p, v.condition)
  BY <1>6, <1>8 DEF Covers
<1>10. attrs \subseteq Attributes
  BY <1>2, <1>4, PlainAttributesAreAttributes
<1>11. Satisfies(z, attrs, Compile(s, v.condition))
  BY <1>2, <1>5, <1>7, <1>9, <1>10, CompilerComplete
<1>12. QED
  BY <1>4, <1>5, <1>11

--------------------------------------------------------------------------------
(***************************************************************************)
(* The invariant is inductive.                                             *)
(***************************************************************************)
LEMMA NewVersion ==
    ASSUME scheme \in Schemes, NEW s \in Schemes, NEW c \in Conditions, NEW n \in Numbers,
           Succeeded(Object(Compile(s, c), n))
    PROVE  LET v == Version(Compile(s, c), Object(Compile(s, c), n).out, c)
           IN  v \in Versions /\ (Sealed(v) => v.object.scheme = scheme)
<1> DEFINE text == Compile(s, c)
           object == Object(text, n).out
           v == Version(text, object, c)
<1>1. text \in CpabePolicies
  BY DEF CpabePolicies
<1>2. v = [text |-> text, object |-> object, condition |-> c]
  BY DEF Version
<1>3. CASE text = Empty
  <2>1. object = Plaintext
    BY <1>3 DEF Object, Done
  <2> HIDE DEF text, object, v
  <2>2. ~Sealed(v) /\ Written(v)
    BY <1>2, <1>3, <2>1 DEF Sealed, Written, text
  <2>3. QED
    BY <1>1, <1>2, <2>1, <2>2 DEF Versions, text, object, v
<1>4. CASE text # Empty
  <2>1. Parses(scheme, text) /\ object = Ciphertext(scheme, text, n)
    BY <1>4, Encrypts DEF Object, Encrypted
  <2>2. object.scheme = scheme
    BY <2>1 DEF Ciphertext
  <2> HIDE DEF text, object, v
  <2>3. Sealed(v) /\ Written(v)
    BY <1>2, <1>4, <2>1 DEF Sealed, Written, text
  <2>4. v \in Versions
    BY <1>1, <1>2, <2>1, <2>3 DEF Versions
  <2>5. QED
    BY <1>2, <2>2, <2>4 DEF text, object, v
<1>5. QED
  BY <1>3, <1>4

LEMMA InitInv == Init => IInv
<1> SUFFICES ASSUME Init
             PROVE  IInv
  OBVIOUS
<1>1. PICK c \in Conditions :
        LET text == Compile(scheme, c) IN
        /\ policy = [condition |-> c, text |-> text]
        /\ past = {c}
        /\ Succeeded(Object(text, 1))
        /\ versions = <<Version(text, Object(text, 1).out, c)>>
        /\ rowScheme = IF text = Empty THEN "ac17" ELSE scheme
  BY Zenon DEF Init
<1>2. 1 \in Numbers /\ 0 \in 0..MaxChanges /\ scheme \in Schemes /\ "ac17" \in Schemes
  BY ReadersAssumption DEF Init, Numbers, Schemes
<1> DEFINE v == Version(Compile(scheme, c), Object(Compile(scheme, c), 1).out, c)
<1>3. v \in Versions /\ (Sealed(v) => v.object.scheme = scheme) /\ v.text = Compile(scheme, c)
  BY <1>1, <1>2, NewVersion DEF Version
<1>4. RowInv
  BY <1>1, <1>2 DEF Init, RowInv
<1> HIDE DEF v
<1>5. versions = <<v>>
  BY <1>1 DEF v
<1>6. VersionsInv
  BY <1>3, <1>5 DEF Init, VersionsInv
<1>7. KeysInv /\ AllowedInv /\ JobsInv
  BY DEF Init, KeysInv, AllowedInv, JobsInv, JobInv
<1>8. RowNamesScheme /\ PendingInv
  BY <1>1, <1>3, <1>5 DEF Init, RowNamesScheme, PendingInv, Sealed
<1>9. QED
  BY <1>4, <1>6, <1>7, <1>8 DEF IInv

\* What is known of a request outlives whatever leaves its version as it is.
LEMMA JobKept ==
    ASSUME NEW u \in Users, JobInv(u), job'[u] = job[u], past \subseteq past',
           At(u, "gate") => profile'[u] = profile[u],
           \A n \in DOMAIN versions : n \in DOMAIN versions' /\ versions'[n] = versions[n]
    PROVE  JobInv(u)'
<1>1. CASE job[u] = Idle
  BY <1>1 DEF JobInv
<1>2. CASE GateJob(u)
  <2> DEFINE j == job[u]
  <2>1. (\E c \in past : Evaluates(j.asked, c)) => \E c \in past' : Evaluates(j.asked, c)
    OBVIOUS
  <2>2. GateJob(u)'
    BY <1>2, <2>1 DEF GateJob, At, Evaluates
  <2>3. QED
    BY <2>2 DEF JobInv
<1>3. CASE DownloadJob(u)
  <2>1. versions'[job[u].version] = versions[job[u].version] /\ job[u].version \in DOMAIN versions'
    BY <1>3 DEF DownloadJob
  <2>2. Read(u)' = Read(u)
    BY <2>1 DEF Read
  <2>3. HasKey(u)' <=> HasKey(u)
    BY <2>1 DEF HasKey, KeyAttributes
  <2>4. Opens(u)' <=> Opens(u)
    BY <2>2 DEF Opens
  <2>5. Sealed(Read(u))' <=> Sealed(Read(u))
    BY <2>2 DEF Sealed
  <2>6. DownloadJob(u)'
    BY <1>3, <2>1, <2>3, <2>4, <2>5 DEF DownloadJob
  <2>7. QED
    BY <2>6 DEF JobInv
<1>4. QED
  BY <1>1, <1>2, <1>3 DEF JobInv

LEMMA JobsKept ==
    ASSUME JobsInv, UNCHANGED <<job, profile>>, past \subseteq past',
           \A n \in DOMAIN versions : n \in DOMAIN versions' /\ versions'[n] = versions[n]
    PROVE  JobsInv'
  BY JobKept DEF JobsInv

LEMMA JobMoved ==
    ASSUME JobsInv, UNCHANGED <<versions, profile, past>>,
           NEW u \in Users, NEW j, job' = [job EXCEPT ![u] = j], JobInv(u)'
    PROVE  JobsInv'
<1>1. ASSUME NEW w \in Users, w # u
      PROVE  JobInv(w)'
  BY <1>1, JobKept DEF JobsInv
<1>2. QED
  BY <1>1 DEF JobsInv

\* What the row names outlives a step that leaves it, or ends an upload and marks what it leaves.
LEMMA RowNamesKept ==
    ASSUME RowNamesScheme, UNCHANGED <<versions, rowScheme>>,
           \/ UNCHANGED <<upload, torn>>
           \/ torn' = Torn
           \/ upload.step = "none" /\ UNCHANGED torn
    PROVE  RowNamesScheme'
  BY DEF RowNamesScheme, Sealed, Torn

--------------------------------------------------------------------------------
(***************************************************************************)
(* An upload, and the copies of the row.                                   *)
(***************************************************************************)
LEMMA UploadInv == IInv /\ Upload => IInv'
<1> SUFFICES ASSUME IInv, Upload
             PROVE  IInv'
  OBVIOUS
<1> USE DEF IInv
<1> DEFINE n == Len(versions) + 1
           v == Version(policy.text, Object(policy.text, n).out, policy.condition)
           s == IF policy.text = Empty THEN rowScheme ELSE scheme
<1>1. /\ upload' = [step |-> "stored", version |-> v, scheme |-> s]
      /\ upload.step = "none"
      /\ changes < MaxChanges /\ changes' = changes + 1
      /\ UNCHANGED <<scheme, profile, policy, versions, rowScheme, copies, torn, keys, allowed, job, past>>
      /\ Succeeded(Object(policy.text, n))
  BY DEF Upload, Change, row
<1>2. versions \in Seq(Versions) /\ Len(versions) \in 1..changes + 1 /\ changes \in Nat /\ MaxChanges \in Nat
  BY ReadersAssumption DEF VersionsInv, RowInv
<1>3. n \in Numbers /\ Len(versions) <= changes'
  BY <1>1, <1>2 DEF Numbers
<1>4. /\ v \in Versions
      /\ Sealed(v) => v.object.scheme = scheme
      /\ Sealed(v) <=> policy.text # Empty
  <2>1. PICK t \in Schemes : policy.text = Compile(t, policy.condition)
    BY DEF RowInv
  <2>2. policy.condition \in Conditions /\ scheme \in Schemes
    BY DEF RowInv
  <2>3. v.text = policy.text
    BY DEF Version
  <2>4. QED
    BY <1>1, <1>3, <2>1, <2>2, <2>3, NewVersion DEF Sealed
<1>5. s \in Schemes /\ (Sealed(v) => s = scheme)
  BY <1>4 DEF RowInv
<1> HIDE DEF v, s
<1>6. RowInv' /\ VersionsInv'
  BY <1>1, <1>2 DEF RowInv, VersionsInv
<1>7. PendingInv'
  <2>1. /\ DOMAIN upload' = {"step", "version", "scheme"}
        /\ upload'.step = "stored" /\ upload'.version = v /\ upload'.scheme = s
    BY <1>1
  <2>2. Sealed(upload.version)' <=> Sealed(v)
    BY <2>1 DEF Sealed
  <2>3. QED
    BY <1>1, <1>3, <1>4, <1>5, <2>1, <2>2 DEF PendingInv
<1>8. KeysInv' /\ AllowedInv'
  BY <1>1 DEF KeysInv, AllowedInv
<1>9. JobsInv'
  BY <1>1, JobsKept
<1>10. QED
  BY <1>1, <1>6, <1>7, <1>8, <1>9, RowNamesKept

\* A step that writes the row, the upload and the versions leaves the requests and the caches alone.
LEMMA RowStep ==
    ASSUME IInv, UNCHANGED <<scheme, profile, policy, keys, allowed, job, past, changes>>,
           copies' \subseteq Schemes, rowScheme' \in copies', torn' \in BOOLEAN,
           VersionsInv', PendingInv', RowNamesScheme',
           \A n \in DOMAIN versions : n \in DOMAIN versions' /\ versions'[n] = versions[n]
    PROVE  IInv'
<1>1. RowInv' /\ KeysInv' /\ AllowedInv'
  BY DEF IInv, RowInv, KeysInv, AllowedInv
<1>2. QED
  BY <1>1, JobsKept DEF IInv

LEMMA UploadRowInv == IInv /\ UploadRow => IInv'
<1> SUFFICES ASSUME IInv, UploadRow
             PROVE  IInv'
  OBVIOUS
<1> USE DEF IInv
<1> DEFINE v == upload.version
<1>1. /\ rowScheme' = upload.scheme /\ copies' = copies \cup {upload.scheme}
      /\ torn' = (~Sealed(v) /\ (torn \/ rowScheme # upload.scheme))
      /\ upload' = [upload EXCEPT !.step = "saved"]
      /\ UNCHANGED <<scheme, profile, policy, versions, keys, allowed, job, past, changes>>
  BY DEF UploadRow, SaveScheme
<1>2. /\ upload.step = "stored" /\ upload # NoUpload
  BY DEF UploadRow, NoUpload
<1>3. /\ DOMAIN upload = {"step", "version", "scheme"} /\ v \in Versions /\ upload.scheme \in Schemes
      /\ Len(versions) <= changes /\ (Sealed(v) => v.object.scheme = upload.scheme)
  BY <1>2 DEF PendingInv
<1>4. /\ DOMAIN upload' = {"step", "version", "scheme"} /\ upload'.step = "saved"
      /\ upload'.version = v /\ upload'.scheme = upload.scheme
  BY <1>1, <1>3
<1>5. Sealed(upload.version)' <=> Sealed(v)
  BY <1>4 DEF Sealed
<1>6. VersionsInv'
  BY <1>1 DEF VersionsInv
<1>7. PendingInv'
  BY <1>1, <1>3, <1>4, <1>5 DEF PendingInv
<1>8. RowNamesScheme'
  <2>1. CASE Sealed(v)
    BY <1>4, <1>5, <2>1 DEF RowNamesScheme
  <2>2. CASE ~Sealed(v) /\ torn'
    BY <2>2 DEF RowNamesScheme
  <2>3. CASE ~Sealed(v) /\ ~torn'
    BY <1>1, <1>2, <2>3 DEF RowNamesScheme, Sealed
  <2>4. QED
    BY <2>1, <2>2, <2>3
<1>9. QED
  BY <1>1, <1>3, <1>6, <1>7, <1>8, RowStep DEF RowInv

LEMMA UploadVersionInv == IInv /\ UploadVersion => IInv'
<1> SUFFICES ASSUME IInv, UploadVersion
             PROVE  IInv'
  OBVIOUS
<1> USE DEF IInv
<1> DEFINE n == Len(versions) + 1
           v == upload.version
<1>1. /\ versions' = Append(versions, v) /\ upload' = NoUpload
      /\ UNCHANGED <<scheme, profile, policy, rowScheme, copies, torn, keys, allowed, job, past, changes>>
  BY DEF UploadVersion, row
<1>2. upload.step = "saved" /\ upload # NoUpload
  BY DEF UploadVersion, NoUpload
<1>3. /\ v \in Versions /\ Len(versions) <= changes
      /\ Sealed(v) => v.object.scheme = upload.scheme
      /\ Sealed(v) => torn \/ rowScheme = upload.scheme
  BY <1>2 DEF PendingInv
<1>4. versions \in Seq(Versions) /\ Len(versions) \in 1..changes + 1 /\ changes \in Nat
  BY ReadersAssumption DEF VersionsInv, RowInv
<1> HIDE DEF v
<1>5. /\ versions' \in Seq(Versions) /\ Len(versions') = n
      /\ DOMAIN versions = 1..Len(versions) /\ DOMAIN versions' = 1..n
      /\ versions'[n] = v
      /\ \A m \in DOMAIN versions : m \in DOMAIN versions' /\ versions'[m] = versions[m]
  BY <1>1, <1>3, <1>4
<1>6. VersionsInv' /\ PendingInv'
  BY <1>1, <1>3, <1>4, <1>5 DEF VersionsInv, PendingInv
<1>7. RowNamesScheme'
  <2> SUFFICES ASSUME ~torn, NEW m \in DOMAIN versions', Sealed(versions'[m]),
                      \A k \in DOMAIN versions' : k > m => ~Sealed(versions'[k])
               PROVE  rowScheme' = versions'[m].object.scheme
    BY <1>1 DEF RowNamesScheme, Sealed
  <2>1. CASE m = n
    BY <1>1, <1>3, <1>5, <2>1
  <2>2. CASE m # n
    <3>1. m \in DOMAIN versions /\ n > m /\ n \in DOMAIN versions'
      BY <1>4, <1>5, <2>2
    <3>2. ~Sealed(v)
      BY <1>5, <3>1
    <3>3. Sealed(versions[m]) /\ \A k \in DOMAIN versions : k > m => ~Sealed(versions[k])
      BY <1>5, <3>1
    <3>4. rowScheme = versions[m].object.scheme
      BY <3>1, <3>2, <3>3 DEF RowNamesScheme, v
    <3>5. QED
      BY <1>1, <1>5, <3>1, <3>4
  <2>3. QED
    BY <2>1, <2>2
<1>8. QED
  BY <1>1, <1>5, <1>6, <1>7, RowStep DEF RowInv

LEMMA UploadFailsInv == IInv /\ UploadFails => IInv'
<1> SUFFICES ASSUME IInv, UploadFails
             PROVE  IInv'
  OBVIOUS
<1>1. /\ upload' = NoUpload /\ torn' = Torn
      /\ UNCHANGED <<scheme, profile, policy, versions, rowScheme, copies, keys, allowed, job, past, changes>>
  BY DEF UploadFails
<1>2. torn' \in BOOLEAN
  BY <1>1 DEF Torn, IInv, RowInv
<1>3. VersionsInv' /\ PendingInv'
  BY <1>1 DEF IInv, VersionsInv, PendingInv
<1>4. RowNamesScheme'
  BY <1>1, RowNamesKept DEF IInv
<1>5. QED
  BY <1>1, <1>2, <1>3, <1>4, RowStep DEF IInv, RowInv

LEMMA SaveRowInv ==
    ASSUME IInv, NEW s \in copies, SaveRow(s)
    PROVE  IInv'
<1>1. /\ rowScheme' = s /\ copies' = copies \cup {s} /\ torn' = TRUE
      /\ UNCHANGED <<scheme, profile, policy, versions, upload, keys, allowed, job, past, changes>>
  BY DEF SaveRow, SaveScheme
<1>2. VersionsInv'
  BY <1>1 DEF IInv, VersionsInv
<1>3. PendingInv'
  BY <1>1 DEF IInv, PendingInv, Sealed
<1>4. RowNamesScheme'
  BY <1>1 DEF RowNamesScheme
<1>5. QED
  BY <1>1, <1>2, <1>3, <1>4, RowStep DEF IInv, RowInv

--------------------------------------------------------------------------------
(***************************************************************************)
(* The other changes leave the versions and the row's scheme alone; a      *)
(* deployment ends the requests and the upload.                            *)
(***************************************************************************)
LEMMA RedeployInv == IInv /\ Redeploy => IInv'
<1> SUFFICES ASSUME IInv, Redeploy
             PROVE  IInv'
  OBVIOUS
<1> USE DEF IInv
<1>1. /\ changes < MaxChanges /\ changes' = changes + 1 /\ scheme' \in Schemes
      /\ job' = [u \in Users |-> Idle] /\ upload' = NoUpload /\ torn' = Torn /\ copies' = {rowScheme}
      /\ UNCHANGED <<profile, policy, versions, rowScheme, keys, allowed, past>>
  BY DEF Redeploy, Change
<1>2. torn' \in BOOLEAN
  BY <1>1 DEF Torn, RowInv
<1>3. RowInv'
  BY <1>1, <1>2, ReadersAssumption DEF RowInv
<1>4. VersionsInv' /\ PendingInv'
  BY <1>1, ReadersAssumption DEF VersionsInv, PendingInv, RowInv
<1>5. KeysInv' /\ AllowedInv'
  BY <1>1 DEF KeysInv, AllowedInv
<1>6. JobsInv'
  BY <1>1 DEF JobsInv, JobInv
<1>7. QED
  BY <1>1, <1>3, <1>4, <1>5, <1>6, RowNamesKept

\* What an edit and a change of attributes have in common.
LEMMA ChangeStep ==
    ASSUME IInv, changes < MaxChanges, changes' = changes + 1, past \subseteq past',
           UNCHANGED <<scheme, versions, rowScheme, copies, torn, upload, keys, allowed>>
    PROVE  /\ changes' \in 0..MaxChanges
           /\ VersionsInv' /\ PendingInv' /\ KeysInv' /\ AllowedInv' /\ RowNamesScheme'
<1> USE DEF IInv
<1>1. changes' \in 0..MaxChanges /\ changes \in Nat
  BY ReadersAssumption DEF RowInv
<1>2. VersionsInv' /\ KeysInv'
  BY <1>1 DEF VersionsInv, KeysInv
<1>3. AllowedInv'
  BY DEF AllowedInv, Evaluates
<1>4. PendingInv'
  <2>1. CASE upload = NoUpload
    BY <2>1 DEF PendingInv
  <2>2. CASE upload # NoUpload
    <3>1. Len(versions) \in Nat /\ Len(versions) <= changes
      BY <2>2 DEF PendingInv, VersionsInv
    <3>2. Len(versions') <= changes'
      BY <1>1, <3>1
    <3>3. QED
      BY <2>2, <3>2 DEF PendingInv, Sealed
  <2>3. QED
    BY <2>1, <2>2
<1>5. QED
  BY <1>1, <1>2, <1>3, <1>4, RowNamesKept

LEMMA EditInv ==
    ASSUME IInv, NEW c \in Conditions, EditPolicy(c)
    PROVE  IInv'
<1>1. /\ changes < MaxChanges /\ changes' = changes + 1 /\ past' = past \cup {c}
      /\ policy' = [condition |-> c, text |-> Compile(scheme, c)]
      /\ UNCHANGED <<scheme, profile, versions, rowScheme, copies, torn, upload, keys, allowed, job>>
  BY DEF EditPolicy, Change, row
<1>2. changes' \in 0..MaxChanges /\ VersionsInv' /\ PendingInv' /\ KeysInv' /\ AllowedInv' /\ RowNamesScheme'
  BY <1>1, ChangeStep
<1>3. RowInv'
  BY <1>1, <1>2 DEF IInv, RowInv
<1>4. JobsInv'
  BY <1>1, JobsKept DEF IInv
<1>5. QED
  BY <1>2, <1>3, <1>4 DEF IInv

LEMMA SetAttributesInv ==
    ASSUME IInv, NEW u \in Users, NEW new \in Profiles, SetAttributes(u, new)
    PROVE  IInv'
<1>1. /\ changes < MaxChanges /\ changes' = changes + 1
      /\ profile' = [profile EXCEPT ![u] = new]
      /\ job' = IF At(u, "gate") THEN [job EXCEPT ![u].crossed = TRUE] ELSE job
      /\ UNCHANGED <<scheme, policy, versions, rowScheme, copies, torn, upload, keys, allowed, past>>
  BY DEF SetAttributes, Change, row
<1>2. changes' \in 0..MaxChanges /\ VersionsInv' /\ PendingInv' /\ KeysInv' /\ AllowedInv' /\ RowNamesScheme'
  BY <1>1, ChangeStep
<1>3. RowInv' /\ DOMAIN profile = Users /\ JobsInv /\ DOMAIN job = Users
  BY <1>1, <1>2 DEF IInv, RowInv, JobsInv
<1>4. ASSUME NEW w \in Users
      PROVE  JobInv(w)'
  <2>1. CASE w = u /\ At(u, "gate")
    <3> DEFINE j == [job[u] EXCEPT !.crossed = TRUE]
    <3>1. GateJob(u)
      BY <1>3, <2>1, AtGate DEF JobsInv, At, GatePcs
    <3>2. /\ DOMAIN j = DOMAIN Idle /\ j.pc = "gate" /\ j.asked = job[u].asked
          /\ j.ok = job[u].ok /\ j.crossed = TRUE
      BY <2>1, <3>1 DEF GateJob, At, Idle
    <3>3. job' = [job EXCEPT ![u] = j]
      BY <1>1, <1>3, <2>1
    <3> HIDE DEF j
    <3>4. job'[u] = j
      BY <1>3, <3>3
    <3>5. GateJob(u)'
      BY <3>1, <3>2, <3>4 DEF GateJob, GatePcs
    <3>6. QED
      BY <2>1, <3>5 DEF JobInv
  <2>2. CASE ~(w = u /\ At(u, "gate"))
    <3>1. job'[w] = job[w]
      BY <1>1, <1>3, <2>2
    <3>2. At(w, "gate") => profile'[w] = profile[w]
      BY <1>1, <1>3, <2>2
    <3>3. QED
      BY <1>1, <1>3, <3>1, <3>2, JobKept DEF JobsInv
  <2>3. QED
    BY <2>1, <2>2
<1>5. DOMAIN job' = Users
  BY <1>1, <1>3
<1>6. QED
  BY <1>2, <1>3, <1>4, <1>5 DEF IInv, JobsInv

LEMMA ExpiryInv ==
    ASSUME IInv, ExpireKeys \/ ExpireAllowed
    PROVE  IInv'
<1> USE DEF IInv
<1>1. /\ UNCHANGED <<scheme, profile, policy, versions, rowScheme, copies, torn, upload, job, past, changes>>
      /\ keys' \subseteq keys /\ allowed' \subseteq allowed
  BY DEF ExpireKeys, ExpireAllowed, row
<1>2. RowInv' /\ VersionsInv'
  BY <1>1 DEF RowInv, VersionsInv
<1>3. KeysInv' /\ AllowedInv'
  BY <1>1 DEF KeysInv, AllowedInv
<1>4. PendingInv'
  BY <1>1 DEF PendingInv, Sealed
<1>5. QED
  BY <1>1, <1>2, <1>3, <1>4, JobsKept, RowNamesKept

--------------------------------------------------------------------------------
\* A step of a request, which leaves all but the caches as it is.
LEMMA RequestInv ==
    ASSUME IInv, UNCHANGED <<scheme, profile, policy, versions, row, upload, past, changes>>,
           KeysInv', AllowedInv', NEW u \in Users, NEW j, job' = [job EXCEPT ![u] = j], JobInv(u)'
    PROVE  IInv'
<1>1. UNCHANGED <<rowScheme, copies, torn>>
  BY DEF row
<1>2. RowInv' /\ VersionsInv'
  BY <1>1 DEF IInv, RowInv, VersionsInv
<1>3. PendingInv'
  BY <1>1 DEF IInv, PendingInv, Sealed
<1>4. QED
  BY <1>1, <1>2, <1>3, JobMoved, RowNamesKept DEF IInv

\* The gate.
LEMMA AskGateInv ==
    ASSUME IInv, NEW u \in Users, AskGate(u)
    PROVE  IInv'
<1>1. UNCHANGED <<scheme, profile, policy, versions, row, upload, keys, allowed, past, changes>>
  BY DEF AskGate
<1>2. KeysInv' /\ AllowedInv' /\ DOMAIN job = Users /\ profile[u] \in Profiles
  BY <1>1 DEF IInv, KeysInv, AllowedInv, JobsInv, RowInv
<1>3. ASSUME NEW a \in CachedAnswers(u, profile[u]), a.ok,
             job' = [job EXCEPT ![u] = Passed(profile[u], a.crossed)]
      PROVE  IInv'
  <2> DEFINE j == Passed(profile[u], a.crossed)
  <2>1. /\ DOMAIN j = DOMAIN Idle /\ j.pc = "passed" /\ j.asked = profile[u] /\ j.crossed = a.crossed /\ j.ok = FALSE
    BY DEF Passed, Idle
  <2>2. a.crossed \in BOOLEAN /\ (a.crossed \/ \E c \in past : Evaluates(profile[u], c))
    BY <1>3 DEF IInv, AllowedInv, CachedAnswers
  <2> HIDE DEF j
  <2>3. job'[u] = j /\ job' = [job EXCEPT ![u] = j]
    BY <1>2, <1>3 DEF j
  <2>4. GateJob(u)'
    BY <1>1, <1>2, <2>1, <2>2, <2>3 DEF GateJob, GatePcs, Evaluates
  <2>5. QED
    BY <1>1, <1>2, <2>3, <2>4, RequestInv DEF JobInv
<1>4. ASSUME job' = [job EXCEPT ![u] = [Idle EXCEPT !.pc = "gate", !.asked = profile[u]]]
      PROVE  IInv'
  <2> DEFINE j == [Idle EXCEPT !.pc = "gate", !.asked = profile[u]]
  <2>1. /\ DOMAIN j = DOMAIN Idle /\ j.pc = "gate" /\ j.asked = profile[u] /\ j.crossed = FALSE /\ j.ok = FALSE
    BY DEF Idle
  <2> HIDE DEF j
  <2>2. job'[u] = j /\ job' = [job EXCEPT ![u] = j]
    BY <1>2, <1>4 DEF j
  <2>3. GateJob(u)'
    BY <1>1, <1>2, <2>1, <2>2 DEF GateJob, GatePcs
  <2>4. QED
    BY <1>1, <1>2, <2>2, <2>3, RequestInv DEF JobInv
<1>5. QED
  BY <1>3, <1>4 DEF AskGate

LEMMA ReadAttributesInv ==
    ASSUME IInv, NEW u \in Users, ReadAttributes(u)
    PROVE  IInv'
<1>1. UNCHANGED <<scheme, profile, policy, versions, row, upload, keys, allowed, past, changes>>
  BY DEF ReadAttributes
<1>2. KeysInv' /\ AllowedInv' /\ DOMAIN job = Users
  BY <1>1 DEF IInv, KeysInv, AllowedInv, JobsInv
<1>3. GateJob(u) /\ job[u].pc = "gate"
  BY AtGate DEF IInv, JobsInv, ReadAttributes, At, GatePcs
<1> DEFINE j == [job[u] EXCEPT !.pc = "evaluate", !.profile = profile[u]]
<1>4. /\ DOMAIN j = DOMAIN Idle /\ j.pc = "evaluate" /\ j.asked = job[u].asked /\ j.profile = profile[u]
      /\ j.crossed = job[u].crossed /\ j.ok = job[u].ok
  BY <1>3 DEF GateJob, Idle
<1>5. job' = [job EXCEPT ![u] = j]
  BY <1>2 DEF ReadAttributes
<1> HIDE DEF j
<1>6. job'[u] = j
  BY <1>2, <1>5
<1>7. GateJob(u)'
  BY <1>1, <1>3, <1>4, <1>6 DEF GateJob, GatePcs
<1>8. QED
  BY <1>1, <1>2, <1>5, <1>7, RequestInv DEF JobInv

LEMMA EvaluatePoliciesInv ==
    ASSUME IInv, NEW u \in Users, EvaluatePolicies(u)
    PROVE  IInv'
<1>1. UNCHANGED <<scheme, profile, policy, versions, row, upload, keys, allowed, past, changes>>
  BY DEF EvaluatePolicies
<1>2. KeysInv' /\ AllowedInv' /\ DOMAIN job = Users /\ policy.condition \in past
  BY <1>1 DEF IInv, KeysInv, AllowedInv, JobsInv, RowInv
<1>3. GateJob(u) /\ job[u].pc = "evaluate"
  BY AtGate DEF IInv, JobsInv, EvaluatePolicies, At, GatePcs
<1> DEFINE ok == Evaluates(job[u].profile, policy.condition)
           j == [job[u] EXCEPT !.pc = "fill", !.ok = ok]
<1>4. /\ DOMAIN j = DOMAIN Idle /\ j.pc = "fill" /\ j.asked = job[u].asked
      /\ j.crossed = job[u].crossed /\ j.ok = ok
  BY <1>3 DEF GateJob, Idle
<1>5. job' = [job EXCEPT ![u] = j]
  BY <1>2 DEF EvaluatePolicies
<1>6. ok \in BOOLEAN /\ (ok => job[u].crossed \/ \E c \in past : Evaluates(job[u].asked, c))
  BY <1>2, <1>3 DEF GateJob, Evaluates
<1> HIDE DEF j, ok
<1>7. job'[u] = j
  BY <1>2, <1>5
<1>8. GateJob(u)'
  BY <1>1, <1>3, <1>4, <1>6, <1>7 DEF GateJob, GatePcs, Evaluates
<1>9. QED
  BY <1>1, <1>2, <1>5, <1>8, RequestInv DEF JobInv

LEMMA FillCacheInv ==
    ASSUME IInv, NEW u \in Users, FillCache(u)
    PROVE  IInv'
<1> DEFINE k == job[u]
           answer == [user |-> u, profile |-> k.asked, ok |-> k.ok, crossed |-> k.crossed]
           j == IF k.ok THEN Passed(k.asked, k.crossed) ELSE Idle
<1>1. /\ UNCHANGED <<scheme, profile, policy, versions, row, upload, keys, past, changes>>
      /\ allowed' \subseteq allowed \cup {answer}
      /\ job' = [job EXCEPT ![u] = j]
  BY DEF FillCache
<1>2. KeysInv' /\ DOMAIN job = Users
  BY <1>1 DEF IInv, KeysInv, JobsInv
<1>3. GateJob(u) /\ k.pc = "fill"
  BY AtGate DEF IInv, JobsInv, FillCache, At, GatePcs
<1>4. /\ k.asked \in Profiles /\ k.ok \in BOOLEAN /\ k.crossed \in BOOLEAN
      /\ k.ok => k.crossed \/ \E c \in past : Evaluates(k.asked, c)
  BY <1>3 DEF GateJob
<1>5. AllowedInv'
  <2>1. /\ answer.user = u /\ answer.profile = k.asked /\ answer.ok = k.ok /\ answer.crossed = k.crossed
    OBVIOUS
  <2> HIDE DEF answer, k
  <2>2. ASSUME NEW a \in allowed'
        PROVE  /\ a.user \in Users /\ a.profile \in Profiles /\ a.ok \in BOOLEAN /\ a.crossed \in BOOLEAN
               /\ a.ok => a.crossed \/ \E c \in past' : Evaluates(a.profile, c)
    <3>1. CASE a \in allowed
      BY <1>1, <3>1 DEF IInv, AllowedInv
    <3>2. CASE a = answer
      BY <1>1, <1>4, <2>1, <3>2
    <3>3. QED
      BY <1>1, <3>1, <3>2
  <2>3. QED
    BY <2>2 DEF AllowedInv, Evaluates
<1>6. JobInv(u)'
  <2>1. CASE ~k.ok
    BY <1>1, <1>2, <2>1 DEF JobInv
  <2>2. CASE k.ok
    <3> DEFINE p == Passed(k.asked, k.crossed)
    <3>1. /\ DOMAIN p = DOMAIN Idle /\ p.pc = "passed" /\ p.asked = k.asked /\ p.crossed = k.crossed /\ p.ok = FALSE
      BY DEF Passed, Idle
    <3>2. job'[u] = p
      BY <1>1, <1>2, <2>2
    <3> HIDE DEF p, k
    <3>3. GateJob(u)'
      BY <1>1, <1>4, <2>2, <3>1, <3>2 DEF GateJob, GatePcs, Evaluates
    <3>4. QED
      BY <3>3 DEF JobInv
  <2>3. QED
    BY <1>4, <2>1, <2>2
<1>7. QED
  BY <1>1, <1>2, <1>5, <1>6, RequestInv

LEMMA DownloadInv ==
    ASSUME IInv, NEW u \in Users, NEW n \in DOMAIN versions, Download(u, n)
    PROVE  IInv'
<1>1. /\ UNCHANGED <<scheme, profile, policy, versions, row, upload, keys, allowed, past, changes>>
      /\ job' = [job EXCEPT ![u] = Start(u, n)] /\ DOMAIN job = Users
  BY DEF Download, IInv, JobsInv
<1>2. KeysInv' /\ AllowedInv'
  BY <1>1 DEF IInv, KeysInv, AllowedInv
<1> DEFINE j == Start(u, n)
<1>3. /\ j.pc = IF Sealed(versions[n]) THEN "lookup" ELSE "served"
      /\ j.version = n /\ j.scheme = "ac17" /\ j.profile = profile[u]
      /\ DOMAIN j = DOMAIN Idle
  BY DEF Start, Idle
<1> HIDE DEF j
<1>4. job'[u] = j
  BY <1>1 DEF j
<1>5. Read(u)' = versions[n]
  BY <1>1, <1>3, <1>4 DEF Read
<1>6. Sealed(Read(u))' <=> Sealed(versions[n])
  BY <1>5 DEF Sealed
<1>7. profile[u] \in Profiles /\ "ac17" \in Schemes
  BY DEF IInv, RowInv, Schemes
<1>8. DownloadJob(u)'
  BY <1>1, <1>3, <1>4, <1>6, <1>7 DEF DownloadJob, DownloadPcs
<1>9. JobInv(u)'
  BY <1>8 DEF JobInv
<1>10. QED
  BY <1>1, <1>2, <1>9, RequestInv

\* A request that moves and goes on reading the same version.
LEMMA SameRead ==
    ASSUME NEW u \in Users, NEW j, job' = [job EXCEPT ![u] = j], DOMAIN job = Users,
           j.version = job[u].version, UNCHANGED versions
    PROVE  job'[u] = j /\ Read(u)' = Read(u) /\ (Sealed(Read(u))' <=> Sealed(Read(u)))
<1>1. job'[u] = j
  OBVIOUS
<1>2. Read(u)' = Read(u)
  BY <1>1 DEF Read
<1>3. QED
  BY <1>1, <1>2 DEF Sealed

LEMMA LookupInv ==
    ASSUME IInv, NEW u \in Users, LookupKey(u)
    PROVE  IInv'
<1> DEFINE attrs == KeyAttributes(u, job[u].version, profile[u])
           hits == CachedKeys(u, rowScheme, attrs)
<1>1. UNCHANGED <<scheme, profile, policy, versions, row, upload, keys, allowed, past, changes>>
  BY DEF LookupKey
<1>2. KeysInv' /\ AllowedInv'
  BY <1>1 DEF IInv, KeysInv, AllowedInv
<1>3. /\ DOMAIN job = Users /\ DownloadJob(u) /\ job[u].pc = "lookup"
      /\ profile[u] \in Profiles /\ rowScheme \in Schemes
  BY Downloading DEF IInv, JobsInv, RowInv, LookupKey, At, DownloadPcs
<1>4. DOMAIN job[u] = DOMAIN Idle
      /\ job[u].version \in DOMAIN versions /\ Sealed(Read(u))
  BY <1>3 DEF DownloadJob, Idle
<1>5. ASSUME NEW k \in hits,
             job' = [job EXCEPT ![u] = [[job[u] EXCEPT !.scheme = rowScheme, !.profile = profile[u]]
                                            EXCEPT !.pc = "open", !.key = k.key]]
      PROVE  IInv'
  <2> DEFINE j == [[job[u] EXCEPT !.scheme = rowScheme, !.profile = profile[u]] EXCEPT !.pc = "open", !.key = k.key]
  <2>1. /\ j.pc = "open" /\ j.version = job[u].version /\ j.scheme = rowScheme /\ j.profile = profile[u]
        /\ j.key = k.key /\ DOMAIN j = DOMAIN Idle
    BY <1>4
  <2>2. k.key \in GenKey(KeySet(rowScheme, 1), Expand(attrs))
    BY DEF IInv, KeysInv, CachedKeys
  <2>3. job' = [job EXCEPT ![u] = j]
    BY <1>5
  <2> HIDE DEF j
  <2>4. job'[u] = j /\ (Sealed(Read(u))' <=> Sealed(Read(u)))
    BY <1>1, <1>3, <2>1, <2>3, SameRead
  <2>5. HasKey(u)'
    BY <1>1, <2>1, <2>2, <2>4 DEF HasKey, KeyAttributes
  <2>6. JobInv(u)'
    BY <1>1, <1>3, <1>4, <2>1, <2>4, <2>5 DEF JobInv, DownloadJob, DownloadPcs
  <2>7. QED
    BY <1>1, <1>2, <2>3, <2>6, RequestInv
<1>6. ASSUME job' = [job EXCEPT ![u] = [[job[u] EXCEPT !.scheme = rowScheme, !.profile = profile[u]]
                                            EXCEPT !.pc = "generate"]]
      PROVE  IInv'
  <2> DEFINE j == [[job[u] EXCEPT !.scheme = rowScheme, !.profile = profile[u]] EXCEPT !.pc = "generate"]
  <2>1. /\ j.pc = "generate" /\ j.version = job[u].version /\ j.scheme = rowScheme /\ j.profile = profile[u]
        /\ DOMAIN j = DOMAIN Idle
    BY <1>4
  <2>2. job' = [job EXCEPT ![u] = j]
    BY <1>6
  <2> HIDE DEF j
  <2>3. job'[u] = j /\ (Sealed(Read(u))' <=> Sealed(Read(u)))
    BY <1>1, <1>3, <2>1, <2>2, SameRead
  <2>4. JobInv(u)'
    BY <1>1, <1>3, <1>4, <2>1, <2>3 DEF JobInv, DownloadJob, DownloadPcs
  <2>5. QED
    BY <1>1, <1>2, <2>2, <2>4, RequestInv
<1>7. QED
  BY <1>5, <1>6 DEF LookupKey

LEMMA GenerateInv ==
    ASSUME IInv, NEW u \in Users, GenerateKey(u)
    PROVE  IInv'
<1> DEFINE attrs == KeyAttributes(u, job[u].version, job[u].profile)
           s == job[u].scheme
<1>1. PICK sk \in GenKey(KeySet(s, 1), Expand(attrs)) :
        /\ keys' = (keys \ CachedKeys(u, s, attrs)) \cup {[user |-> u, scheme |-> s, attrs |-> attrs, key |-> sk]}
        /\ job' = [job EXCEPT ![u].pc = "open", ![u].key = sk]
  BY DEF GenerateKey
<1>2. UNCHANGED <<scheme, profile, policy, versions, row, upload, allowed, past, changes>>
  BY DEF GenerateKey
<1>3. DOMAIN job = Users /\ DownloadJob(u) /\ job[u].pc = "generate"
  BY Downloading DEF IInv, JobsInv, GenerateKey, At, DownloadPcs
<1>4. /\ DOMAIN job[u] = DOMAIN Idle
      /\ job[u].version \in DOMAIN versions /\ Sealed(Read(u)) /\ s \in Schemes /\ job[u].profile \in Profiles
  BY <1>3 DEF DownloadJob, Idle
<1>5. KeysInv'
  <2> HIDE DEF attrs, s
  <2>1. ASSUME NEW k \in keys'
        PROVE  k.user \in Users /\ k.scheme \in Schemes /\ k.key \in GenKey(KeySet(k.scheme, 1), Expand(k.attrs))
    <3>1. CASE k \in keys
      BY <3>1 DEF IInv, KeysInv
    <3>2. CASE k = [user |-> u, scheme |-> s, attrs |-> attrs, key |-> sk]
      BY <1>1, <1>4, <3>2
    <3>3. QED
      BY <1>1, <3>1, <3>2
  <2>2. QED
    BY <2>1 DEF KeysInv
<1>6. AllowedInv'
  BY <1>2 DEF IInv, AllowedInv
<1> DEFINE j == [job[u] EXCEPT !.pc = "open", !.key = sk]
<1>7. /\ j.pc = "open" /\ j.version = job[u].version /\ j.scheme = s /\ j.profile = job[u].profile
      /\ j.key = sk /\ DOMAIN j = DOMAIN Idle
  BY <1>4
<1>8. job' = [job EXCEPT ![u] = j]
  BY <1>1, <1>3
<1> HIDE DEF j
<1>9. job'[u] = j /\ (Sealed(Read(u))' <=> Sealed(Read(u)))
  BY <1>2, <1>3, <1>7, <1>8, SameRead
<1>10. HasKey(u)'
  BY <1>1, <1>2, <1>7, <1>9 DEF HasKey, KeyAttributes
<1>11. JobInv(u)'
  BY <1>2, <1>3, <1>4, <1>7, <1>9, <1>10 DEF JobInv, DownloadJob, DownloadPcs
<1>12. QED
  BY <1>2, <1>5, <1>6, <1>8, <1>11, RequestInv

LEMMA DecryptInv ==
    ASSUME IInv, NEW u \in Users, Decrypt(u)
    PROVE  IInv'
<1> DEFINE pc == IF Opens(u) THEN "served" ELSE "refused"
           j == [job[u] EXCEPT !.pc = pc]
<1>1. UNCHANGED <<scheme, profile, policy, versions, row, upload, keys, allowed, past, changes>>
  BY DEF Decrypt
<1>2. KeysInv' /\ AllowedInv'
  BY <1>1 DEF IInv, KeysInv, AllowedInv
<1>3. DOMAIN job = Users /\ DownloadJob(u) /\ job[u].pc = "open"
  BY Downloading DEF IInv, JobsInv, Decrypt, At, DownloadPcs
<1>4. /\ DOMAIN job[u] = DOMAIN Idle
      /\ job[u].version \in DOMAIN versions /\ Sealed(Read(u)) /\ HasKey(u)
      /\ job[u].scheme \in Schemes /\ job[u].profile \in Profiles
  BY <1>3 DEF DownloadJob, Idle
<1>5. job' = [job EXCEPT ![u] = j]
  BY <1>3 DEF Decrypt, Opens, Read
<1>6. /\ j.pc = pc /\ j.version = job[u].version /\ j.scheme = job[u].scheme /\ j.profile = job[u].profile
      /\ j.key = job[u].key /\ DOMAIN j = DOMAIN Idle
  BY <1>4
<1> HIDE DEF j
<1>7. job'[u] = j /\ Read(u)' = Read(u) /\ (Sealed(Read(u))' <=> Sealed(Read(u)))
  BY <1>1, <1>3, <1>5, <1>6, SameRead
<1>8. HasKey(u)'
  BY <1>1, <1>4, <1>6, <1>7 DEF HasKey, KeyAttributes
<1>9. Opens(u)' <=> Opens(u)
  BY <1>6, <1>7 DEF Opens
<1>10. JobInv(u)'
  BY <1>1, <1>4, <1>6, <1>7, <1>8, <1>9 DEF JobInv, DownloadJob, DownloadPcs
<1>11. QED
  BY <1>1, <1>2, <1>5, <1>10, RequestInv

LEMMA RespondInv ==
    ASSUME IInv, NEW u \in Users, Respond(u)
    PROVE  IInv'
<1>1. /\ UNCHANGED <<scheme, profile, policy, versions, row, upload, keys, allowed, past, changes>>
      /\ job' = [job EXCEPT ![u] = Idle]
  BY DEF Respond
<1>2. KeysInv' /\ AllowedInv'
  BY <1>1 DEF IInv, KeysInv, AllowedInv
<1>3. JobInv(u)'
  BY <1>1 DEF JobInv, IInv, JobsInv
<1>4. QED
  BY <1>1, <1>2, <1>3, RequestInv

LEMMA StepInv == IInv /\ [Next]_vars => IInv'
<1> SUFFICES ASSUME IInv, [Next]_vars
             PROVE  IInv'
  OBVIOUS
<1>1. CASE UNCHANGED vars
  <2>1. UNCHANGED <<scheme, profile, policy, versions, rowScheme, copies, torn, upload, keys, allowed, job, past, changes>>
    BY <1>1 DEF vars, row
  <2>2. RowInv' /\ VersionsInv' /\ KeysInv' /\ AllowedInv'
    BY <2>1 DEF IInv, RowInv, VersionsInv, KeysInv, AllowedInv
  <2>3. PendingInv'
    BY <2>1 DEF IInv, PendingInv, Sealed
  <2>4. QED
    BY <2>1, <2>2, <2>3, JobsKept, RowNamesKept DEF IInv
<1>2. CASE Next
  <2>1. CASE Upload \/ UploadRow \/ UploadVersion \/ UploadFails \/ \E s \in copies : SaveRow(s)
    BY <2>1, UploadInv, UploadRowInv, UploadVersionInv, UploadFailsInv, SaveRowInv
  <2>2. CASE Redeploy \/ ExpireKeys \/ ExpireAllowed \/ \E c \in Conditions : EditPolicy(c)
    BY <2>2, RedeployInv, ExpiryInv, EditInv
  <2>3. ASSUME NEW u \in Users,
               \/ \E new \in Profiles : SetAttributes(u, new)
               \/ AskGate(u) \/ ReadAttributes(u) \/ EvaluatePolicies(u) \/ FillCache(u)
        PROVE  IInv'
    BY <2>3, SetAttributesInv, AskGateInv, ReadAttributesInv, EvaluatePoliciesInv, FillCacheInv
  <2>4. ASSUME NEW u \in Users,
               \/ \E n \in DOMAIN versions : Download(u, n)
               \/ LookupKey(u) \/ GenerateKey(u) \/ Decrypt(u) \/ Respond(u)
        PROVE  IInv'
    BY <2>4, DownloadInv, LookupInv, GenerateInv, DecryptInv, RespondInv
  <2>5. QED
    BY <1>2, <2>1, <2>2, <2>3, <2>4, Zenon DEF Next
<1>3. QED
  BY <1>1, <1>2

THEOREM AccessInvariant == Spec => []IInv
  BY InitInv, StepInv, PTL DEF Spec

--------------------------------------------------------------------------------
\* Every variable has its type.
THEOREM AccessTypes == Spec => []TypeOK
  BY AccessInvariant, InvType, PTL

(***************************************************************************)
(* Whoever holds a key to decrypt with had, when he asked, the attributes  *)
(* it was generated from, though it comes from the cache.                  *)
(***************************************************************************)
THEOREM NoStaleKeyEver == Spec => []NoStaleKey
  BY AccessInvariant, InvNoStaleKey, PTL

(***************************************************************************)
(* Nobody but the owner is served an encrypted version that its condition  *)
(* does not mean to admit him to, through whatever changes of the policy,  *)
(* the scheme and his attributes.                                          *)
(***************************************************************************)
THEOREM OnlyTheAdmittedRead == Spec => []OnlyAdmitted
  BY AccessInvariant, InvOnlyAdmitted, PTL

\* Whom the condition holds of, but for the exceptions AllAdmitted lists, is never refused.
THEOREM TheAdmittedRead == Spec => []AllAdmitted
  BY AccessInvariant, InvAllAdmitted, PTL

\* The padding of _decrypt_file_if_needed is enough for the owner under AC17.
THEOREM OwnerIsNeverRefused == Spec => []OwnerOpens
  BY AccessInvariant, InvOwnerOpens, PTL

(***************************************************************************)
(* UploadedFile.abe_scheme is the scheme of the last encrypted version,    *)
(* but for uploads that stop between row and version and old copies of the *)
(* row: nothing else comes between the two.                                *)
(***************************************************************************)
THEOREM RowKeepsScheme == Spec => []RowNamesScheme
<1>1. IInv => RowNamesScheme
  BY DEF IInv
<1>2. QED
  BY <1>1, AccessInvariant, PTL

(***************************************************************************)
(* get_queryset lets a reader pass only on a policy, as it is or once was, *)
(* that holds of the attributes he asked with, but for an answer that was  *)
(* evaluated after they had changed.                                       *)
(***************************************************************************)
THEOREM GateFollows == Spec => []GateFollowsAttributes
  BY AccessInvariant, InvGate, PTL
===============================================================================
