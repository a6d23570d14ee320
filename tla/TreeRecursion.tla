----------------------------- MODULE TreeRecursion -----------------------------
(***************************************************************************)
(* Definitions and proofs by recursion on finite trees.  A definition      *)
(*     f[c \in Nodes] == Of(c, [i \in DOMAIN Args(c) |-> f[Args(c)[i]]])   *)
(* is a CHOOSE, so to use it as an equation one must know that a function  *)
(* with that equation exists.  The module is to be instantiated, with the  *)
(* step of a definition as Of.                                             *)
(***************************************************************************)
EXTENDS Naturals, WellFoundedInduction, TLAPS

CONSTANTS
    Nodes,
    Depth,      \* the nesting of each node
    Args(_),    \* the operands of a node, in order
    Of(_, _)    \* the value of a node, from those of its operands

Trees ==
    /\ Depth \in [Nodes -> Nat]
    /\ \A c \in Nodes : \A i \in DOMAIN Args(c) :
        Args(c)[i] \in Nodes /\ Depth[Args(c)[i]] < Depth[c]

UpTo(n) == {c \in Nodes : Depth[c] < n}
Recursive(f, S) == f = [c \in S |-> Of(c, [i \in DOMAIN Args(c) |-> f[Args(c)[i]]])]

\* A set of numbers that is not empty has a least one.
THEOREM LeastExists == \A S \in SUBSET Nat : S # {} => \E m \in S : \A k \in S : m <= k
<1> SUFFICES ASSUME NEW S \in SUBSET Nat, S # {}
             PROVE  \E m \in S : \A k \in S : m <= k
  OBVIOUS
<1> DEFINE R == {p \in Nat \X Nat : p[1] < p[2]}
<1>1. IsWellFoundedOn(R, Nat)
  BY NatLessThanWellFounded, Zenon DEF OpToRel
<1>2. PICK m \in S : \A k \in S : ~(<<k, m>> \in R)
  BY <1>1, WFMin
<1>3. ASSUME NEW k \in S
      PROVE  m <= k
  <2>1. m \in Nat /\ k \in Nat
    OBVIOUS
  <2>2. ~(k < m)
    BY <1>2, <2>1
  <2>3. QED
    BY <2>1, <2>2
<1>4. QED
  BY <1>3

\* What holds of a node if it does of its operands holds of all nodes.
THEOREM TreeInduction ==
    Trees => \A Good :
        (\A c \in Nodes : (\A i \in DOMAIN Args(c) : Args(c)[i] \in Good) => c \in Good)
        => Nodes \subseteq Good
<1> SUFFICES ASSUME Trees,
                    NEW Good,
                    \A c \in Nodes : (\A i \in DOMAIN Args(c) : Args(c)[i] \in Good) => c \in Good,
                    NEW b \in Nodes, b \notin Good
             PROVE  FALSE
  OBVIOUS
<1> DEFINE Depths == {Depth[c] : c \in Nodes \ Good}
<1>1. Depths \in SUBSET Nat /\ Depths # {}
  BY DEF Trees
<1>2. PICK m \in Depths : \A k \in Depths : m <= k
  BY <1>1, LeastExists, Zenon
<1>3. PICK c \in Nodes \ Good : m = Depth[c]
  BY <1>2
<1>4. ASSUME NEW i \in DOMAIN Args(c)
      PROVE  Args(c)[i] \in Good
  <2>1. Args(c)[i] \in Nodes /\ Depth[Args(c)[i]] < Depth[c]
    BY <1>3 DEF Trees
  <2>2. Depth[Args(c)[i]] \in Nat /\ Depth[c] \in Nat
    BY <2>1 DEF Trees
  <2>3. QED
    BY <2>1, <2>2, <1>2, <1>3
<1>5. QED
  BY <1>4, <1>3

(***************************************************************************)
(* Two functions with the equation, each on nodes up to some depth, agree  *)
(* where both are defined.                                                 *)
(***************************************************************************)
LEMMA Unique ==
    ASSUME Trees, NEW n \in Nat, NEW k \in Nat, n <= k,
           NEW f, Recursive(f, UpTo(n)), NEW g, Recursive(g, UpTo(k))
    PROVE  \A c \in UpTo(n) : f[c] = g[c]
<1> DEFINE Agree == {c \in Nodes : c \in UpTo(n) => f[c] = g[c]}
<1>1. ASSUME NEW c \in Nodes, \A i \in DOMAIN Args(c) : Args(c)[i] \in Agree
      PROVE  c \in Agree
  <2> SUFFICES ASSUME c \in UpTo(n)
               PROVE  f[c] = g[c]
    OBVIOUS
  <2>1. \A i \in DOMAIN Args(c) : Args(c)[i] \in UpTo(n)
    BY DEF Trees, UpTo
  <2>2. [i \in DOMAIN Args(c) |-> f[Args(c)[i]]] = [i \in DOMAIN Args(c) |-> g[Args(c)[i]]]
    BY <2>1, <1>1
  <2>3. c \in UpTo(k)
    BY DEF Trees, UpTo
  <2>4. f[c] = Of(c, [i \in DOMAIN Args(c) |-> f[Args(c)[i]]])
    BY DEF Recursive
  <2>5. g[c] = Of(c, [i \in DOMAIN Args(c) |-> g[Args(c)[i]]])
    BY <2>3 DEF Recursive
  <2>6. QED
    BY <2>2, <2>4, <2>5
<1>2. QED
  <2>1. Nodes \subseteq Agree
    <3> HIDE DEF Agree
    <3>1. QED
      BY <1>1, TreeInduction, Zenon
  <2>2. QED
    BY <2>1 DEF UpTo

\* There is such a function up to every depth.
LEMMA ExistsUpTo ==
    ASSUME Trees, NEW n \in Nat
    PROVE  \E f : Recursive(f, UpTo(n))
<1> DEFINE Missing == {k \in Nat : ~ \E f : Recursive(f, UpTo(k))}
<1> SUFFICES ASSUME Missing # {}
             PROVE  FALSE
  OBVIOUS
<1>1. Missing \in SUBSET Nat
  OBVIOUS
<1>2. PICK m \in Missing : \A k \in Missing : m <= k
  BY <1>1, LeastExists, Zenon
<1>3. m # 0
  <2>1. ASSUME m = 0
        PROVE  Recursive([c \in {} |-> 0], UpTo(m))
    BY <2>1 DEF Recursive, UpTo, Trees
  <2>2. QED
    BY <2>1
<1>4. m - 1 \in Nat /\ m - 1 \notin Missing
  BY <1>2, <1>3
<1>5. PICK f : Recursive(f, UpTo(m - 1))
  BY <1>4
<1> DEFINE Step(h, c) == Of(c, [i \in DOMAIN Args(c) |-> h[Args(c)[i]]])
           g == [c \in UpTo(m) |-> Step(f, c)]
<1>6. ASSUME NEW c \in UpTo(m - 1)
      PROVE  g[c] = f[c]
  <2>1. c \in UpTo(m)
    BY <1>4 DEF UpTo, Trees
  <2>2. f[c] = Step(f, c)
    BY <1>5 DEF Recursive
  <2>3. QED
    BY <2>1, <2>2
<1>7. ASSUME NEW c \in UpTo(m)
      PROVE  Step(f, c) = Step(g, c)
  <2>1. \A i \in DOMAIN Args(c) : Args(c)[i] \in UpTo(m - 1)
    BY <1>4 DEF UpTo, Trees
  <2>2. \A i \in DOMAIN Args(c) : g[Args(c)[i]] = f[Args(c)[i]]
    BY <2>1, <1>6
  <2>3. [i \in DOMAIN Args(c) |-> f[Args(c)[i]]] = [i \in DOMAIN Args(c) |-> g[Args(c)[i]]]
    BY <2>2
  <2>4. QED
    BY <2>3
<1>8. g = [c \in UpTo(m) |-> Step(g, c)]
  BY <1>7
<1>9. QED
  BY <1>8 DEF Recursive

\* There is one on all nodes.
THEOREM RecursionExists ==
    Trees => \E f : f = [c \in Nodes |-> Of(c, [i \in DOMAIN Args(c) |-> f[Args(c)[i]]])]
<1> SUFFICES ASSUME Trees
             PROVE  \E f : Recursive(f, Nodes)
  BY DEF Recursive
<1> DEFINE upTo(n) == CHOOSE f : Recursive(f, UpTo(n))
           f == [c \in Nodes |-> upTo(Depth[c] + 1)[c]]
           Step(h, c) == Of(c, [i \in DOMAIN Args(c) |-> h[Args(c)[i]]])
<1>1. \A n \in Nat : Recursive(upTo(n), UpTo(n))
  BY ExistsUpTo
<1>2. ASSUME NEW c \in Nodes
      PROVE  f[c] = Step(f, c)
  <2> DEFINE n == Depth[c] + 1
             k(i) == Depth[Args(c)[i]] + 1
  <2>1. n \in Nat /\ c \in UpTo(n)
    BY DEF Trees, UpTo
  <2>2. f[c] = Step(upTo(n), c)
    BY <1>1, <2>1 DEF Recursive
  <2>3. ASSUME NEW i \in DOMAIN Args(c)
        PROVE  upTo(n)[Args(c)[i]] = f[Args(c)[i]]
    <3>1. Args(c)[i] \in Nodes /\ k(i) \in Nat /\ k(i) <= n /\ Args(c)[i] \in UpTo(k(i))
      BY DEF Trees, UpTo
    <3>2. Recursive(upTo(k(i)), UpTo(k(i))) /\ Recursive(upTo(n), UpTo(n))
      BY <1>1, <2>1, <3>1
    <3> HIDE DEF upTo
    <3>3. upTo(k(i))[Args(c)[i]] = upTo(n)[Args(c)[i]]
      BY <2>1, <3>1, <3>2, Unique
    <3>4. QED
      BY <3>1, <3>3
  <2>4. [i \in DOMAIN Args(c) |-> upTo(n)[Args(c)[i]]] = [i \in DOMAIN Args(c) |-> f[Args(c)[i]]]
    <3> HIDE DEF f, upTo, n
    <3>1. QED
      BY <2>3
  <2>5. QED
    BY <2>2, <2>4
<1>3. f = [c \in Nodes |-> Step(f, c)]
  BY <1>2
<1>4. QED
  BY <1>3 DEF Recursive
===============================================================================
