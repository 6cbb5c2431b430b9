------------------------- MODULE Interactions_proofs -------------------------
(***************************************************************************)
(* Safety of Interactions for any number of ids, sources, tabs and         *)
(* snippets, and of ParameterForm, the form of one of them, for any        *)
(* parser, sources and fields.                                             *)
(***************************************************************************)
EXTENDS Interactions, ParameterForm, FiniteSetTheorems, NaturalsInduction, WellFoundedInduction, TLAPS

---------------------------------------------------------------------------
(* Sequences.  What a recursive function computes is shown for a least     *)
(* counterexample: Nat is well-founded.                                    *)

(* A set of natural numbers that is not empty has a least element.         *)
LEMMA Least ==
  ASSUME NEW S \in SUBSET Nat, S # {}
  PROVE  \E m \in S : \A n \in S : m <= n
<1> DEFINE R == OpToRel(<, Nat)
<1>1. R = {ss \in Nat \X Nat : ss[1] < ss[2]}
  BY Zenon DEF OpToRel
<1>2. IsWellFoundedOn(R, Nat)
  BY NatLessThanWellFounded, Zenon
<1> HIDE DEF R
<1>3. PICK x \in S : \A y \in S : ~ (<<y, x>> \in R)
  BY <1>2, WFMin
<1>4. ASSUME NEW y \in S PROVE x <= y
  <2>1. <<y, x>> \in Nat \X Nat OBVIOUS
  <2>2. ~ (y < x) BY <1>1, <1>3, <2>1
  <2> QED BY <2>2
<1> QED BY <1>4

(* F is the function that Keep computes with, on an initial part of s.          *)
Keeps(F, s, K, n) ==
    F = [i \in 0..n |-> IF i = 0 THEN <<>>
                        ELSE IF i \in K THEN Append(F[i - 1], s[i]) ELSE F[i - 1]]

(* There is one for every n.                                               *)
LEMMA KeepsExists ==
  ASSUME NEW s, NEW K, NEW n \in Nat
  PROVE  \E F : Keeps(F, s, K, n)
<1> DEFINE S == {m \in Nat : ~ \E F : Keeps(F, s, K, m)}
<1>1. SUFFICES ASSUME S # {} PROVE FALSE
  OBVIOUS
<1>2. PICK m \in S : \A k \in S : m <= k
  <2> HIDE DEF S
  <2> QED BY <1>1, Least DEF S
<1>3. CASE m = 0
  <2> DEFINE F == [i \in 0..0 |-> <<>>]
  <2>1. F = [i \in 0..m |-> IF i = 0 THEN <<>>
                        ELSE IF i \in K THEN Append(F[i - 1], s[i]) ELSE F[i - 1]]
    BY <1>3
  <2> QED BY <2>1 DEF Keeps
<1>4. CASE m # 0
  <2>1. m - 1 \in Nat /\ m - 1 \notin S
    BY <1>2, <1>4
  <2>2. PICK G : Keeps(G, s, K, m - 1)
    BY <2>1
  <2> DEFINE F == [i \in 0..m |-> IF i = m THEN IF i \in K THEN Append(G[i - 1], s[i]) ELSE G[i - 1]
                                  ELSE G[i]]
  <2>3. ASSUME NEW i \in 0..m
        PROVE  F[i] = IF i = 0 THEN <<>>
                      ELSE IF i \in K THEN Append(F[i - 1], s[i]) ELSE F[i - 1]
    <3>1. CASE i = m
      <4>1. F[i - 1] = G[i - 1]
        BY <3>1, <1>4
      <4>2. F[i] = IF i \in K THEN Append(G[i - 1], s[i]) ELSE G[i - 1]
        BY <3>1
      <4> QED BY <4>1, <4>2, <3>1, <1>4
    <3>2. CASE i # m
      <4>1. i \in 0..(m - 1)
        BY <3>2, <1>2
      <4>2. F[i] = G[i] 
        BY <3>2
      <4>3. i # 0 => F[i - 1] = G[i - 1]
        BY <4>1
      <4>4. G[i] = IF i = 0 THEN <<>>
                      ELSE IF i \in K THEN Append(G[i - 1], s[i]) ELSE G[i - 1]
        BY <2>2, <4>1 DEF Keeps
      <4> QED BY <4>2, <4>3, <4>4
    <3> QED BY <3>1, <3>2
  <2>4. Keeps(F, s, K, m)
    <3> DEFINE H == [i \in 0..m |-> IF i = 0 THEN <<>>
                        ELSE IF i \in K THEN Append(F[i - 1], s[i]) ELSE F[i - 1]]
    <3>1. F = H
      <4>1. \A i \in 0..m : F[i] = H[i]
        BY <2>3
      <4>2. F = [i \in 0..m |-> F[i]] /\ H = [i \in 0..m |-> H[i]]
        OBVIOUS
      <4> HIDE DEF F, H
      <4> QED BY <4>1, <4>2
    <3> QED BY <3>1 DEF Keeps
  <2> QED BY <2>4, <1>2
<1> QED BY <1>3, <1>4

(* What Keep gives: the elements of s at the positions in K, and no more.  *)
LEMMA KeepSound ==
  ASSUME NEW T, NEW s \in Seq(T), NEW K \in SUBSET (1..Len(s))
  PROVE  /\ Keep(s, K) \in Seq(T)
         /\ Len(Keep(s, K)) <= Cardinality(K)
         /\ Range(Keep(s, K)) = {s[i] : i \in K}
<1> DEFINE F == CHOOSE G : Keeps(G, s, K, Len(s))
<1>1. Keeps(F, s, K, Len(s))
  BY KeepsExists
<1>2. Keep(s, K) = F[Len(s)]
  BY Zenon DEF Keep, Keeps
<1> HIDE DEF F
<1> DEFINE Holds(i) == /\ F[i] \in Seq(T)
                       /\ Len(F[i]) <= Cardinality(K \cap (1..i))
                       /\ \A k \in 1..Len(F[i]) : \E j \in K \cap (1..i) : F[i][k] = s[j]
                       /\ \A j \in K \cap (1..i) : \E k \in 1..Len(F[i]) : F[i][k] = s[j]
           S == {i \in 0..Len(s) : ~ Holds(i)}
<1>3. S = {}
  <2>1. SUFFICES ASSUME S # {} PROVE FALSE
    OBVIOUS
  <2>2. PICK m \in S : \A k \in S : m <= k
    <3>1. S \in SUBSET Nat
      OBVIOUS
    <3> HIDE DEF S
    <3> QED BY <2>1, <3>1, Least
  <2>3. m \in 0..Len(s) /\ ~ Holds(m)
    OBVIOUS
  <2>4. CASE m = 0
    <3>1. F[m] = <<>>
      BY <1>1, <2>3, <2>4 DEF Keeps
    <3>2. K \cap (1..m) = {} /\ Cardinality({}) = 0
      BY <2>4, FS_EmptySet
    <3>3. Len(F[m]) = 0 /\ F[m] \in Seq(T)
      BY <3>1
    <3>4. 1..Len(F[m]) = {}
      BY <3>3
    <3>5. Holds(m)
      <4>1. Len(F[m]) <= Cardinality(K \cap (1..m))
        <5>1. Cardinality(K \cap (1..m)) = 0
          BY <3>2, Zenon
        <5> QED BY <5>1, <3>3
      <4>2. \A k \in 1..Len(F[m]) : \E j \in K \cap (1..m) : F[m][k] = s[j]
        BY <3>4
      <4>3. \A j \in K \cap (1..m) : \E k \in 1..Len(F[m]) : F[m][k] = s[j]
        BY <3>2
      <4> QED BY <3>3, <4>1, <4>2, <4>3
    <3> QED BY <3>5, <2>3
  <2>5. CASE m # 0
    <3>1. m - 1 \in 0..Len(s) /\ ~ (m <= m - 1)
      BY <2>3, <2>5
    <3>2. Holds(m - 1)
      <4> HIDE DEF Holds
      <4> QED BY <2>2, <3>1
    <3>3. F[m] = IF m \in K THEN Append(F[m - 1], s[m]) ELSE F[m - 1]
      BY <1>1, <2>3, <2>5 DEF Keeps
    <3> DEFINE A == K \cap (1..(m - 1))
               B == K \cap (1..m)
               f == F[m - 1]
               g == F[m]
    <3>4. m \in K => B = A \cup {m}
      BY <2>3, <2>5
    <3>5. m \notin K => B = A
      BY <2>3, <2>5
    <3>6. IsFiniteSet(A) /\ m \notin A
      <4>1. m - 1 \in Int /\ 1 \in Int /\ m \notin 1..(m - 1)
        BY <2>3
      <4>2. IsFiniteSet(1..(m - 1))
        BY <4>1, FS_Interval
      <4>3. A \subseteq 1..(m - 1)
        OBVIOUS
      <4> QED BY <4>1, <4>2, <4>3, FS_Subset
    <3>7. Cardinality(A) \in Nat /\ (m \in K => Cardinality(B) = Cardinality(A) + 1)
      BY <3>4, <3>6, FS_AddElement, FS_CardinalityType
    <3>8. /\ f \in Seq(T) /\ Len(f) <= Cardinality(A)
          /\ \A k \in 1..Len(f) : \E j \in A : f[k] = s[j]
          /\ \A j \in A : \E k \in 1..Len(f) : f[k] = s[j]
      BY <3>2
    <3>9. g = IF m \in K THEN Append(f, s[m]) ELSE f
      BY <3>3
    <3>10. m \in 1..Len(s) /\ s[m] \in T
      BY <2>3, <2>5
    <3> HIDE DEF A, B, f, g
    <3>11. /\ g \in Seq(T) /\ Len(g) <= Cardinality(B)
           /\ \A k \in 1..Len(g) : \E j \in B : g[k] = s[j]
           /\ \A j \in B : \E k \in 1..Len(g) : g[k] = s[j]
      <4>1. CASE m \notin K
        BY <4>1, <3>5, <3>8, <3>9
      <4>2. CASE m \in K
        <5>1. /\ g \in Seq(T) /\ Len(g) = Len(f) + 1 /\ g[Len(f) + 1] = s[m]
              /\ \A k \in 1..Len(f) : g[k] = f[k]
          BY <4>2, <3>8, <3>9, <3>10
        <5>2. Len(f) \in Nat
          BY <3>8
        <5>3. Len(g) <= Cardinality(B)
          BY <5>1, <5>2, <3>7, <3>8, <4>2
        <5>4. ASSUME NEW k \in 1..Len(g) PROVE \E j \in B : g[k] = s[j]
          <6>1. k \in 1..Len(f) \/ k = Len(f) + 1
            BY <5>1, <5>2
          <6> QED BY <6>1, <5>1, <3>8, <3>4, <4>2
        <5>5. ASSUME NEW j \in B PROVE \E k \in 1..Len(g) : g[k] = s[j]
          <6>1. CASE j = m
            BY <6>1, <5>1, <5>2
          <6>2. CASE j \in A
            <7>1. PICK k \in 1..Len(f) : f[k] = s[j]
              BY <6>2, <3>8
            <7> QED BY <7>1, <5>1, <5>2
          <6> QED BY <6>1, <6>2, <3>4, <4>2
        <5> QED BY <5>1, <5>3, <5>4, <5>5
      <4> QED BY <4>1, <4>2
    <3> QED BY <3>11, <2>3 DEF f, g, A, B
  <2> QED BY <2>4, <2>5
<1>4. Holds(Len(s))
  <2>1. Len(s) \in 0..Len(s)
    OBVIOUS
  <2> HIDE DEF Holds
  <2> QED BY <1>3, <2>1
<1>5. K \cap (1..Len(s)) = K
  OBVIOUS
<1> HIDE DEF Holds, S
<1>6. /\ F[Len(s)] \in Seq(T)
      /\ Len(F[Len(s)]) <= Cardinality(K)
      /\ \A k \in 1..Len(F[Len(s)]) : \E j \in K : F[Len(s)][k] = s[j]
      /\ \A j \in K : \E k \in 1..Len(F[Len(s)]) : F[Len(s)][k] = s[j]
  BY <1>4, <1>5 DEF Holds
<1>7. Range(F[Len(s)]) = {s[i] : i \in K}
  <2>1. Range(F[Len(s)]) = {F[Len(s)][k] : k \in 1..Len(F[Len(s)])}
    BY <1>6 DEF Range
  <2> DEFINE R == {F[Len(s)][k] : k \in 1..Len(F[Len(s)])}
             Q == {s[i] : i \in K}
  <2>2. ASSUME NEW x \in R PROVE x \in Q
    <3>1. PICK k \in 1..Len(F[Len(s)]) : x = F[Len(s)][k]
      OBVIOUS
    <3> QED BY <3>1, <1>6
  <2>3. ASSUME NEW x \in Q PROVE x \in R
    <3>1. PICK j \in K : x = s[j]
      OBVIOUS
    <3> QED BY <3>1, <1>6
  <2> HIDE DEF R, Q
  <2>4. R = Q
    BY <2>2, <2>3
  <2> QED BY <2>1, <2>4 DEF R, Q
<1> QED BY <1>2, <1>6, <1>7

(* Appending adds one element.                                             *)
LEMMA AppendRange ==
  ASSUME NEW T, NEW s \in Seq(T), NEW x \in T
  PROVE  /\ Append(s, x) \in Seq(T)
         /\ Len(Append(s, x)) = Len(s) + 1
         /\ Range(Append(s, x)) = Range(s) \cup {x}
<1>1. DOMAIN s = 1..Len(s) /\ DOMAIN Append(s, x) = 1..(Len(s) + 1) /\ Len(s) \in Nat
  OBVIOUS
<1>2. \A i \in 1..Len(s) : Append(s, x)[i] = s[i]
  OBVIOUS
<1>3. Append(s, x)[Len(s) + 1] = x
  OBVIOUS
<1>4. \A i \in 1..(Len(s) + 1) : i \in 1..Len(s) \/ i = Len(s) + 1
  BY <1>1
<1>5. ASSUME NEW y \in Range(Append(s, x)) PROVE y \in Range(s) \cup {x}
  <2>1. PICK i \in 1..(Len(s) + 1) : y = Append(s, x)[i]
    BY <1>1 DEF Range
  <2> QED BY <2>1, <1>1, <1>2, <1>3, <1>4 DEF Range
<1>6. ASSUME NEW y \in Range(s) \cup {x} PROVE y \in Range(Append(s, x))
  <2>1. CASE y = x
    <3>1. Len(s) + 1 \in DOMAIN Append(s, x)
      BY <1>1
    <3> QED BY <3>1, <2>1, <1>3 DEF Range
  <2>2. CASE y \in Range(s)
    <3>1. PICK i \in 1..Len(s) : y = s[i]
      BY <2>2, <1>1 DEF Range
    <3>2. i \in DOMAIN Append(s, x)
      BY <1>1
    <3> QED BY <3>1, <3>2, <1>2 DEF Range
  <2> QED BY <2>1, <2>2
<1>7. Append(s, x) \in Seq(T) /\ Len(Append(s, x)) = Len(s) + 1
  OBVIOUS
<1> QED BY <1>5, <1>6, <1>7

(* The elements of a sequence, and their ids.                              *)
LEMMA RangeTyped ==
  ASSUME NEW T, NEW s \in Seq(T)
  PROVE  /\ Len(s) \in Nat /\ DOMAIN s = 1..Len(s)
         /\ Range(s) \in SUBSET T
         /\ \A i \in 1..Len(s) : s[i] \in Range(s)
         /\ \A x \in Range(s) : \E i \in 1..Len(s) : x = s[i]
         /\ IdsOf(s) = {x.id : x \in Range(s)} \ {None}
<1>1. Len(s) \in Nat /\ DOMAIN s = 1..Len(s) /\ \A i \in 1..Len(s) : s[i] \in T
  OBVIOUS
<1>2. IdsOf(s) = {x.id : x \in Range(s)} \ {None}
  BY DEF IdsOf, Range
<1> QED BY <1>1, <1>2 DEF Range

LEMMA IdsFinite ==
  ASSUME NEW T, NEW s \in Seq(T)
  PROVE  IsFiniteSet(IdsOf(s)) /\ Cardinality(IdsOf(s)) <= Len(s) /\ Cardinality(IdsOf(s)) \in Nat
<1> DEFINE f == [i \in 1..Len(s) |-> s[i].id]
           I == {s[i].id : i \in 1..Len(s)}
<1>1. Len(s) \in Nat /\ DOMAIN s = 1..Len(s)
  OBVIOUS
<1>2. f \in Surjection(1..Len(s), I)
  BY DEF Surjection
<1>3. IsFiniteSet(1..Len(s)) /\ Cardinality(1..Len(s)) = Len(s)
  BY <1>1, FS_Interval
<1>4. IdsOf(s) \in SUBSET I
  BY <1>1 DEF IdsOf
<1> HIDE DEF f, I
<1>5. IsFiniteSet(I) /\ Cardinality(I) <= Len(s)
  BY <1>2, <1>3, FS_Surjection
<1>6. IsFiniteSet(IdsOf(s)) /\ Cardinality(IdsOf(s)) <= Cardinality(I)
  BY <1>4, <1>5, FS_Subset
<1>7. Cardinality(IdsOf(s)) \in Nat /\ Cardinality(I) \in Nat
  BY <1>5, <1>6, FS_CardinalityType
<1> QED BY <1>1, <1>5, <1>6, <1>7

---------------------------------------------------------------------------
(* Tabs *)

(* A tab is opened without an outcome or with the one of a transaction.    *)
Initials == {NoOutcome} \cup {Outcome(None, c) : c \in Codes}
TabType == [id : Ids, code : Codes, initial : Initials]
SnippetType == [id : Ids \cup {None}, name : Names, code : Codes]

(* Tabs that the page can be rendered with: ids are not shared, and what   *)
(* is focused, or what was current when the page was entered, is there.    *)
GoodTabs(defs, focus) ==
    /\ defs \in Seq(TabType) /\ 1 <= Len(defs) /\ Len(defs) <= MaxTabs
    /\ \A d, e \in Range(defs) : d.id = e.id => d = e
    /\ focus \in Ids \cup {None}
    /\ focus = None => Len(defs) = 1
    /\ OnPage => focus \in IdsOf(defs) \/ fallback \in IdsOf(defs)

GoodSnippets(snips) == snips \in Seq(SnippetType) /\ Len(snips) <= limits.snippets

TabsInv ==
    /\ GoodTabs(definitions, focused)
    /\ GoodSnippets(snippets)
    /\ fallback \in Ids \cup {None}
    /\ page \in {"templates", "history", "other"}
    /\ limits \in Limits

(* What is shown, or will be, belongs to the tab that is shown, or is late.*)
ExecutionInv ==
    /\ OnPage => /\ outcome \in {NoOutcome, LateOutcome, Shown.initial, Outcome(Shown.id, Shown.code)}
                 /\ running \subseteq {LateOutcome, Outcome(Shown.id, Shown.code)}
    /\ ~OnPage => outcome = NoOutcome /\ running = {}

LEMMA InitialsOf == \A o \in Initials : o.of = None
<1>1. NoOutcome.of = None
  BY DEF NoOutcome
<1>2. ASSUME NEW c \in Codes PROVE Outcome(None, c).of = None
  BY DEF Outcome
<1> QED BY <1>1, <1>2 DEF Initials

LEMMA Bounds == limits \in Limits => limits.snippets \in Nat /\ MaxTabs \in Nat /\ MaxTabs >= 2
BY BoundsAssumption

(* The page shows exactly one tab.                                         *)
LEMMA ShownOf ==
  ASSUME NEW defs, NEW focus, GoodTabs(defs, focus),
         NEW back, focus \in IdsOf(defs) \/ back \in IdsOf(defs)
  PROVE  \E d \in Range(defs) : ShownIn(defs, focus, back) = {d}
<1>1. Range(defs) \in SUBSET TabType /\ IdsOf(defs) = {x.id : x \in Range(defs)} \ {None}
  BY RangeTyped DEF GoodTabs
<1>2. CurrentTabId(defs, focus, back) \in IdsOf(defs)
  BY DEF CurrentTabId
<1>3. PICK d \in Range(defs) : d.id = CurrentTabId(defs, focus, back)
  BY <1>1, <1>2
<1>4. ShownIn(defs, focus, back) = {d}
  BY <1>3 DEF ShownIn, GoodTabs
<1> QED BY <1>4

LEMMA ShownTab ==
  ASSUME TabsInv, OnPage
  PROVE  /\ Shown \in Range(definitions) /\ Shown \in TabType
         /\ ShownIn(definitions, focused, fallback) = {Shown}
<1>1. PICK d \in Range(definitions) : ShownIn(definitions, focused, fallback) = {d}
  BY ShownOf DEF TabsInv, GoodTabs
<1>2. Shown = d
  BY <1>1 DEF Shown
<1> QED BY <1>1, <1>2, RangeTyped DEF TabsInv, GoodTabs

(* Random ids are new, as long as there is room for a tab.                 *)
LEMMA FreshIsNew ==
  ASSUME TabsInv, ExecutionInv, Len(definitions) < MaxTabs \/ Cardinality(IdsOf(definitions)) < 2
  PROVE  Fresh \in Ids /\ Fresh \notin IdsOf(definitions) /\ Fresh \notin IdsOf(snippets) /\ Fresh # None
<1> DEFINE S == IdsOf(definitions) \cup IdsOf(snippets)
           D == IdsOf(definitions)
           T == IdsOf(snippets)
<1>1. /\ IsFiniteSet(D) /\ Cardinality(D) <= Len(definitions) /\ Cardinality(D) \in Nat
      /\ IsFiniteSet(T) /\ Cardinality(T) <= Len(snippets) /\ Cardinality(T) \in Nat
  BY IdsFinite DEF TabsInv, GoodTabs, GoodSnippets
<1>2. limits.snippets \in Nat /\ MaxTabs \in Nat /\ MaxTabs >= 2 /\ Len(definitions) \in Nat /\ Len(snippets) \in Nat
  BY Bounds, RangeTyped DEF TabsInv, GoodTabs, GoodSnippets
<1>3. Len(snippets) <= limits.snippets
  BY DEF TabsInv, GoodSnippets
<1>4. S \in SUBSET Ids
  <2>1. Range(definitions) \in SUBSET TabType /\ IdsOf(definitions) = {x.id : x \in Range(definitions)} \ {None}
    BY RangeTyped DEF TabsInv, GoodTabs
  <2>2. Range(snippets) \in SUBSET SnippetType /\ IdsOf(snippets) = {x.id : x \in Range(snippets)} \ {None}
    BY RangeTyped DEF TabsInv, GoodSnippets
  <2>3. \A x \in TabType : x.id \in Ids
    BY DEF TabType
  <2>4. \A x \in SnippetType : x.id \in Ids \cup {None}
    BY DEF SnippetType
  <2> QED BY <2>1, <2>2, <2>3, <2>4
<1>5. IsFiniteSet(S) /\ Cardinality(S) <= Cardinality(D) + Cardinality(T)
  <2> HIDE DEF D, T
  <2>1. /\ IsFiniteSet(D \cup T)
        /\ Cardinality(D \cup T) = Cardinality(D) + Cardinality(T) - Cardinality(D \cap T)
    BY <1>1, FS_Union
  <2>2. Cardinality(D \cap T) \in Nat
    BY <1>1, FS_Subset, FS_CardinalityType
  <2> QED BY <2>1, <2>2, <1>1 DEF D, T
<1>6. Cardinality(S) < MaxTabs + limits.snippets
  <2>1. Cardinality(S) \in Nat
    BY <1>5, FS_CardinalityType
  <2> QED BY <2>1, <1>1, <1>2, <1>3, <1>5
<1>7. Ids \ S # {}
  <2> HIDE DEF S
  <2> QED BY <1>4, <1>5, <1>6, IdsAssumption DEF TabsInv
<1>8. outcome.of \in S \cup {None} /\ \A r \in running : r.of \in S \cup {None}
  <2>1. NoOutcome.of = None /\ LateOutcome.of = None
    BY DEF NoOutcome, LateOutcome
  <2>2. CASE ~OnPage
    BY <2>1, <2>2 DEF ExecutionInv
  <2>3. CASE OnPage
    <3>1. Shown \in Range(definitions) /\ Shown \in TabType
      BY <2>3, ShownTab
    <3>2. Shown.id \in S
      BY <3>1, IdsAssumption, RangeTyped DEF TabsInv, GoodTabs, TabType
    <3>3. Shown.initial.of = None
      BY <3>1, InitialsOf DEF TabType
    <3>4. Outcome(Shown.id, Shown.code).of = Shown.id
      BY DEF Outcome
    <3> HIDE DEF S
    <3> QED BY <2>1, <2>3, <3>2, <3>3, <3>4 DEF ExecutionInv
  <2> QED BY <2>2, <2>3
<1>9. PICK id \in Ids : id \notin S
  BY <1>7
<1>10. id \in Unused
  BY <1>8, <1>9, IdsAssumption DEF Unused
<1>11. Fresh \in Ids /\ Fresh \in Unused
  BY <1>10 DEF Fresh
<1> QED BY <1>11, IdsAssumption DEF Unused

LEMMA FreshIsId ==
  ASSUME limits \in Limits
  PROVE  Fresh \in Ids /\ Fresh # None
<1>1. Ids \ {} # {}
  <2>1. IsFiniteSet({}) /\ Cardinality({}) = 0
    BY FS_EmptySet
  <2>2. {} \in SUBSET Ids /\ Cardinality({}) < MaxTabs + limits.snippets
    BY <2>1, Bounds
  <2> QED BY <2>1, <2>2, IdsAssumption
<1>2. \E id \in Ids : Unused = {} \/ id \in Unused
  BY <1>1 DEF Unused
<1> QED BY <1>2, IdsAssumption DEF Fresh

LEMMA FreshOfSnippets ==
  ASSUME TabsInv
  PROVE  \E id \in Ids : id \notin IdsOf(snippets)
<1>1. /\ IsFiniteSet(IdsOf(snippets)) /\ Cardinality(IdsOf(snippets)) \in Nat
      /\ Cardinality(IdsOf(snippets)) <= Len(snippets) /\ Len(snippets) \in Nat
  BY IdsFinite, RangeTyped DEF TabsInv, GoodSnippets
<1>2. Cardinality(IdsOf(snippets)) < MaxTabs + limits.snippets
  BY <1>1, Bounds DEF TabsInv, GoodSnippets
<1>3. IdsOf(snippets) \in SUBSET Ids
  <2>1. IdsOf(snippets) = {x.id : x \in Range(snippets)} \ {None} /\ Range(snippets) \in SUBSET SnippetType
    BY RangeTyped DEF TabsInv, GoodSnippets
  <2> QED BY <2>1 DEF SnippetType
<1>4. Ids \ IdsOf(snippets) # {}
  BY <1>1, <1>2, <1>3, IdsAssumption DEF TabsInv
<1> QED BY <1>4

---------------------------------------------------------------------------
(* Steps *)

(* The tabs are rendered with good ones, and new ones have new ids.        *)
Good(defs, focus, snips) ==
    /\ GoodTabs(defs, focus)
    /\ GoodSnippets(snips)
    /\ \A d \in Range(defs) : d.id \in IdsOf(definitions) \/ d.id \notin IdsOf(snips)

Rendering(defs, focus, snips) ==
    /\ Good(defs, focus, snips)
    /\ RenderTabs(defs, focus)
    /\ snippets' = snips /\ page' = page /\ limits' = limits
    /\ IF OnPage THEN RenderHooks(defs, snips, page, FALSE) ELSE UNCHANGED parsing

(* The other steps leave the tabs alone, or are those of a new page.       *)
Quiet ==
    \/ EditArguments \/ Leave \/ Enter \/ Reload \/ Execute \/ FocusWindow
    \/ \E side \in {"templates", "history"} : ShowMenu(side)
    \/ \E r \in running : ExecutionEnds(r)
    \/ UNCHANGED <<tabs, page, snippets, parsing, execution>>

LEMMA TabsNow ==
  ASSUME TabsInv
  PROVE  /\ Range(definitions) \in SUBSET TabType
         /\ IdsOf(definitions) = {x.id : x \in Range(definitions)} \ {None}
         /\ \A x \in Range(definitions) : x.id \in Ids /\ x.id # None /\ x.id \in IdsOf(definitions)
         /\ Len(definitions) \in Nat /\ DOMAIN definitions = 1..Len(definitions)
         /\ \A i \in 1..Len(definitions) : definitions[i] \in Range(definitions)
         /\ \A x \in Range(definitions) : \E i \in 1..Len(definitions) : x = definitions[i]
<1>1. \A x \in TabType : x.id \in Ids
  BY DEF TabType
<1> QED BY <1>1, RangeTyped, IdsAssumption DEF TabsInv, GoodTabs

LEMMA SameTabs ==
  ASSUME TabsInv, NEW snips, GoodSnippets(snips)
  PROVE  /\ Good(definitions, focused, snips)
         /\ \A id \in IdsOf(definitions) : Good(definitions, id, snips)
<1>1. \A id \in IdsOf(definitions) : id \in Ids /\ id # None
  BY TabsNow
<1>2. \A d \in Range(definitions) : d.id \in IdsOf(definitions)
  BY TabsNow
<1> QED BY <1>1, <1>2 DEF TabsInv, Good, GoodTabs

LEMMA OneMore ==
  ASSUME TabsInv, ExecutionInv, Len(definitions) < MaxTabs,
         NEW c \in Codes, NEW o \in Initials
  PROVE  Good(Append(definitions, Definition(Fresh, c, o)), Fresh, snippets)
<1> DEFINE new == Definition(Fresh, c, o)
           defs == Append(definitions, new)
<1>1. Fresh \in Ids /\ Fresh \notin IdsOf(definitions) /\ Fresh \notin IdsOf(snippets) /\ Fresh # None
  BY FreshIsNew
<1>2. new \in TabType /\ new.id = Fresh
  BY <1>1 DEF TabType, Definition
<1> HIDE DEF new
<1>3. /\ defs \in Seq(TabType) /\ Len(defs) = Len(definitions) + 1
      /\ Range(defs) = Range(definitions) \cup {new}
  BY <1>2, AppendRange DEF TabsInv, GoodTabs
<1>4. Fresh \in IdsOf(defs)
  <2> HIDE DEF defs
  <2>1. IdsOf(defs) = {x.id : x \in Range(defs)} \ {None}
    BY <1>3, RangeTyped
  <2>2. new \in Range(defs)
    BY <1>3
  <2> QED BY <1>1, <1>2, <2>1, <2>2
<1>5. \A d, e \in Range(defs) : d.id = e.id => d = e
  <2>1. \A d \in Range(definitions) : d.id # new.id
    BY <1>1, <1>2, TabsNow
  <2> QED BY <2>1, <1>3 DEF TabsInv, GoodTabs
<1>6. \A d \in Range(defs) : d.id \in IdsOf(definitions) \/ d.id \notin IdsOf(snippets)
  BY <1>1, <1>2, <1>3, TabsNow
<1>7. 1 <= Len(defs) /\ Len(defs) <= MaxTabs
  BY <1>3, TabsNow, BoundsAssumption
<1>8. GoodTabs(defs, Fresh)
  BY <1>1, <1>3, <1>4, <1>5, <1>7 DEF GoodTabs
<1>9. Good(defs, Fresh, snippets)
  BY <1>6, <1>8 DEF Good, TabsInv
<1> QED BY <1>9 DEF new

LEMMA CreateRenders ==
  ASSUME TabsInv, ExecutionInv, NEW c \in Codes, NEW o \in Initials, NEW deduplicate,
         Create(Definition(Fresh, c, o), deduplicate), UNCHANGED limits
  PROVE  \E defs, focus, snips : Rendering(defs, focus, snips)
<1> DEFINE new == Definition(Fresh, c, o)
           E == {i \in DOMAIN definitions :
                    IF deduplicate THEN Equivalent(definitions[i].code, new.code)
                    ELSE definitions[i].id = new.id}
<1>1. CASE E # {}
  <2> DEFINE i == CHOOSE i \in E : \A j \in E : i <= j
  <2>1. Focus(definitions[i].id)
    BY <1>1 DEF Create
  <2>2. E \in SUBSET Nat
    BY TabsNow
  <2>3. \E k \in E : \A j \in E : k <= j
    <3> HIDE DEF E
    <3> QED BY <1>1, <2>2, Least
  <2>4. i \in E
    <3> HIDE DEF E
    <3> QED BY <2>3
  <2>5. i \in 1..Len(definitions)
    BY <2>4, TabsNow
  <2>6. definitions[i].id \in IdsOf(definitions)
    <3> HIDE DEF i, E
    <3> QED BY <2>5, TabsNow
  <2>7. Good(definitions, definitions[i].id, snippets)
    <3> HIDE DEF i, E
    <3> QED BY <2>6, SameTabs DEF TabsInv
  <2> HIDE DEF i, E
  <2>8. Rendering(definitions, definitions[i].id, snippets)
    BY <2>1, <2>7 DEF Focus, Render, Rendering
  <2> QED BY <2>8
<1>2. CASE E = {}
  <2>1. Len(definitions) < MaxTabs /\ Render(Append(definitions, new), new.id, snippets)
    BY <1>2 DEF Create
  <2>2. new.id = Fresh
    BY DEF Definition
  <2>3. Good(Append(definitions, new), Fresh, snippets)
    BY <2>1, OneMore
  <2> HIDE DEF new, E
  <2>4. Rendering(Append(definitions, new), Fresh, snippets)
    BY <2>1, <2>2, <2>3 DEF Render, Rendering
  <2> QED BY <2>4
<1> QED BY <1>1, <1>2

(* A tab is closed: what is left, or a new empty tab, is good.             *)
LEMMA RemoveRenders ==
  ASSUME TabsInv, ExecutionInv, NEW id \in IdsOf(definitions), RemoveTab(id), UNCHANGED limits
  PROVE  \E defs, focus, snips : Rendering(defs, focus, snips)
<1> DEFINE K == {i \in DOMAIN definitions : definitions[i].id # id}
           others == Keep(definitions, K)
<1>1. Len(definitions) \in Nat /\ K \in SUBSET (1..Len(definitions)) /\ definitions \in Seq(TabType)
  BY TabsNow DEF TabsInv, GoodTabs
<1>2. others \in Seq(TabType) /\ Len(others) <= Cardinality(K) /\ Range(others) = {definitions[i] : i \in K}
  <2> HIDE DEF K
  <2> QED BY <1>1, KeepSound
<1>3. Range(others) = {d \in Range(definitions) : d.id # id}
  BY <1>2, TabsNow
<1>4. Len(others) <= Len(definitions) /\ Len(others) \in Nat
  <2>1. IsFiniteSet(1..Len(definitions)) /\ Cardinality(1..Len(definitions)) = Len(definitions)
    BY <1>1, FS_Interval
  <2> HIDE DEF K
  <2>2. IsFiniteSet(K) /\ Cardinality(K) <= Len(definitions)
    BY <1>1, <2>1, FS_Subset
  <2>3. Cardinality(K) \in Nat
    BY <2>2, FS_CardinalityType
  <2>4. Len(others) \in Nat
    BY <1>2
  <2> QED BY <1>1, <1>2, <2>2, <2>3, <2>4
<1>5. Recreate(others)
  BY DEF RemoveTab
<1> HIDE DEF K, others
<1>6. CASE others = <<>>
  <2> DEFINE new == DefaultInteraction(Fresh)
             defs == <<new>>
  <2>1. Range(definitions) \in SUBSET {d \in TabType : d.id = id}
    <3>1. Range(others) = {}
      <4>1. Len(others) = 0
        BY <1>6
      <4>2. 1..0 = {}
        OBVIOUS
      <4> QED BY <4>1, <4>2, <1>2, RangeTyped
    <3> QED BY <3>1, <1>3, TabsNow
  <2>2. Cardinality(IdsOf(definitions)) < 2
    <3>1. IdsOf(definitions) = {id}
      BY <2>1, TabsNow
    <3>2. Cardinality({id}) = 1
      BY FS_Singleton
    <3>3. Cardinality(IdsOf(definitions)) = 1
      BY <3>1, <3>2, Zenon
    <3> QED BY <3>3
  <2>3. Fresh \in Ids /\ Fresh \notin IdsOf(snippets) /\ Fresh # None
    BY <2>2, FreshIsNew
  <2>4. new \in TabType /\ new.id = Fresh
    BY <2>3, CodesAssumption DEF DefaultInteraction, Definition, TabType, Initials
  <2> HIDE DEF new
  <2>5. defs \in Seq(TabType) /\ Len(defs) = 1 /\ DOMAIN defs = {1} /\ defs[1] = new
    BY <2>4
  <2>6. Range(defs) = {new} /\ Fresh \in IdsOf(defs)
    <3> HIDE DEF defs
    <3> QED BY <2>3, <2>4, <2>5 DEF Range, IdsOf
  <2>7. 1 <= Len(defs) /\ Len(defs) <= MaxTabs
    BY <2>5, BoundsAssumption
  <2> HIDE DEF defs
  <2>8. GoodTabs(defs, Fresh)
    BY <2>3, <2>5, <2>6, <2>7 DEF GoodTabs
  <2>9. Good(defs, Fresh, snippets)
    BY <2>3, <2>4, <2>6, <2>8 DEF Good, TabsInv
  <2>10. Render(defs, Fresh, snippets)
    BY <1>5, <1>6 DEF Recreate, new, defs
  <2>11. Rendering(defs, Fresh, snippets)
    BY <2>9, <2>10 DEF Render, Rendering
  <2> QED BY <2>11
<1>7. CASE others # <<>>
  <2> DEFINE f == Last(others).id
  <2>1. 1 <= Len(others) /\ Len(others) <= MaxTabs
    <3>1. Len(others) # 0
      BY <1>2, <1>4, <1>7
    <3>2. Len(definitions) <= MaxTabs
      BY DEF TabsInv, GoodTabs
    <3> QED BY <3>1, <3>2, <1>1, <1>4, BoundsAssumption
  <2>2. Last(others) \in Range(others)
    <3>1. Len(others) \in 1..Len(others)
      BY <1>4, <2>1
    <3> QED BY <3>1, <1>2, RangeTyped DEF Last
  <2>3. f \in Ids /\ f # None /\ f \in IdsOf(others)
    <3>1. f \in Ids /\ f # None
      BY <1>3, <2>2, TabsNow
    <3>2. IdsOf(others) = {x.id : x \in Range(others)} \ {None}
      BY <1>2, RangeTyped
    <3> QED BY <3>1, <3>2, <2>2
  <2>4. \A d, e \in Range(others) : d.id = e.id => d = e
    BY <1>3 DEF TabsInv, GoodTabs
  <2> HIDE DEF f
  <2>5. GoodTabs(others, f)
    BY <1>2, <2>1, <2>3, <2>4 DEF GoodTabs
  <2>6. Good(others, f, snippets)
    BY <1>3, <2>5, TabsNow DEF Good, TabsInv
  <2>7. Render(others, f, snippets)
    BY <1>5, <1>7 DEF Recreate, f
  <2>8. Rendering(others, f, snippets)
    BY <2>6, <2>7 DEF Render, Rendering
  <2> QED BY <2>8
<1> QED BY <1>6, <1>7

(* The source of the tab that is shown is edited.                          *)
LEMMA EditRenders ==
  ASSUME TabsInv, ExecutionInv, NEW code \in Codes, EditCode(code), UNCHANGED limits
  PROVE  \E defs, focus, snips : Rendering(defs, focus, snips)
<1> DEFINE new == [Shown EXCEPT !.code = code]
           defs == [i \in DOMAIN definitions |->
                       IF definitions[i].id = new.id THEN new ELSE definitions[i]]
<1>1. OnPage /\ Shown \in Range(definitions) /\ Shown \in TabType
  BY ShownTab DEF EditCode
<1>2. new \in TabType /\ new.id = Shown.id
  BY <1>1 DEF TabType
<1>3. Render(defs, focused, snippets)
  BY DEF EditCode, Update
<1> HIDE DEF new
<1>4. \A i \in 1..Len(definitions) : definitions[i] \in TabType
  BY TabsNow
<1>5. defs \in Seq(TabType) /\ Len(defs) = Len(definitions) /\ DOMAIN defs = 1..Len(definitions)
  <2>1. Len(definitions) \in Nat /\ DOMAIN definitions = 1..Len(definitions)
    BY TabsNow
  <2>2. defs \in [1..Len(definitions) -> TabType]
    BY <1>2, <1>4, <2>1
  <2> HIDE DEF defs
  <2> QED BY <2>1, <2>2
<1>6. Range(defs) = {IF d.id = new.id THEN new ELSE d : d \in Range(definitions)}
  BY <1>5, TabsNow DEF Range
<1>7. \A d, e \in Range(defs) : d.id = e.id => d = e
  <2> HIDE DEF defs
  <2> QED BY <1>6 DEF TabsInv, GoodTabs
<1>8. IdsOf(defs) = IdsOf(definitions)
  <2> HIDE DEF defs
  <2>1. IdsOf(defs) = {x.id : x \in Range(defs)} \ {None}
    BY <1>5, RangeTyped
  <2>2. {x.id : x \in Range(defs)} = {x.id : x \in Range(definitions)}
    BY <1>6
  <2> QED BY <2>1, <2>2, TabsNow
<1> HIDE DEF defs
<1>9. GoodTabs(defs, focused)
  BY <1>5, <1>7, <1>8 DEF TabsInv, GoodTabs
<1>10. \A d \in Range(defs) : d.id \in IdsOf(definitions)
  BY <1>6, TabsNow
<1>11. Good(defs, focused, snippets)
  BY <1>9, <1>10 DEF Good, TabsInv
<1>12. Rendering(defs, focused, snippets)
  BY <1>3, <1>11 DEF Render, Rendering
<1> QED BY <1>12

(* A snippet is stored, in the place of those with its id.                 *)
LEMMA StoreRenders ==
  ASSUME TabsInv, NEW template \in SnippetType, Store(template), UNCHANGED <<limits, page, flixLoaded>>
  PROVE  \E defs, focus, snips : Rendering(defs, focus, snips)
<1> DEFINE K == {i \in DOMAIN snippets : snippets[i].id # template.id}
           rest == Keep(snippets, K)
           snips == Append(rest, template)
<1>1. snippets \in Seq(SnippetType) /\ K \in SUBSET (1..Len(snippets))
  BY DEF TabsInv, GoodSnippets
<1>2. rest \in Seq(SnippetType)
  <2> HIDE DEF K
  <2> QED BY <1>1, KeepSound
<1>3. snips \in Seq(SnippetType)
  <2> HIDE DEF rest
  <2> QED BY <1>2, AppendRange
<1>4. Len(snips) <= limits.snippets /\ Render(definitions, focused, snips)
  BY DEF Store, SaveAsSessionTemplate
<1> HIDE DEF snips
<1>5. GoodSnippets(snips)
  BY <1>3, <1>4 DEF GoodSnippets
<1>6. Rendering(definitions, focused, snips)
  BY <1>4, <1>5, SameTabs DEF Render, Rendering
<1> QED BY <1>6

LEMMA DeleteRenders ==
  ASSUME TabsInv, NEW i \in DOMAIN snippets, Delete(i), UNCHANGED limits
  PROVE  \E defs, focus, snips : Rendering(defs, focus, snips)
<1> DEFINE K == {j \in DOMAIN snippets : snippets[j].name # snippets[i].name}
           snips == Keep(snippets, K)
<1>1. snippets \in Seq(SnippetType) /\ K \in SUBSET (1..Len(snippets)) /\ Len(snippets) \in Nat
  BY DEF TabsInv, GoodSnippets
<1>2. IsFiniteSet(1..Len(snippets)) /\ Cardinality(1..Len(snippets)) = Len(snippets)
  BY <1>1, FS_Interval
<1>3. Render(definitions, focused, snips)
  BY DEF Delete
<1> HIDE DEF K
<1>4. snips \in Seq(SnippetType) /\ Len(snips) <= Cardinality(K)
  BY <1>1, KeepSound
<1>5. IsFiniteSet(K) /\ Cardinality(K) <= Len(snippets)
  BY <1>1, <1>2, FS_Subset
<1>6. Cardinality(K) \in Nat
  BY <1>5, FS_CardinalityType
<1>7. limits.snippets \in Nat /\ Len(snippets) <= limits.snippets
  BY Bounds DEF TabsInv, GoodSnippets
<1> HIDE DEF snips
<1>8. Len(snips) <= limits.snippets
  <2>1. Len(snips) \in Nat
    BY <1>4
  <2> QED BY <2>1, <1>1, <1>4, <1>5, <1>6, <1>7
<1>9. Rendering(definitions, focused, snips)
  BY <1>3, <1>4, <1>8, SameTabs DEF Render, Rendering, GoodSnippets
<1> QED BY <1>9

(* Every template is code.                                                 *)
LEMMA TemplateCodes ==
  ASSUME TabsInv
  PROVE  \A t \in Templates \cup Published : t.code \in Codes
<1>1. \A t \in FileTemplates : t.code \in Codes
  BY CodesAssumption DEF FileTemplates, Template
<1>2. \A t \in Published : t.code \in Codes
  BY CodesAssumption DEF Published, Template
<1>3. \A t \in Snippets(snippets) : t.code \in Codes
  <2>1. \A i \in DOMAIN snippets : snippets[i] \in SnippetType
    BY DEF TabsInv, GoodSnippets
  <2>2. \A i \in DOMAIN snippets : snippets[i].code \in Codes
    BY <2>1 DEF SnippetType
  <2> QED BY <2>2 DEF Snippets, Template
<1> QED BY <1>1, <1>2, <1>3 DEF Templates

LEMMA Steps ==
  ASSUME TabsInv, ExecutionInv, Next
  PROVE  \/ Quiet /\ UNCHANGED limits
         \/ \E defs, focus, snips : Rendering(defs, focus, snips)
<1> DEFINE Renders == \E defs, focus, snips : Rendering(defs, focus, snips)
<1> HIDE DEF Renders
<1>1. NoOutcome \in Initials /\ \A c \in Codes : Outcome(None, c) \in Initials
  BY DEF Initials
<1>2. ASSUME AddNew PROVE Renders
  <2>1. Create(Definition(Fresh, Empty, NoOutcome), FALSE)
    BY <1>2 DEF AddNew, DefaultInteraction
  <2> QED BY <2>1, <1>1, CreateRenders, CodesAssumption DEF Next, Renders
<1>3. ASSUME NEW i \in DOMAIN definitions, SelectTab(i) PROVE Renders
  <2>1. definitions[i].id \in IdsOf(definitions)
    BY TabsNow
  <2>2. Good(definitions, definitions[i].id, snippets)
    BY <2>1, SameTabs DEF TabsInv
  <2>3. Rendering(definitions, definitions[i].id, snippets)
    BY <1>3, <2>2 DEF SelectTab, Focus, Render, Rendering, Next
  <2> QED BY <2>3 DEF Renders
<1>4. ASSUME NEW i \in DOMAIN definitions, CloseTab(i) \/ Discard(i) PROVE Renders
  <2>1. definitions[i].id \in IdsOf(definitions)
    BY TabsNow
  <2>2. RemoveTab(definitions[i].id)
    BY <1>4 DEF CloseTab, Discard
  <2> QED BY <2>1, <2>2, RemoveRenders DEF Next, Renders
<1>5. ASSUME NEW i \in DOMAIN definitions, NEW name \in Names, Save(i, name) PROVE Renders
  <2>1. definitions[i] \in TabType
    BY TabsNow
  <2>2. Snippet(definitions[i].id, name, definitions[i].code) \in SnippetType
    BY <2>1 DEF Snippet, SnippetType, TabType
  <2>3. UNCHANGED <<page, flixLoaded>>
    BY <1>5 DEF Save, Store, Render
  <2> QED BY <1>5, <2>2, <2>3, StoreRenders DEF Save, Next, Renders
<1>6. ASSUME NEW i \in DOMAIN snippets, NEW name \in Names, Rename(i, name) PROVE Renders
  <2>1. snippets[i] \in SnippetType
    BY DEF TabsInv, GoodSnippets
  <2>2. Snippet(IF snippets[i].id = None THEN Fresh ELSE snippets[i].id, name, snippets[i].code) \in SnippetType
    BY <2>1, FreshIsId DEF Snippet, SnippetType, TabsInv
  <2>3. Store(Snippet(IF snippets[i].id = None THEN Fresh ELSE snippets[i].id, name, snippets[i].code))
    BY <1>6 DEF Rename
  <2>4. UNCHANGED <<page, flixLoaded>>
    BY <2>3 DEF Store, Render
  <2> QED BY <2>2, <2>3, <2>4, StoreRenders DEF Next, Renders
<1>7. ASSUME NEW i \in DOMAIN snippets, Delete(i) PROVE Renders
  BY <1>7, DeleteRenders DEF Next, Renders
<1>8. ASSUME NEW code \in Codes, EditCode(code) PROVE Renders
  BY <1>8, EditRenders DEF Next, Renders
<1>9. ASSUME NEW filter \in Filters, OpenTemplate(filter) PROVE Renders
  <2>1. PICK t \in Templates : Create(OpenedAs(t), FALSE)
    BY <1>9 DEF OpenTemplate, Listed
  <2>2. t.code \in Codes
    BY TemplateCodes
  <2> QED BY <2>1, <2>2, <1>1, CreateRenders DEF OpenedAs, Next, Renders
<1>10. ASSUME NEW code \in Transactions, OpenTransaction(code) \/ OpenInteraction(code) PROVE Renders
  <2>1. code \in Codes
    BY CodesAssumption
  <2>2. Create(Definition(Fresh, code, Outcome(None, code)), FALSE)
        \/ Create(Definition(Fresh, code, Outcome(None, code)), TRUE)
    BY <1>10 DEF OpenTransaction, OpenInteraction, Opened
  <2> QED BY <2>1, <2>2, <1>1, CreateRenders DEF Next, Renders
<1>11. ASSUME LoadFlix PROVE Renders \/ Quiet
  <2>1. CASE UNCHANGED <<tabs, parsing, execution>>
    BY <1>11, <2>1 DEF LoadFlix, Quiet, Next
  <2>2. ASSUME NEW t \in Published, focused = None,
               RenderTabs(Append(definitions, OpenedAs(t)), OpenedAs(t).id),
               IF OnPage THEN RenderHooks(Append(definitions, OpenedAs(t)), snippets, page, FALSE)
               ELSE UNCHANGED parsing
        PROVE  Renders
    <3>1. Len(definitions) < MaxTabs
      BY <2>2, BoundsAssumption DEF TabsInv, GoodTabs
    <3>2. t.code \in Codes
      BY TemplateCodes
    <3>3. Good(Append(definitions, OpenedAs(t)), Fresh, snippets)
      BY <3>1, <3>2, <1>1, OneMore DEF OpenedAs
    <3>4. OpenedAs(t).id = Fresh
      BY DEF OpenedAs, Definition
    <3>5. UNCHANGED <<page, snippets, limits>>
      BY <1>11 DEF LoadFlix, Next
    <3>6. Rendering(Append(definitions, OpenedAs(t)), Fresh, snippets)
      BY <2>2, <3>3, <3>4, <3>5 DEF Rendering
    <3> QED BY <3>6 DEF Renders
  <2> QED BY <1>11, <2>1, <2>2 DEF LoadFlix
<1>12. CASE Quiet
  BY <1>12 DEF Next
<1>13. Renders \/ Quiet
  BY <1>2, <1>3, <1>4, <1>5, <1>6, <1>7, <1>8, <1>9, <1>10, <1>11 DEF Next, Step, Quiet
<1> QED BY <1>13 DEF Next, Renders

---------------------------------------------------------------------------
(* The tabs are good in every state *)

LEMMA LoadedTabs ==
  ASSUME NEW id \in Ids
  PROVE  LET defs == <<DefaultInteraction(id)>>
         IN  /\ defs \in Seq(TabType) /\ Len(defs) = 1
             /\ Range(defs) = {Definition(id, Empty, NoOutcome)}
             /\ IdsOf(defs) = {id}
<1> DEFINE new == DefaultInteraction(id)
           defs == <<new>>
<1>1. new \in TabType /\ new.id = id /\ new = Definition(id, Empty, NoOutcome)
  BY CodesAssumption DEF DefaultInteraction, Definition, TabType, Initials
<1> HIDE DEF new
<1>2. defs \in Seq(TabType) /\ Len(defs) = 1 /\ DOMAIN defs = {1} /\ defs[1] = new
  BY <1>1
<1>3. Range(defs) = {new} /\ IdsOf(defs) = {id}
  <2> HIDE DEF defs
  <2> QED BY <1>1, <1>2, IdsAssumption DEF Range, IdsOf
<1> QED BY <1>1, <1>2, <1>3 DEF new

(* Where the tabs are rendered, the id that is current is one of theirs.   *)
LEMMA Rendered ==
  ASSUME NEW defs, NEW focus, NEW snips, Rendering(defs, focus, snips)
  PROVE  /\ definitions' = defs /\ focused' = focus /\ snippets' = snips
         /\ page' = page /\ limits' = limits
         /\ fallback' = IF fallback \in IdsOf(defs) THEN fallback ELSE None
         /\ GoodTabs(defs, focus) /\ GoodSnippets(snips)
BY DEF Rendering, Good, RenderTabs

LEMMA TabsStart == Init => TabsInv
<1> SUFFICES ASSUME Init PROVE TabsInv
  OBVIOUS
<1>1. limits \in Limits
  BY DEF Init
<1>2. PICK id \in Ids : definitions = <<DefaultInteraction(id)>> /\ fallback = id
  <2>1. \E i \in Ids : TRUE
    BY <1>1, FreshIsId
  <2> QED BY <2>1 DEF Init
<1>3. /\ definitions \in Seq(TabType) /\ Len(definitions) = 1
      /\ Range(definitions) = {Definition(id, Empty, NoOutcome)}
      /\ IdsOf(definitions) = {id}
  BY <1>2, LoadedTabs
<1>4. focused = None /\ page \in {"templates", "history", "other"}
  BY PageAssumption DEF Init
<1>5. snippets \in Seq(SnippetType) /\ Len(snippets) <= limits.snippets
  <2>1. CASE snippets = <<>>
    BY <2>1, <1>1, Bounds
  <2>2. ASSUME NEW n \in Names, NEW c \in Codes, limits.snippets > 0, snippets = <<Snippet(None, n, c)>>
        PROVE  snippets \in Seq(SnippetType) /\ Len(snippets) <= limits.snippets
    <3>1. Snippet(None, n, c) \in SnippetType
      BY DEF Snippet, SnippetType
    <3>2. snippets \in Seq(SnippetType) /\ Len(snippets) = 1
      BY <2>2, <3>1
    <3> QED BY <2>2, <3>2, <1>1, Bounds
  <2> QED BY <2>1, <2>2 DEF Init
<1>6. GoodTabs(definitions, focused)
  BY <1>2, <1>3, <1>4, BoundsAssumption DEF GoodTabs
<1> QED BY <1>1, <1>2, <1>4, <1>5, <1>6 DEF TabsInv, GoodSnippets

LEMMA TabsStep == TabsInv /\ ExecutionInv /\ Next => TabsInv'
<1> SUFFICES ASSUME TabsInv, ExecutionInv, Next PROVE TabsInv'
  OBVIOUS
<1>1. ASSUME NEW defs, NEW focus, NEW snips, Rendering(defs, focus, snips) PROVE TabsInv'
  BY <1>1, Rendered DEF TabsInv, GoodTabs, GoodSnippets, OnPage
<1>2. ASSUME UNCHANGED limits, UNCHANGED <<tabs, page, snippets>> PROVE TabsInv'
  BY <1>2 DEF TabsInv, GoodTabs, GoodSnippets, OnPage, tabs
<1>3. CASE Leave /\ UNCHANGED limits
  BY <1>3 DEF Leave, TabsInv, GoodTabs, GoodSnippets, OnPage
<1>4. CASE Enter /\ UNCHANGED limits
  <2>1. Head(definitions).id \in IdsOf(definitions) /\ Head(definitions).id \in Ids
    <3>1. 1 \in 1..Len(definitions) /\ Head(definitions) = definitions[1]
      BY DEF TabsInv, GoodTabs
    <3> QED BY <3>1, TabsNow
  <2>2. /\ UNCHANGED <<definitions, focused, snippets, limits>>
        /\ page' = MenuFirst /\ fallback' = Head(definitions).id
    BY <1>4 DEF Enter
  <2> QED BY <2>1, <2>2, PageAssumption DEF TabsInv, GoodTabs, GoodSnippets, OnPage
<1>5. CASE Reload /\ UNCHANGED limits
  <2> DEFINE id == CHOOSE id \in Ids : id \notin IdsOf(snippets)
  <2>1. id \in Ids
    <3>1. \E i \in Ids : i \notin IdsOf(snippets)
      BY FreshOfSnippets
    <3> QED BY <3>1
  <2> HIDE DEF id
  <2>2. /\ definitions' = <<DefaultInteraction(id)>> /\ focused' = None /\ fallback' = id
        /\ page' = MenuFirst /\ UNCHANGED <<snippets, limits>>
    BY <1>5 DEF Reload, Load, id
  <2>3. /\ definitions' \in Seq(TabType) /\ Len(definitions') = 1
        /\ Range(definitions') = {Definition(id, Empty, NoOutcome)}
        /\ IdsOf(definitions') = {id}
    BY <2>1, <2>2, LoadedTabs
  <2>4. GoodTabs(definitions, focused)'
    BY <2>1, <2>2, <2>3, BoundsAssumption DEF GoodTabs
  <2> QED BY <2>1, <2>2, <2>4, PageAssumption DEF TabsInv, GoodSnippets
<1>6. ASSUME NEW side \in {"templates", "history"}, ShowMenu(side), UNCHANGED limits PROVE TabsInv'
  BY <1>6 DEF ShowMenu, TabsInv, GoodTabs, GoodSnippets, OnPage, tabs
<1>7. CASE Quiet /\ UNCHANGED limits
  <2>1. ASSUME NEW r \in running, ExecutionEnds(r) PROVE TabsInv'
    BY <2>1, <1>2, <1>7 DEF ExecutionEnds
  <2>2. CASE EditArguments \/ Execute \/ FocusWindow
    BY <2>2, <1>2, <1>7 DEF EditArguments, Execute, FocusWindow
  <2>3. CASE UNCHANGED <<tabs, page, snippets, parsing, execution>>
    BY <2>3, <1>2, <1>7
  <2> QED BY <1>7, <1>3, <1>4, <1>5, <1>6, <2>1, <2>2, <2>3 DEF Quiet
<1> QED BY <1>1, <1>7, Steps

---------------------------------------------------------------------------
(* What is shown belongs to the tab that is shown *)

(* The tab that is shown after a rendering.                                *)
LEMMA ShownNext ==
  ASSUME NEW defs, NEW focus, NEW snips, Rendering(defs, focus, snips), OnPage
  PROVE  ShownIn(defs, focus, fallback) = {Shown'}
<1>1. /\ definitions' = defs /\ focused' = focus
      /\ fallback' = IF fallback \in IdsOf(defs) THEN fallback ELSE None
      /\ GoodTabs(defs, focus)
  BY Rendered
<1>2. CurrentTabId(defs, focus, fallback') = CurrentTabId(defs, focus, fallback)
  BY <1>1 DEF CurrentTabId, GoodTabs
<1>3. ShownIn(defs, focus, fallback') = ShownIn(defs, focus, fallback)
  BY <1>2 DEF ShownIn
<1>4. PICK d \in Range(defs) : ShownIn(defs, focus, fallback) = {d}
  BY <1>1, ShownOf DEF GoodTabs
<1>5. Shown' = d
  BY <1>1, <1>3, <1>4 DEF Shown
<1> QED BY <1>4, <1>5

LEMMA ExecutionStart == Init => ExecutionInv
BY DEF Init, ExecutionInv

LEMMA ExecutionStep == TabsInv /\ ExecutionInv /\ Next => ExecutionInv'
<1> SUFFICES ASSUME TabsInv, ExecutionInv, Next PROVE ExecutionInv'
  OBVIOUS
<1> USE DEF OnPage
<1>1. ASSUME NEW defs, NEW focus, NEW snips, Rendering(defs, focus, snips) PROVE ExecutionInv'
  <2> DEFINE new == ShownIn(defs, focus, fallback)
  <2>1. /\ outcome' = IF OnPage /\ Shown \notin new
                      THEN IF new = {} THEN NoOutcome ELSE (CHOOSE d \in new : TRUE).initial
                      ELSE outcome
        /\ running' = {IF Shown \in new THEN r ELSE LateOutcome : r \in running}
        /\ page' = page
    BY <1>1 DEF Rendering, RenderTabs, ResetOutcome
  <2>2. CASE ~OnPage
    BY <2>1, <2>2 DEF ExecutionInv
  <2>3. CASE OnPage
    <3>1. new = {Shown'}
      BY <1>1, <2>3, ShownNext
    <3> HIDE DEF new
    <3>2. CASE Shown \in new
      <4>1. Shown' = Shown /\ outcome' = outcome /\ running' = running
        BY <2>1, <3>1, <3>2
      <4> QED BY <4>1, <2>1, <2>3 DEF ExecutionInv, Outcome, NoOutcome, LateOutcome
    <3>3. CASE Shown \notin new
      <4>1. outcome' = Shown'.initial /\ running' \subseteq {LateOutcome}
        BY <2>1, <2>3, <3>1, <3>3
      <4> QED BY <4>1, <2>1, <2>3 DEF ExecutionInv, Outcome, NoOutcome, LateOutcome
    <3> QED BY <3>2, <3>3
  <2> QED BY <2>2, <2>3
<1>2. ASSUME UNCHANGED tabs PROVE Shown' = Shown
  BY <1>2 DEF tabs, Shown, ShownIn, CurrentTabId
<1>3. ASSUME UNCHANGED <<tabs, execution>>, OnPage <=> OnPage' PROVE ExecutionInv'
  <2>1. Shown' = Shown
    BY <1>2, <1>3
  <2> QED BY <1>3, <2>1 DEF ExecutionInv, execution, Outcome, NoOutcome, LateOutcome
<1>4. CASE EditArguments
  <2>1. Shown' = Shown /\ page' = page /\ outcome' = Shown.initial /\ running' \subseteq {LateOutcome} /\ OnPage
    BY <1>2, <1>4 DEF EditArguments
  <2> QED BY <2>1 DEF ExecutionInv, LateOutcome
<1>5. CASE Leave \/ Reload
  BY <1>5 DEF Leave, Reload, Load, ExecutionInv, NoOutcome
<1>6. CASE Enter
  <2>1. /\ UNCHANGED <<definitions, focused, running>> /\ fallback' = Head(definitions).id
        /\ outcome' = (CHOOSE d \in ShownIn(definitions, focused, Head(definitions).id) : TRUE).initial
        /\ page' # "other" /\ ~OnPage
    BY <1>6, PageAssumption DEF Enter
  <2>2. outcome' = Shown'.initial /\ running' = {}
    BY <2>1 DEF Shown, ShownIn, CurrentTabId, ExecutionInv
  <2> QED BY <2>1, <2>2 DEF ExecutionInv
<1>7. CASE Execute
  <2>1. /\ Shown' = Shown /\ page' = page /\ OnPage /\ outcome' = outcome
        /\ running' = running \cup {Outcome(Shown.id, Shown.code)}
    BY <1>2, <1>7 DEF Execute
  <2> QED BY <2>1 DEF ExecutionInv, Outcome, NoOutcome, LateOutcome
<1>8. ASSUME NEW r \in running, ExecutionEnds(r) PROVE ExecutionInv'
  <2>1. /\ Shown' = Shown /\ page' = page /\ outcome' \in {r, NoOutcome} /\ running' = running \ {r}
    BY <1>2, <1>8 DEF ExecutionEnds
  <2> QED BY <2>1 DEF ExecutionInv, Outcome, NoOutcome, LateOutcome
<1>9. ASSUME NEW side \in {"templates", "history"}, ShowMenu(side) PROVE ExecutionInv'
  BY <1>3, <1>9 DEF ShowMenu
<1>10. CASE FocusWindow \/ UNCHANGED <<tabs, page, snippets, parsing, execution>>
  BY <1>3, <1>10 DEF FocusWindow
<1> QED BY <1>1, <1>4, <1>5, <1>6, <1>7, <1>8, <1>9, <1>10, Steps DEF Quiet

---------------------------------------------------------------------------
(* The form of a tab is the one of its code *)

(* While the page is shown, a tab whose snippet was mounted first has come *)
(* back to a page with it.                                                 *)
ParsingInv ==
    /\ parsed \in [Ids -> Codes \cup {None}]
    /\ snippetFirst \in SUBSET Ids /\ shared \in SUBSET Ids
    /\ \A id \in snippetFirst : SnippetHook(snippets, page, id) # {}
    /\ OnPage => \A d \in Range(definitions) : /\ d.id \in snippetFirst => d.id \in shared
                                               /\ d.id \notin shared => parsed[d.id] = d.code

LEMMA TabHookOf ==
  ASSUME NEW defs, NEW focus, GoodTabs(defs, focus)
  PROVE  /\ \A d \in Range(defs) : TabHook(defs, d.id) = {d.code} /\ d.id \in Ids /\ d.id \in IdsOf(defs)
         /\ \A id : TabHook(defs, id) # {} => \E d \in Range(defs) : d.id = id
         /\ \A id : TabHook(defs, id) \in SUBSET Codes
         /\ IdsOf(defs) \in SUBSET Ids
<1>1. Range(defs) \in SUBSET TabType /\ IdsOf(defs) = {x.id : x \in Range(defs)} \ {None}
  BY RangeTyped DEF GoodTabs
<1>2. \A x \in Range(defs) : x.id \in Ids /\ x.code \in Codes /\ x.id # None
  BY <1>1, IdsAssumption DEF TabType
<1>3. ASSUME NEW d \in Range(defs) PROVE TabHook(defs, d.id) = {d.code}
  <2>1. {x \in Range(defs) : x.id = d.id} = {d}
    BY DEF GoodTabs
  <2> QED BY <2>1 DEF TabHook
<1>4. ASSUME NEW id PROVE /\ TabHook(defs, id) # {} => \E d \in Range(defs) : d.id = id
                          /\ TabHook(defs, id) \in SUBSET Codes
  BY <1>2 DEF TabHook
<1> QED BY <1>1, <1>2, <1>3, <1>4

LEMMA SnippetHookOf ==
  ASSUME NEW snips, GoodSnippets(snips), NEW side
  PROVE  /\ \A id : SnippetHook(snips, side, id) \in SUBSET Codes
         /\ \A id \in Ids : SnippetHook(snips, side, id) # {} => id \in IdsOf(snips)
<1>1. Range(snips) \in SUBSET SnippetType /\ IdsOf(snips) = {x.id : x \in Range(snips)} \ {None}
  BY RangeTyped DEF GoodSnippets
<1>2. \A x \in Range(snips) : x.code \in Codes
  BY <1>1 DEF SnippetType
<1> QED BY <1>1, <1>2, IdsAssumption DEF SnippetHook

(* The hooks of good tabs, on a page that was shown or is entered.         *)
LEMMA HooksRendered ==
  ASSUME TabsInv, ParsingInv,
         NEW defs, NEW focus, NEW snips, NEW side, NEW mounting \in BOOLEAN,
         Good(defs, focus, snips), mounting \/ OnPage,
         RenderHooks(defs, snips, side, mounting)
  PROVE  /\ parsed' \in [Ids -> Codes \cup {None}]
         /\ snippetFirst' \in SUBSET Ids /\ shared' \in SUBSET Ids
         /\ \A id \in snippetFirst' : SnippetHook(snips, side, id) # {}
         /\ \A d \in Range(defs) : /\ d.id \in snippetFirst' => d.id \in shared'
                                   /\ d.id \notin shared' => parsed'[d.id] = d.code
<1> DEFINE First(id) == SnippetIsFirst(id, defs, snips, side, mounting)
           Before(hook) == IF mounting THEN {} ELSE hook
           Changed(id) ==
               (TabHook(defs, id) \ Before(TabHook(definitions, id))) \cup
               (SnippetHook(snips, side, id) \ Before(SnippetHook(snippets, page, id)))
           Fetched(id) == IF First(id) THEN SnippetHook(snips, side, id) ELSE TabHook(defs, id)
<1>0. ~ mounting => \A e \in Range(definitions) : /\ e.id \in snippetFirst => e.id \in shared
                                                  /\ e.id \notin shared => parsed[e.id] = e.code
  BY DEF ParsingInv
<1>1. /\ snippetFirst' = {id \in Ids : First(id)}
      /\ parsed' = [id \in Ids |->
                IF id \notin IdsOf(defs) \cup IdsOf(snips) THEN None
                ELSE IF \E c \in Changed(id) : c # parsed[id]
                THEN CHOOSE c \in Fetched(id) : TRUE
                ELSE parsed[id]]
      /\ shared' = {id \in IdsOf(defs) : id \in shared \/ (mounting /\ First(id))}
  BY DEF RenderHooks
<1>2. /\ \A d \in Range(defs) : TabHook(defs, d.id) = {d.code} /\ d.id \in Ids /\ d.id \in IdsOf(defs)
      /\ \A id : TabHook(defs, id) \in SUBSET Codes
      /\ IdsOf(defs) \in SUBSET Ids
  BY TabHookOf DEF Good
<1>3. /\ \A id : SnippetHook(snips, side, id) \in SUBSET Codes
      /\ \A id \in Ids : SnippetHook(snips, side, id) # {} => id \in IdsOf(snips)
  BY SnippetHookOf DEF Good
<1>4. \A id : First(id) => SnippetHook(snips, side, id) # {}
  BY DEF SnippetIsFirst
<1>5. ASSUME NEW id \in Ids, NEW c \in Changed(id)
      PROVE  Fetched(id) # {} /\ Fetched(id) \in SUBSET Codes
  <2>1. ~ First(id) => TabHook(defs, id) # {}
    <3>1. SUFFICES ASSUME TabHook(defs, id) = {} PROVE First(id)
      OBVIOUS
    <3>2. SnippetHook(snips, side, id) # {}
      BY <1>5, <3>1
    <3> QED BY <3>1, <3>2 DEF SnippetIsFirst
  <2> HIDE DEF First
  <2> QED BY <2>1, <1>2, <1>3, <1>4
<1>6. parsed' \in [Ids -> Codes \cup {None}]
  <2>1. ASSUME NEW id \in Ids, \E c \in Changed(id) : c # parsed[id]
        PROVE  (CHOOSE c \in Fetched(id) : TRUE) \in Codes
    <3> HIDE DEF Changed, Fetched
    <3> QED BY <1>5, <2>1
  <2>2. \A id \in Ids : parsed[id] \in Codes \cup {None}
    BY DEF ParsingInv
  <2> HIDE DEF Changed, Fetched, First
  <2> QED BY <1>1, <2>1, <2>2
<1>7. ASSUME NEW d \in Range(defs), First(d.id), ~ mounting
      PROVE  d.id \in shared
  <2>1. SnippetHook(snips, side, d.id) # {} /\ (d.id \in snippetFirst \/ TabHook(definitions, d.id) = {})
    BY <1>2, <1>7 DEF SnippetIsFirst
  <2>2. d.id \in IdsOf(definitions)
    BY <1>2, <1>3, <2>1 DEF Good
  <2>3. PICK e \in Range(definitions) : e.id = d.id
    BY <2>2, TabsNow
  <2>4. TabHook(definitions, d.id) # {}
    BY <2>3, TabHookOf DEF TabsInv
  <2>5. d.id \in snippetFirst
    BY <2>1, <2>4
  <2> QED BY <1>0, <1>7, <2>3, <2>5
<1>8. ASSUME NEW d \in Range(defs) PROVE d.id \in snippetFirst' => d.id \in shared'
  <2> HIDE DEF First
  <2> QED BY <1>1, <1>2, <1>7
<1>9. ASSUME NEW d \in Range(defs), d.id \notin shared' PROVE parsed'[d.id] = d.code
  <2>1. d.id \notin shared /\ ~ First(d.id) /\ d.id \in IdsOf(defs) /\ d.id \in Ids
    <3> HIDE DEF First
    <3> QED BY <1>1, <1>2, <1>7, <1>9
  <2>2. Fetched(d.id) = {d.code}
    BY <1>2, <2>1
  <2>3. parsed'[d.id] = IF \E c \in Changed(d.id) : c # parsed[d.id] THEN d.code ELSE parsed[d.id]
    <3>1. (CHOOSE c \in Fetched(d.id) : TRUE) = d.code
      BY <2>2
    <3> HIDE DEF Changed, Fetched, First
    <3> QED BY <1>1, <2>1, <3>1
  <2>4. CASE d.code \in Changed(d.id)
    <3> HIDE DEF Changed
    <3> QED BY <2>3, <2>4
  <2>5. CASE d.code \notin Changed(d.id)
    <3>1. ~ mounting /\ d.code \in TabHook(definitions, d.id)
      BY <1>2, <2>5
    <3>2. PICK e \in Range(definitions) : e.id = d.id /\ e.code = d.code
      BY <3>1 DEF TabHook
    <3>3. parsed[d.id] = d.code
      BY <1>0, <2>1, <3>1, <3>2
    <3> HIDE DEF Changed
    <3> QED BY <2>3, <3>3
  <2> QED BY <2>4, <2>5
<1>10. snippetFirst' \in SUBSET Ids /\ shared' \in SUBSET Ids
  <2> HIDE DEF First
  <2> QED BY <1>1, <1>2
<1>11. \A id \in snippetFirst' : SnippetHook(snips, side, id) # {}
  <2> HIDE DEF First
  <2> QED BY <1>1, <1>4
<1> QED BY <1>6, <1>8, <1>9, <1>10, <1>11

LEMMA ParsingStart == Init => ParsingInv
<1> SUFFICES ASSUME Init PROVE ParsingInv
  OBVIOUS
<1>1. limits \in Limits
  BY DEF Init
<1>2. PICK id \in Ids : /\ definitions = <<DefaultInteraction(id)>>
                        /\ parsed = [i \in Ids |-> IF i = id THEN Empty ELSE None]
  <2>1. \E i \in Ids : TRUE
    BY <1>1, FreshIsId
  <2> QED BY <2>1 DEF Init
<1>3. Range(definitions) = {Definition(id, Empty, NoOutcome)}
  BY <1>2, LoadedTabs
<1>4. \A d \in Range(definitions) : parsed[d.id] = d.code
  BY <1>2, <1>3 DEF Definition
<1>5. parsed \in [Ids -> Codes \cup {None}]
  BY <1>2, CodesAssumption
<1>6. snippetFirst = {} /\ shared = {}
  BY DEF Init
<1> QED BY <1>4, <1>5, <1>6 DEF ParsingInv

LEMMA ParsingStep == TabsInv /\ ExecutionInv /\ ParsingInv /\ Next => ParsingInv'
<1> SUFFICES ASSUME TabsInv, ExecutionInv, ParsingInv, Next PROVE ParsingInv'
  OBVIOUS
<1>1. ASSUME NEW defs, NEW focus, NEW snips, Rendering(defs, focus, snips) PROVE ParsingInv'
  <2>1. definitions' = defs /\ snippets' = snips /\ page' = page /\ Good(defs, focus, snips)
    BY <1>1 DEF Rendering, RenderTabs
  <2>2. CASE OnPage
    <3>1. RenderHooks(defs, snips, page, FALSE)
      BY <1>1, <2>2 DEF Rendering
    <3> QED BY <2>1, <2>2, <3>1, HooksRendered DEF ParsingInv
  <2>3. CASE ~OnPage
    <3>1. UNCHANGED <<parsed, snippetFirst, shared>>
      BY <1>1, <2>3 DEF Rendering, parsing
    <3>2. snippetFirst = {}
      BY <2>3 DEF ParsingInv, SnippetHook, OnPage
    <3>3. ~OnPage'
      BY <2>1, <2>3 DEF OnPage
    <3> QED BY <3>1, <3>2, <3>3 DEF ParsingInv
  <2> QED BY <2>2, <2>3
<1>2. ASSUME UNCHANGED <<definitions, page, snippets, parsing>> PROVE ParsingInv'
  BY <1>2 DEF ParsingInv, OnPage, parsing, SnippetHook
<1>3. CASE Leave
  BY <1>3 DEF Leave, ParsingInv, OnPage
<1>4. Good(definitions, focused, snippets)
  BY SameTabs DEF TabsInv
<1>5. CASE Enter
  <2>1. /\ UNCHANGED <<definitions, snippets>> /\ page' = MenuFirst
        /\ RenderHooks(definitions, snippets, MenuFirst, TRUE)
    BY <1>5 DEF Enter
  <2> QED BY <1>4, <2>1, HooksRendered DEF ParsingInv
<1>6. ASSUME NEW side \in {"templates", "history"}, ShowMenu(side) PROVE ParsingInv'
  <2>1. /\ UNCHANGED <<definitions, snippets>> /\ page' = side /\ OnPage
        /\ RenderHooks(definitions, snippets, side, FALSE)
    BY <1>6 DEF ShowMenu, tabs
  <2> QED BY <1>4, <2>1, HooksRendered DEF ParsingInv
<1>7. \A id : SnippetHook(snippets, page, id) \in SUBSET Codes /\ SnippetHook(snippets, MenuFirst, id) \in SUBSET Codes
  BY SnippetHookOf DEF TabsInv
<1>8. CASE Reload
  <2> DEFINE id == CHOOSE id \in Ids : id \notin IdsOf(snippets)
  <2>1. id \in Ids /\ id \notin IdsOf(snippets)
    <3>1. \E i \in Ids : i \notin IdsOf(snippets)
      BY FreshOfSnippets
    <3> QED BY <3>1
  <2> HIDE DEF id
  <2>2. /\ definitions' = <<DefaultInteraction(id)>> /\ page' = MenuFirst /\ UNCHANGED snippets
        /\ snippetFirst' = {i \in Ids : SnippetHook(snippets, MenuFirst, i) # {}}
        /\ parsed' = [i \in Ids |->
                IF i = id THEN Empty
                ELSE IF SnippetHook(snippets, MenuFirst, i) = {} THEN None
                ELSE CHOOSE c \in SnippetHook(snippets, MenuFirst, i) : TRUE]
        /\ shared' = {}
    BY <1>8 DEF Reload, Load, id
  <2>3. Range(definitions') = {Definition(id, Empty, NoOutcome)}
    BY <2>1, <2>2, LoadedTabs
  <2>4. parsed' \in [Ids -> Codes \cup {None}]
    BY <1>7, <2>2, CodesAssumption
  <2>5. id \notin snippetFirst'
    BY <2>1, <2>2, SnippetHookOf DEF TabsInv
  <2>6. \A d \in Range(definitions') : d.id = id /\ parsed'[d.id] = d.code
    BY <2>1, <2>2, <2>3 DEF Definition
  <2> QED BY <2>2, <2>4, <2>5, <2>6 DEF ParsingInv
<1>9. CASE FocusWindow
  <2>1. /\ UNCHANGED <<definitions, page, snippets, snippetFirst, shared>> /\ OnPage
        /\ parsed' = [id \in Ids |->
            IF id \in snippetFirst THEN CHOOSE c \in SnippetHook(snippets, page, id) : TRUE
            ELSE IF TabHook(definitions, id) # {} THEN CHOOSE c \in TabHook(definitions, id) : TRUE
            ELSE parsed[id]]
    BY <1>9 DEF FocusWindow, tabs
  <2>2. /\ \A d \in Range(definitions) : TabHook(definitions, d.id) = {d.code} /\ d.id \in Ids
        /\ \A id : TabHook(definitions, id) \in SUBSET Codes
    BY TabHookOf DEF TabsInv
  <2>3. parsed' \in [Ids -> Codes \cup {None}]
    <3>1. \A id \in Ids : parsed[id] \in Codes \cup {None}
      BY DEF ParsingInv
    <3>2. \A id \in snippetFirst : (CHOOSE c \in SnippetHook(snippets, page, id) : TRUE) \in Codes
      BY <1>7 DEF ParsingInv
    <3>3. \A id : TabHook(definitions, id) # {} => (CHOOSE c \in TabHook(definitions, id) : TRUE) \in Codes
      BY <2>2
    <3> QED BY <2>1, <3>1, <3>2, <3>3
  <2>4. ASSUME NEW d \in Range(definitions), d.id \notin shared PROVE parsed'[d.id] = d.code
    <3>1. d.id \notin snippetFirst
      BY <2>1, <2>4 DEF ParsingInv
    <3> QED BY <2>1, <2>2, <3>1
  <2> QED BY <2>1, <2>3, <2>4 DEF ParsingInv, OnPage, SnippetHook
<1>10. ASSUME NEW r \in running, ExecutionEnds(r) PROVE ParsingInv'
  BY <1>2, <1>10 DEF ExecutionEnds, tabs
<1>11. CASE EditArguments \/ Execute \/ UNCHANGED <<tabs, page, snippets, parsing, execution>>
  BY <1>2, <1>11 DEF EditArguments, Execute, tabs
<1> QED BY <1>1, <1>3, <1>5, <1>6, <1>8, <1>9, <1>10, <1>11, Steps DEF Quiet

---------------------------------------------------------------------------
(* The code of a tab that was closed without a question *)

ClosedInv == kept \in SUBSET {s.code : s \in Range(snippets)}

LEMMA KeptSnippets ==
  ASSUME TabsInv
  PROVE  /\ snippets \in Seq(SnippetType) /\ Len(snippets) \in Nat /\ DOMAIN snippets = 1..Len(snippets)
         /\ \A x \in Range(snippets) : \E i \in DOMAIN snippets : x = snippets[i]
         /\ \A i \in DOMAIN snippets : snippets[i] \in Range(snippets)
         /\ {t.code : t \in Snippets(snippets)} = {s.code : s \in Range(snippets)}
<1>1. /\ snippets \in Seq(SnippetType) /\ Len(snippets) \in Nat /\ DOMAIN snippets = 1..Len(snippets)
      /\ \A x \in Range(snippets) : \E i \in DOMAIN snippets : x = snippets[i]
      /\ \A i \in DOMAIN snippets : snippets[i] \in Range(snippets)
  BY RangeTyped DEF TabsInv, GoodSnippets
<1>2. \A i \in DOMAIN snippets : Template(snippets[i].id, snippets[i].code, "session").code = snippets[i].code
  BY DEF Template
<1>3. ASSUME NEW t \in Snippets(snippets) PROVE t.code \in {s.code : s \in Range(snippets)}
  <2>1. PICK i \in DOMAIN snippets : t = Template(snippets[i].id, snippets[i].code, "session")
    BY DEF Snippets
  <2> QED BY <1>1, <1>2, <2>1
<1>4. ASSUME NEW s \in Range(snippets) PROVE s.code \in {t.code : t \in Snippets(snippets)}
  <2>1. PICK i \in DOMAIN snippets : s = snippets[i]
    BY <1>1
  <2>2. Template(s.id, s.code, "session") \in Snippets(snippets)
    BY <2>1 DEF Snippets
  <2> QED BY <1>2, <2>1, <2>2
<1> QED BY <1>1, <1>3, <1>4

LEMMA ClosedStart == Init => ClosedInv
BY DEF Init, ClosedInv

LEMMA ClosedStep == TabsInv /\ ClosedInv /\ Next => ClosedInv'
<1> SUFFICES ASSUME TabsInv, ClosedInv, Next PROVE ClosedInv'
  OBVIOUS
<1>1. ASSUME UNCHANGED <<snippets, kept>> PROVE ClosedInv'
  BY <1>1 DEF ClosedInv
<1>2. ASSUME NEW opened, NEW deduplicate, Create(opened, deduplicate) PROVE UNCHANGED snippets
  BY <1>2 DEF Create, Focus, Render
<1>3. ASSUME NEW id, RemoveTab(id) PROVE UNCHANGED snippets
  BY <1>3 DEF RemoveTab, Recreate, Render
<1>4. CASE AddNew \/ (\E filter \in Filters : OpenTemplate(filter))
           \/ \E code \in Transactions : OpenTransaction(code) \/ OpenInteraction(code)
  BY <1>1, <1>2, <1>4 DEF AddNew, OpenTemplate, OpenTransaction, OpenInteraction
<1>5. ASSUME NEW i \in DOMAIN definitions, SelectTab(i) \/ Discard(i) PROVE ClosedInv'
  BY <1>1, <1>3, <1>5 DEF SelectTab, Discard, Focus, Render
<1>6. ASSUME NEW i \in DOMAIN definitions, CloseTab(i) PROVE ClosedInv'
  <2>1. UNCHANGED snippets
    BY <1>3, <1>6 DEF CloseTab
  <2>2. kept' = kept \cup {t.code : t \in {x \in Snippets(snippets) : x.code = definitions[i].code}}
    BY <1>6 DEF CloseTab
  <2> QED BY <2>1, <2>2, KeptSnippets DEF ClosedInv
<1>7. ASSUME NEW template \in SnippetType, Store(template) PROVE ClosedInv'
  <2> DEFINE K == {i \in DOMAIN snippets : snippets[i].id # template.id}
             rest == Keep(snippets, K)
  <2>1. snippets' = Append(rest, template)
    BY <1>7 DEF Store, Render, SaveAsSessionTemplate
  <2>2. K \in SUBSET (1..Len(snippets)) /\ snippets \in Seq(SnippetType)
    BY KeptSnippets
  <2>3. rest \in Seq(SnippetType) /\ Range(rest) = {snippets[i] : i \in K}
    <3> HIDE DEF K
    <3> QED BY <2>2, KeepSound
  <2>4. Range(snippets') = {snippets[i] : i \in K} \cup {template}
    <3> HIDE DEF rest, K
    <3> QED BY <2>1, <2>3, AppendRange
  <2>5. kept' = kept \ {t.code : t \in {x \in Snippets(snippets) : x.id = template.id /\ x.code # template.code}}
    BY <1>7 DEF Store
  <2>6. ASSUME NEW code \in kept' PROVE code \in {s.code : s \in Range(snippets')}
    <3>1. PICK i \in DOMAIN snippets : snippets[i].code = code
      BY <2>5, KeptSnippets DEF ClosedInv
    <3>2. CASE i \in K
      BY <2>4, <3>1, <3>2
    <3>3. CASE i \notin K
      <4> DEFINE t == Template(snippets[i].id, snippets[i].code, "session")
      <4>1. t \in Snippets(snippets) /\ t.id = template.id /\ t.code = code
        BY <3>1, <3>3 DEF Snippets, Template
      <4> HIDE DEF t
      <4>2. code = template.code
        BY <2>5, <4>1
      <4> QED BY <2>4, <4>2
    <3> QED BY <3>2, <3>3
  <2> QED BY <2>6 DEF ClosedInv
<1>8. ASSUME NEW i \in DOMAIN definitions, NEW name \in Names, Save(i, name) PROVE ClosedInv'
  <2>1. Snippet(definitions[i].id, name, definitions[i].code) \in SnippetType
    BY TabsNow DEF Snippet, SnippetType, TabType
  <2> QED BY <1>7, <1>8, <2>1 DEF Save
<1>9. ASSUME NEW i \in DOMAIN snippets, NEW name \in Names, Rename(i, name) PROVE ClosedInv'
  <2>1. snippets[i] \in SnippetType
    BY DEF TabsInv, GoodSnippets
  <2>2. Snippet(IF snippets[i].id = None THEN Fresh ELSE snippets[i].id, name, snippets[i].code) \in SnippetType
    BY <2>1, FreshIsId DEF Snippet, SnippetType, TabsInv
  <2>3. Store(Snippet(IF snippets[i].id = None THEN Fresh ELSE snippets[i].id, name, snippets[i].code))
    BY <1>9 DEF Rename
  <2> QED BY <1>7, <2>2, <2>3
<1>10. ASSUME NEW i \in DOMAIN snippets, Delete(i) PROVE ClosedInv'
  <2> DEFINE K == {j \in DOMAIN snippets : snippets[j].name # snippets[i].name}
  <2>1. snippets' = Keep(snippets, K)
    BY <1>10 DEF Delete, Render
  <2>2. K \in SUBSET (1..Len(snippets)) /\ snippets \in Seq(SnippetType)
    BY KeptSnippets
  <2>3. Range(snippets') = {snippets[j] : j \in K}
    <3> HIDE DEF K
    <3> QED BY <2>1, <2>2, KeepSound
  <2>4. kept' = kept \ {snippets[j].code : j \in {k \in DOMAIN snippets : snippets[k].name = snippets[i].name}}
    BY <1>10 DEF Delete
  <2>5. ASSUME NEW code \in kept' PROVE code \in {s.code : s \in Range(snippets')}
    <3>1. PICK j \in DOMAIN snippets : snippets[j].code = code
      BY <2>4, KeptSnippets DEF ClosedInv
    <3>2. j \in K
      BY <2>4, <3>1
    <3> QED BY <2>3, <3>1, <3>2
  <2> QED BY <2>5 DEF ClosedInv
<1>11. ASSUME NEW code \in Codes, EditCode(code) PROVE ClosedInv'
  BY <1>1, <1>11 DEF EditCode, Update, Render
<1>12. CASE EditArguments \/ Leave \/ Enter \/ Reload \/ LoadFlix \/ Execute \/ FocusWindow
            \/ (\E side \in {"templates", "history"} : ShowMenu(side)) \/ \E r \in running : ExecutionEnds(r)
  BY <1>1, <1>12 DEF EditArguments, Leave, Enter, Reload, LoadFlix, Execute, FocusWindow, ShowMenu, ExecutionEnds
<1> QED BY <1>4, <1>5, <1>6, <1>8, <1>9, <1>10, <1>11, <1>12 DEF Next, Step

---------------------------------------------------------------------------

(* Ids of tabs are not shared, executions belong to what is shown, hooks   *)
(* to their tabs, and closed code to a snippet; each part rests on those   *)
(* before it.                                                              *)
Inv == TabsInv /\ ExecutionInv /\ ParsingInv /\ ClosedInv /\ flixLoaded \in BOOLEAN

LEMMA FlixStep == flixLoaded \in BOOLEAN /\ Next => flixLoaded' \in BOOLEAN
<1> SUFFICES ASSUME flixLoaded \in BOOLEAN, Next PROVE flixLoaded' \in BOOLEAN
  OBVIOUS
<1>1. ASSUME NEW defs, NEW focus, NEW snips, Render(defs, focus, snips) PROVE UNCHANGED flixLoaded
  BY <1>1 DEF Render
<1>2. ASSUME NEW opened, NEW deduplicate, Create(opened, deduplicate) PROVE UNCHANGED flixLoaded
  BY <1>1, <1>2 DEF Create, Focus
<1>3. ASSUME NEW id, RemoveTab(id) PROVE UNCHANGED flixLoaded
  BY <1>1, <1>3 DEF RemoveTab, Recreate
<1>4. ASSUME NEW template, Store(template) PROVE UNCHANGED flixLoaded
  BY <1>1, <1>4 DEF Store
<1>5. ASSUME NEW i \in DOMAIN definitions,
             SelectTab(i) \/ CloseTab(i) \/ Discard(i) \/ \E name \in Names : Save(i, name)
      PROVE  UNCHANGED flixLoaded
  BY <1>1, <1>3, <1>4, <1>5 DEF SelectTab, Focus, CloseTab, Discard, Save
<1>6. ASSUME NEW i \in DOMAIN snippets, Delete(i) \/ \E name \in Names : Rename(i, name)
      PROVE  UNCHANGED flixLoaded
  BY <1>1, <1>4, <1>6 DEF Delete, Rename
<1>7. ASSUME \E code \in Codes : EditCode(code) PROVE UNCHANGED flixLoaded
  BY <1>1, <1>7 DEF EditCode, Update
<1>8. CASE LoadFlix \/ Reload
  BY <1>8 DEF LoadFlix, Reload, Load
<1> QED
  BY <1>2, <1>5, <1>6, <1>7, <1>8
  DEF Next, Step, AddNew, EditArguments, Leave, Enter, Execute, FocusWindow, ShowMenu, OpenTemplate,
      OpenTransaction, OpenInteraction, ExecutionEnds

LEMMA Stutter == Inv /\ UNCHANGED vars => Inv'
<1> SUFFICES ASSUME Inv, UNCHANGED vars PROVE Inv'
  OBVIOUS
<1>1. /\ UNCHANGED <<definitions, focused, fallback, page, snippets, parsed, snippetFirst, shared>>
      /\ UNCHANGED <<outcome, running, limits, kept>>
  BY DEF vars, tabs, parsing, execution
<1>2. TabsInv' /\ flixLoaded' \in BOOLEAN
  BY <1>1 DEF Inv, vars, TabsInv, GoodTabs, GoodSnippets, OnPage
<1>3. ExecutionInv'
  BY <1>1 DEF Inv, ExecutionInv, OnPage, Shown, ShownIn, CurrentTabId, Outcome, NoOutcome, LateOutcome
<1>4. ParsingInv' /\ ClosedInv'
  BY <1>1 DEF Inv, ParsingInv, ClosedInv, OnPage, SnippetHook
<1> QED BY <1>2, <1>3, <1>4 DEF Inv

(* Always an inductive state.                                              *)
THEOREM Invariant == Spec => []Inv
<1>1. Init => Inv
  <2>1. Init => flixLoaded \in BOOLEAN
    <3> SUFFICES ASSUME Init PROVE flixLoaded \in BOOLEAN
      OBVIOUS
    <3>1. flixLoaded = FALSE
      BY DEF Init
    <3> QED BY <3>1
  <2> QED BY <2>1, TabsStart, ExecutionStart, ParsingStart, ClosedStart DEF Inv
<1>2. Inv /\ [Next]_vars => Inv'
  BY Stutter, TabsStep, ExecutionStep, ParsingStep, ClosedStep, FlixStep DEF Inv
<1> QED BY <1>1, <1>2, PTL DEF Spec

(* The state stays in its types: in particular no more tabs and snippets   *)
(* are there than the bounds allow, and only code is parsed and kept.      *)
THEOREM TypeCorrect == Spec => []TypeOK
<1>1. Inv => TypeOK
  <2> SUFFICES ASSUME Inv PROVE TypeOK
    OBVIOUS
  <2>1. \A i \in DOMAIN definitions : definitions[i].id \in Ids /\ definitions[i].code \in Codes
    <3>1. \A d \in TabType : d.id \in Ids /\ d.code \in Codes
      BY DEF TabType
    <3> QED BY <3>1, TabsNow DEF Inv
  <2>2. Len(definitions) \in 1..MaxTabs
    BY BoundsAssumption DEF Inv, TabsInv, GoodTabs
  <2>3. \A i \in DOMAIN snippets :
          snippets[i].id \in Ids \cup {None} /\ snippets[i].name \in Names /\ snippets[i].code \in Codes
    <3>1. \A s \in SnippetType : s.id \in Ids \cup {None} /\ s.name \in Names /\ s.code \in Codes
      BY DEF SnippetType
    <3>2. \A i \in DOMAIN snippets : snippets[i] \in SnippetType
      BY DEF Inv, TabsInv, GoodSnippets
    <3> QED BY <3>1, <3>2
  <2>4. kept \subseteq Codes
    <3>1. Range(snippets) \in SUBSET SnippetType
      BY RangeTyped DEF Inv, TabsInv, GoodSnippets
    <3> QED BY <3>1 DEF Inv, ClosedInv, SnippetType
  <2> QED BY <2>1, <2>2, <2>3, <2>4 DEF TypeOK, Inv, TabsInv, GoodTabs, GoodSnippets, ParsingInv
<1> QED BY <1>1, Invariant, PTL

(* The page always shows one of its tabs, whatever is opened, closed,      *)
(* discarded and reloaded.                                                 *)
THEOREM AlwaysATab == Spec => []TabShown
<1>1. Inv => TabShown
  BY ShownTab DEF Inv, TabShown
<1> QED BY <1>1, Invariant, PTL

(* The one component of all tabs shows a tab the outcome of another one,   *)
(* or of another code, in one case only, an answer that is late: it is     *)
(* shown when such an answer arrives, and an execution becomes late only   *)
(* when the definition that is shown changes while it is under way: the    *)
(* user edits it or goes to another tab.                                   *)
LateArrives ==
    /\ outcome' = LateOutcome => outcome = LateOutcome \/ LateOutcome \in running
    /\ LateOutcome \in running' =>
          LateOutcome \in running \/ (running # {} /\ (EditArguments \/ Shown' # Shown))

LEMMA LateStep == Inv /\ Next => LateArrives
<1> SUFFICES ASSUME Inv, Next PROVE LateArrives
  OBVIOUS
<1> USE DEF OnPage
<1>1. /\ LateOutcome # NoOutcome
      /\ \A o \in Initials : LateOutcome # o
  BY CodesAssumption DEF LateOutcome, NoOutcome, Initials, Outcome
<1>2. OnPage => Shown \in TabType /\ Shown.id # None /\ Shown.initial \in Initials
  BY ShownTab, IdsAssumption DEF Inv, TabType
<1>3. OnPage => LateOutcome # Outcome(Shown.id, Shown.code)
  BY <1>2 DEF LateOutcome, Outcome
<1>4. ASSUME UNCHANGED execution PROVE LateArrives
  BY <1>4 DEF LateArrives, execution
<1>5. ASSUME NEW defs, NEW focus, NEW snips, Rendering(defs, focus, snips) PROVE LateArrives
  <2> DEFINE new == ShownIn(defs, focus, fallback)
  <2>1. /\ outcome' = IF OnPage /\ Shown \notin new
                      THEN IF new = {} THEN NoOutcome ELSE (CHOOSE d \in new : TRUE).initial
                      ELSE outcome
        /\ running' = {IF Shown \in new THEN r ELSE LateOutcome : r \in running}
    BY <1>5 DEF Rendering, RenderTabs, ResetOutcome
  <2>2. CASE ~OnPage
    BY <2>1, <2>2 DEF LateArrives, Inv, ExecutionInv
  <2>3. CASE OnPage
    <3>1. new = {Shown'} /\ Shown' \in Range(defs) /\ Range(defs) \in SUBSET TabType
      <4>1. new = {Shown'}
        BY <1>5, <2>3, ShownNext DEF Inv
      <4>2. Range(defs) \in SUBSET TabType
        BY <1>5, Rendered, RangeTyped DEF GoodTabs
      <4> QED BY <4>1, <4>2 DEF ShownIn
    <3>2. Shown'.initial \in Initials
      BY <3>1 DEF TabType
    <3> HIDE DEF new
    <3>3. CASE Shown \in new
      BY <2>1, <3>3 DEF LateArrives
    <3>4. CASE Shown \notin new
      BY <1>1, <2>1, <2>3, <3>1, <3>2, <3>4 DEF LateArrives
    <3> QED BY <3>3, <3>4
  <2> QED BY <2>2, <2>3
<1>6. CASE EditArguments
  BY <1>1, <1>2, <1>6 DEF EditArguments, LateArrives
<1>7. CASE Leave \/ Reload
  BY <1>1, <1>7 DEF Leave, Reload, Load, LateArrives
<1>8. CASE Enter
  <2>1. running' = {} /\ outcome' = Shown'.initial /\ OnPage' /\ TabsInv'
    <3>1. TabsInv' /\ running = {}
      BY <1>8, TabsStep DEF Inv, ExecutionInv, Enter
    <3> QED BY <1>8, <3>1, PageAssumption DEF Enter, Shown, ShownIn, CurrentTabId
  <2>2. Shown'.initial \in Initials
    <3>1. (Shown \in TabType)'
      BY <2>1, ShownTab, PTL
    <3> QED BY <3>1 DEF TabType
  <2> QED BY <1>1, <2>1, <2>2 DEF LateArrives
<1>9. CASE Execute
  BY <1>3, <1>9 DEF Execute, LateArrives
<1>10. ASSUME NEW r \in running, ExecutionEnds(r) PROVE LateArrives
  BY <1>1, <1>10 DEF ExecutionEnds, LateArrives
<1>11. ASSUME NEW side \in {"templates", "history"}, ShowMenu(side) PROVE LateArrives
  BY <1>4, <1>11 DEF ShowMenu
<1>12. CASE FocusWindow \/ UNCHANGED <<tabs, page, snippets, parsing, execution>>
  BY <1>4, <1>12 DEF FocusWindow
<1> QED
  BY <1>5, <1>6, <1>7, <1>8, <1>9, <1>10, <1>11, <1>12, Steps DEF Quiet, Inv

(* What is shown belongs to the tab that is shown, but for late answers.   *)
THEOREM OutcomeBelongs == Spec => []OutcomeOfShown /\ [][LateArrives]_vars
<1>1. Inv => OutcomeOfShown
  BY DEF Inv, ExecutionInv, OutcomeOfShown, NoOutcome
<1>2. Inv /\ [Next]_vars => [LateArrives]_vars
  BY LateStep
<1> QED BY <1>1, <1>2, Invariant, PTL DEF Spec

(* An id is shared only from the moment when the page is entered with a    *)
(* tab and a listed snippet of that id: in no other order do a tab and its *)
(* snippet get in each other's way.                                        *)
SharedByEntering ==
    \A id \in shared' \ shared :
        Enter /\ id \in IdsOf(definitions) /\ SnippetHook(snippets, MenuFirst, id) # {}

LEMMA SharedStep == Inv /\ Next => SharedByEntering
<1> SUFFICES ASSUME Inv, Next PROVE SharedByEntering
  OBVIOUS
<1>1. ASSUME NEW defs, NEW snips, NEW side, RenderHooks(defs, snips, side, FALSE)
      PROVE  SharedByEntering
  BY <1>1 DEF RenderHooks, SharedByEntering
<1>2. ASSUME UNCHANGED shared PROVE SharedByEntering
  BY <1>2 DEF SharedByEntering
<1>3. ASSUME NEW defs, NEW focus, NEW snips, Rendering(defs, focus, snips) PROVE SharedByEntering
  BY <1>1, <1>2, <1>3 DEF Rendering, parsing
<1>4. CASE Enter
  BY <1>4 DEF Enter, RenderHooks, SnippetIsFirst, SharedByEntering
<1>5. ASSUME NEW side \in {"templates", "history"}, ShowMenu(side) PROVE SharedByEntering
  BY <1>1, <1>5 DEF ShowMenu
<1>6. CASE Reload
  BY <1>6 DEF Reload, Load, SharedByEntering
<1>7. ASSUME NEW r \in running, ExecutionEnds(r) PROVE SharedByEntering
  BY <1>2, <1>7 DEF ExecutionEnds, parsing
<1>8. CASE \/ EditArguments \/ Leave \/ Execute \/ FocusWindow
           \/ UNCHANGED <<tabs, page, snippets, parsing, execution>>
  BY <1>2, <1>8 DEF EditArguments, Leave, Execute, FocusWindow, parsing
<1> QED BY <1>3, <1>4, <1>5, <1>6, <1>7, <1>8, Steps DEF Quiet, Inv

(* The form of a tab is the one of its code, although the answers of the   *)
(* parser are cached by ids that tabs share with snippets, but for ids     *)
(* with which the page was entered twice, by a tab and by a snippet.       *)
THEOREM FormBelongs == Spec => []ParsedIsOwn /\ [][SharedByEntering]_vars
<1>1. Inv => ParsedIsOwn
  BY DEF Inv, ParsingInv, ParsedIsOwn
<1>2. Inv /\ [Next]_vars => [SharedByEntering]_vars
  BY SharedStep
<1> QED BY <1>1, <1>2, Invariant, PTL DEF Spec

(* Code that was closed without a question stays among the snippets.       *)
THEOREM ClosedCodeStays == Spec => []ClosedWorkStays
<1>1. Inv => ClosedWorkStays
  BY KeptSnippets DEF Inv, ClosedInv, ClosedWorkStays
<1> QED BY <1>1, Invariant, PTL

---------------------------------------------------------------------------
(* The form of one interaction (ParameterForm), for any parser and any     *)
(* fields whose effects and edits make values of fields.                   *)

(* The greatest of some of the numbers up to n is one of them.             *)
LEMMA MaxIn ==
  ASSUME NEW n \in Nat, NEW S \in SUBSET (1..n), S # {}
  PROVE  Max(S) \in S
<1> DEFINE T == {n - x : x \in S}
<1>1. T \in SUBSET Nat /\ T # {}
  <2>1. \A x \in S : n - x \in Nat
    OBVIOUS
  <2>2. PICK x \in S : TRUE
    OBVIOUS
  <2>3. n - x \in T
    OBVIOUS
  <2> QED BY <2>1, <2>3
<1>2. PICK m \in T : \A k \in T : m <= k
  <2> HIDE DEF T
  <2> QED BY <1>1, Least
<1>3. PICK x \in S : m = n - x
  OBVIOUS
<1>4. ASSUME NEW y \in S PROVE x >= y
  <2>1. n - y \in T
    OBVIOUS
  <2>2. n - x <= n - y
    BY <1>2, <1>3, <2>1
  <2> QED BY <2>2
<1>5. \E z \in S : \A y \in S : z >= y
  BY <1>4
<1> QED BY <1>5, Zenon DEF Max

(* No answer is an interaction without parameters.                         *)
LEMMA AnswerShape ==
  ASSUME NEW source \in Sources \cup {Nothing}
  PROVE  IsInteraction(InteractionOf(source))
<1>1. CASE source = Nothing
  <2>1. InteractionOf(source) = [kind |-> "NONE", parameters |-> <<>>]
    BY <1>1 DEF InteractionOf, NoInteraction
  <2> QED BY <2>1 DEF IsInteraction
<1>2. CASE source # Nothing
  BY <1>2, FormAssumption DEF InteractionOf
<1> QED BY <1>1, <1>2

(* What effects and edits make of a value belongs to a field.              *)
LEMMA FieldsStay ==
  ASSUME NEW source \in Sources \cup {Nothing},
         NEW i \in DOMAIN InteractionOf(source).parameters,
         NEW v \in FieldValues
  PROVE  LET p == InteractionOf(source).parameters[i]
         IN  /\ FieldEffects(p.type, v) \in FieldValues
             /\ FieldInPlace(p.type, v) \in FieldValues
             /\ \A x \in FieldEdits(p.type, v) : x.arg \in FieldValues /\ x.mutated \in FieldValues
<1>1. CASE source = Nothing
  <2>1. InteractionOf(source).parameters = <<>>
    BY <1>1 DEF InteractionOf, NoInteraction
  <2> QED BY <2>1
<1>2. CASE source # Nothing
  <2>1. InteractionOf(source) = Interactions[source] /\ source \in Sources
    BY <1>2 DEF InteractionOf
  <2> QED BY <2>1, FieldsAssumption
<1> QED BY <1>1, <1>2

(* The account that is selected first is a signer and a value.             *)
LEMMA DefaultIsAccount ==
  /\ DefaultAccount \in SignerValues
  /\ DefaultAccount \in FieldValues
  /\ IsFclAddressValue(DefaultAccount)
<1>1. PICK a \in Accounts : DefaultAccount = Text(a)
  <2>1. (CHOOSE a \in Accounts : TRUE) \in Accounts
    BY FormAssumption
  <2> QED BY <2>1 DEF DefaultAccount
<1> QED BY <1>1, FormAssumption, FieldsAssumption DEF SignerValues

LEMMA ObjectsTyped ==
  ASSUME cached \in Sources \cup {Nothing}, NEW d \in Definitions
  PROVE  /\ WithObjects(d) \in Definitions
         /\ WithObjects(d).code = d.code
         /\ WithObjects(d).proposer = d.proposer
         /\ WithObjects(d).payer = d.payer
         /\ WithObjects(d).authorizers = d.authorizers
<1> DEFINE ps == Parameters(ParsedInteraction)
           Written(p) == {i \in DOMAIN ps : ps[i].identifier = p}
           object(p) == IF Written(p) = {} THEN d.values[p]
                        ELSE FieldInPlace(ps[Max(Written(p))].type, d.values[p])
<1>1. IsInteraction(ParsedInteraction)
  BY AnswerShape DEF ParsedInteraction
<1>2. ASSUME NEW p \in Identifiers PROVE object(p) \in FieldValues
  <2>1. d.values[p] \in FieldValues
    BY DEF Definitions
  <2>2. CASE Written(p) = {}
    BY <2>1, <2>2
  <2>3. CASE Written(p) # {}
    <3>1. Max(Written(p)) \in Written(p)
      <4>1. Len(ps) \in Nat /\ Written(p) \in SUBSET (1..Len(ps))
        BY <1>1 DEF IsInteraction, Parameters
      <4> HIDE DEF Written, ps
      <4> QED BY <4>1, <2>3, MaxIn
    <3>2. Max(Written(p)) \in DOMAIN ps
      BY <3>1
    <3> DEFINE m == Max(Written(p))
    <3> HIDE DEF m
    <3>3. m \in DOMAIN ParsedInteraction.parameters
      BY <3>2 DEF m, Parameters
    <3>4. FieldInPlace(ps[m].type, d.values[p]) \in FieldValues
      BY <3>3, <2>1, FieldsStay DEF ParsedInteraction, Parameters
    <3> QED BY <2>3, <3>4 DEF m
  <2> QED BY <2>2, <2>3
<1> DEFINE values == [p \in Identifiers |-> object(p)]
<1>3. values \in [Identifiers -> FieldValues]
  BY <1>2
<1>4. WithObjects(d) = [d EXCEPT !.values = values]
  BY DEF WithObjects
<1> HIDE DEF values
<1> QED BY <1>3, <1>4 DEF Definitions

LEMMA SetTyped ==
  ASSUME NEW d \in Definitions, NEW p, NEW v \in FieldValues
  PROVE  /\ SetFclValue(d, p, v) \in Definitions
         /\ SetFclValue(d, p, v).code = d.code
         /\ SetFclValue(d, p, v).authorizers = d.authorizers
BY DEF SetFclValue, Definitions

LEMMA UnsetTyped ==
  ASSUME NEW n \in Nat
  PROVE  Unset(n) \in Seq(SignerValues)
<1>1. Text("") \in SignerValues
  BY DEF SignerValues
<1>2. Unset(n) \in [1..n -> SignerValues]
  BY <1>1 DEF Unset
<1> QED BY <1>2

(* What the effects hand to the parameters, and those that act on it.      *)
ToParameters(d) ==
    LET ps == Parameters(ParsedInteraction)
    IN  [i \in DOMAIN ps |-> Handed(d, ps[i].type, ps[i].identifier,
                                    i \in Defaulting(d, ps, "parameter"))]
Acting(d) ==
    LET ps == Parameters(ParsedInteraction)
    IN  {i \in DOMAIN ps : ToParameters(d)[i] # d.values[ps[i].identifier]}

LEMMA LastParameter ==
  ASSUME NEW d
  PROVE  ParameterEffects(d) =
           IF Acting(d) = {} THEN WithObjects(d)
           ELSE SetFclValue(WithObjects(d), Parameters(ParsedInteraction)[Max(Acting(d))].identifier,
                            ToParameters(d)[Max(Acting(d))])
<1> DEFINE ps == Parameters(ParsedInteraction)
           LastOf(h) ==
             LET acting == {i \in DOMAIN ps : h[i] # d.values[ps[i].identifier]}
             IN  IF acting = {} THEN WithObjects(d)
                 ELSE SetFclValue(WithObjects(d), ps[Max(acting)].identifier, h[Max(acting)])
<1>1. ParameterEffects(d) = CHOOSE y \in {LastOf(z) : z \in {ToParameters(d)}} : TRUE
  BY DEF ParameterEffects, Evaluated, ToParameters
<1>2. {LastOf(z) : z \in {ToParameters(d)}} = {LastOf(ToParameters(d))}
  <2> HIDE DEF LastOf
  <2> QED OBVIOUS
<1>3. ParameterEffects(d) = LastOf(ToParameters(d))
  <2> HIDE DEF LastOf
  <2> QED BY <1>1, <1>2
<1> QED BY <1>3 DEF Acting

LEMMA ActingLast ==
  ASSUME cached \in Sources \cup {Nothing}, NEW d, Acting(d) # {}
  PROVE  /\ Max(Acting(d)) \in Acting(d)
         /\ Max(Acting(d)) \in DOMAIN Parameters(ParsedInteraction)
<1>1. IsInteraction(ParsedInteraction)
  BY AnswerShape DEF ParsedInteraction
<1>2. Acting(d) \in SUBSET (1..Len(Parameters(ParsedInteraction)))
  BY <1>1 DEF IsInteraction, Parameters, Acting
<1>3. Len(Parameters(ParsedInteraction)) \in Nat
  BY <1>1 DEF IsInteraction, Parameters
<1>4. Max(Acting(d)) \in Acting(d)
  BY <1>2, <1>3, MaxIn
<1> QED BY <1>4 DEF Acting

LEMMA HandedTyped ==
  ASSUME cached \in Sources \cup {Nothing}, NEW d \in Definitions,
         NEW i \in DOMAIN Parameters(ParsedInteraction)
  PROVE  ToParameters(d)[i] \in FieldValues
<1> DEFINE p == Parameters(ParsedInteraction)[i]
<1>1. p.identifier \in Identifiers
  BY AnswerShape DEF ParsedInteraction, IsInteraction, Parameters
<1>2. d.values[p.identifier] \in FieldValues
  BY <1>1 DEF Definitions
<1>3. FieldEffects(p.type, d.values[p.identifier]) \in FieldValues
  BY <1>2, FieldsStay DEF ParsedInteraction, Parameters
<1> QED BY <1>3, DefaultIsAccount DEF ToParameters, Handed

LEMMA AuthorizerTyped ==
  ASSUME NEW d \in Definitions, NEW m, NEW a \in SignerValues
  PROVE  /\ [d EXCEPT !.authorizers[m] = a] \in Definitions
         /\ [d EXCEPT !.authorizers[m] = a].code = d.code
<1> DEFINE s == [d.authorizers EXCEPT ![m] = a]
<1>1. s \in Seq(SignerValues)
  <2>1. PICK n \in Nat : d.authorizers \in [1..n -> SignerValues]
    BY DEF Definitions
  <2>2. s \in [1..n -> SignerValues]
    BY <2>1
  <2> HIDE DEF s
  <2> QED BY <2>2
<1>2. [d EXCEPT !.authorizers[m] = a] = [d EXCEPT !.authorizers = s]
  BY DEF Definitions
<1> HIDE DEF s
<1> QED BY <1>1, <1>2 DEF Definitions

(* Effects change neither the code of a definition nor its type.           *)
LEMMA EffectsTyped ==
  ASSUME cached \in Sources \cup {Nothing}, NEW d \in Definitions
  PROVE  AfterEffects(d) \in Definitions /\ AfterEffects(d).code = d.code
<1> DEFINE w == WithObjects(d)
<1>1. w \in Definitions /\ w.code = d.code
  BY ObjectsTyped
<1>2. ParameterEffects(d) \in Definitions /\ ParameterEffects(d).code = d.code
  <2>1. CASE Acting(d) = {}
    BY <1>1, <2>1, LastParameter
  <2>2. CASE Acting(d) # {}
    <3>1. ToParameters(d)[Max(Acting(d))] \in FieldValues
      BY <2>2, ActingLast, HandedTyped
    <3> DEFINE h == ToParameters(d)[Max(Acting(d))]
               id == Parameters(ParsedInteraction)[Max(Acting(d))].identifier
    <3>2. ParameterEffects(d) = SetFclValue(w, id, h)
      BY <2>2, LastParameter
    <3> HIDE DEF h, id, w
    <3>3. h \in FieldValues
      BY <3>1 DEF h
    <3> QED BY <1>1, <3>2, <3>3, SetTyped
  <2> QED BY <2>1, <2>2
<1> HIDE DEF w
<1>3. ExpectedAuthorizerCount(ParsedInteraction) \in Nat
  BY AnswerShape DEF ExpectedAuthorizerCount, IsInteraction, ParsedInteraction
<1>4. Unset(ExpectedAuthorizerCount(ParsedInteraction)) \in Seq(SignerValues)
  BY <1>3, UnsetTyped
<1>5. ASSUME NEW s \in Seq(SignerValues)
      PROVE  /\ [w EXCEPT !.authorizers = s] \in Definitions
             /\ [w EXCEPT !.authorizers = s].code = d.code
  BY <1>1 DEF Definitions
<1>6. ASSUME NEW m
      PROVE  /\ [w EXCEPT !.authorizers[m] = DefaultAccount] \in Definitions
             /\ [w EXCEPT !.authorizers[m] = DefaultAccount].code = d.code
  BY <1>1, DefaultIsAccount, AuthorizerTyped
<1>7. /\ [w EXCEPT !.payer = DefaultAccount] \in Definitions
      /\ [w EXCEPT !.payer = DefaultAccount].code = d.code
      /\ [w EXCEPT !.proposer = DefaultAccount] \in Definitions
      /\ [w EXCEPT !.proposer = DefaultAccount].code = d.code
  BY <1>1, DefaultIsAccount DEF Definitions
<1> QED BY <1>2, <1>4, <1>5, <1>6, <1>7 DEF AfterEffects, w

---------------------------------------------------------------------------
(* The inductive invariant of the form *)

(* Effects are due only of fields that are shown, and with those of a      *)
(* render.                                                                 *)
FormInv == FormTypeOK /\ (~pending => due = {})

(* A request under way is the one of the last code whose effects have run; *)
(* without one the cached answer is that of this code.                     *)
AnswerInv ==
    /\ ~pending => seen = definition.code
    /\ ~changedBack => IF request # Nothing THEN request = seen
                       ELSE seen # Nothing => cached = seen

(* Effects that have come to an end leave nothing to do: every field has   *)
(* the value that its effect gives it, and a transaction has the number of *)
(* authorizers that it expects.                                            *)
FormAtRest ==
    ~pending =>
      /\ \A i \in DOMAIN Parameters(ParsedInteraction) :
            LET p == Parameters(ParsedInteraction)[i]
            IN  FieldEffects(p.type, definition.values[p.identifier])
                  = definition.values[p.identifier]
      /\ ~WrongAuthorizers(ParsedInteraction, definition)

LEMMA FormStart == FormInit => FormInv /\ AnswerInv /\ FormAtRest
<1> SUFFICES ASSUME FormInit PROVE FormInv /\ AnswerInv /\ FormAtRest
  OBVIOUS
<1>1. pending = TRUE /\ seen = Nothing /\ request = Nothing /\ due = {}
  BY DEF FormInit
<1>2. definition \in Definitions
  <2>1. PICK source \in Sources : definition = EmptyDefinition(source)
    BY DEF FormInit
  <2>2. Text("") \in SignerValues
    BY DEF SignerValues
  <2>3. << >> \in Seq(SignerValues)
    OBVIOUS
  <2> QED BY <2>1, <2>2, <2>3, FieldsAssumption DEF EmptyDefinition, Definitions
<1>3. FormTypeOK
  <2>1. cached = Nothing /\ accounts \in BOOLEAN /\ loads = 0 /\ changedBack = FALSE
    BY DEF FormInit
  <2>2. loads \in 0..MaxLoads
    BY <2>1, FormAssumption
  <2> QED BY <1>1, <1>2, <2>1, <2>2 DEF FormTypeOK
<1> QED BY <1>1, <1>3 DEF FormInv, AnswerInv, FormAtRest

(* The request that a change of the code makes keeps up with the effects.  *)
LEMMA ParseStep ==
  ASSUME FormTypeOK, AnswerInv, ParseEffect, UNCHANGED cached
  PROVE  /\ seen' = definition.code
         /\ seen' \in Sources
         /\ request' \in Sources \cup {Nothing}
         /\ changedBack' \in BOOLEAN
         /\ ~changedBack' => IF request' # Nothing THEN request' = seen' ELSE cached' = seen'
<1>1. definition.code \in Sources /\ definition.code # Nothing
  BY FormAssumption DEF FormTypeOK, Definitions
<1>2. request \in Sources \cup {Nothing} /\ changedBack \in BOOLEAN /\ seen \in Sources \cup {Nothing}
  BY DEF FormTypeOK
<1>3. seen' = definition.code
  BY DEF ParseEffect
<1>4. CASE definition.code = seen
  BY <1>1, <1>2, <1>3, <1>4 DEF ParseEffect, AnswerInv
<1>5. CASE definition.code # seen /\ cached # definition.code
  BY <1>1, <1>2, <1>3, <1>5 DEF ParseEffect
<1>6. CASE definition.code # seen /\ cached = definition.code
  BY <1>1, <1>2, <1>3, <1>6 DEF ParseEffect
<1> QED BY <1>4, <1>5, <1>6

LEMMA MountedShown ==
  ASSUME NEW d
  PROVE  Mounted(d) \subseteq AddressFields(ParsedInteraction, d)
BY DEF Mounted

(* What the user does, with the effects that run before.                   *)
LEMMA UpdateStep ==
  ASSUME FormInv, AnswerInv, NEW d \in Definitions, NEW mutated \in Definitions,
         FormUpdate(d, mutated), UNCHANGED <<cached, accounts, loads>>
  PROVE  FormInv' /\ AnswerInv' /\ FormAtRest'
<1>1. FormTypeOK /\ cached \in Sources \cup {Nothing}
  BY DEF FormInv, FormTypeOK
<1> DEFINE effective == IF pending THEN AfterEffects(definition) ELSE definition
           next == IF pending /\ Sets(definition, effective) THEN AfterEffects(mutated) ELSE d
<1>2. definition' = next /\ due' = (IF pending THEN {} ELSE due) \cup Mounted(next) /\ pending' = TRUE
  BY DEF FormUpdate
<1>3. next \in Definitions
  BY <1>1, EffectsTyped
<1> HIDE DEF next
<1>4. due' \subseteq AddressFields(ParsedInteraction', definition')
  <2>1. due' = Mounted(next)
    BY <1>2 DEF FormInv
  <2>2. ParsedInteraction' = ParsedInteraction
    BY DEF ParsedInteraction, InteractionOf
  <2> QED BY <1>2, <2>1, <2>2, MountedShown
<1>5. AddressFields(ParsedInteraction, definition)' = AddressFields(ParsedInteraction', definition')
  BY DEF AddressFields, Signing, Signer, Parameters
<1>6. CASE pending
  <2>1. ParseEffect
    BY <1>6 DEF FormUpdate
  <2>2. FormTypeOK'
    BY <1>1, <1>2, <1>3, <1>4, <1>5, <2>1, ParseStep DEF FormTypeOK
  <2>3. AnswerInv'
    BY <1>1, <1>2, <2>1, ParseStep DEF AnswerInv
  <2> QED BY <1>2, <2>2, <2>3 DEF FormInv, FormAtRest
<1>7. CASE ~pending
  <2>1. UNCHANGED <<seen, request, changedBack>>
    BY <1>7 DEF FormUpdate
  <2>2. FormTypeOK'
    BY <1>1, <1>2, <1>3, <1>4, <1>5, <2>1 DEF FormTypeOK
  <2>3. AnswerInv'
    BY <1>2, <2>1 DEF AnswerInv
  <2> QED BY <1>2, <2>2, <2>3 DEF FormInv, FormAtRest
<1> QED BY <1>1, <1>6, <1>7 DEF FormTypeOK

(* A field whose effect is due with a default account has no address.      *)
LEMMA DefaultDue ==
  ASSUME NEW d, NEW ps, NEW role, NEW i \in Defaulting(d, ps, role)
  PROVE  \E f \in due : f[1] = role /\ f[2] = i /\ ~IsFclAddressValue(ValueOf(d, ps, f))
BY DEF Defaulting, NeedsDefault

(* Where the effects set nothing, no effect has another value.             *)
LEMMA NothingSet ==
  ASSUME FormInv, AfterEffects(definition) = definition,
         ~WrongAuthorizers(ParsedInteraction, definition),
         NEW i \in DOMAIN Parameters(ParsedInteraction)
  PROVE  LET p == Parameters(ParsedInteraction)[i]
         IN  FieldEffects(p.type, definition.values[p.identifier]) = definition.values[p.identifier]
<1> DEFINE ps == Parameters(ParsedInteraction)
           Due(role) == Defaulting(definition, ps, role)
           w == WithObjects(definition)
<1>1. /\ FormTypeOK /\ definition \in Definitions /\ cached \in Sources \cup {Nothing}
      /\ due \subseteq AddressFields(ParsedInteraction, definition)
  BY DEF FormInv, FormTypeOK
<1>2. w \in Definitions /\ w.authorizers = definition.authorizers
  BY <1>1, ObjectsTyped
<1> HIDE DEF w
<1>3. Due("authorizer") = {}
  <2>1. SUFFICES ASSUME Due("authorizer") # {} PROVE FALSE
    OBVIOUS
  <2>2. definition.authorizers \in Seq(SignerValues)
    BY <1>1 DEF Definitions
  <2>3. Due("authorizer") \in SUBSET (DOMAIN definition.authorizers)
    <3>1. ASSUME NEW f \in due, f[1] = "authorizer" PROVE f[2] \in DOMAIN definition.authorizers
      BY <1>1, <3>1 DEF AddressFields, Signer
    <3> HIDE DEF ps
    <3>2. \A x \in Due("authorizer") : \E f \in due : f[1] = "authorizer" /\ f[2] = x
      BY DefaultDue
    <3> QED BY <3>1, <3>2
  <2> DEFINE m == Max(Due("authorizer"))
  <2>4. m \in Due("authorizer")
    <3>1. Len(definition.authorizers) \in Nat /\ DOMAIN definition.authorizers = 1..Len(definition.authorizers)
      BY <2>2
    <3> HIDE DEF Due
    <3> QED BY <2>1, <2>3, <3>1, MaxIn
  <2> HIDE DEF m
  <2>5. ~IsFclAddressValue(definition.authorizers[m])
    <3>1. PICK f \in due : f[1] = "authorizer" /\ f[2] = m /\ ~IsFclAddressValue(ValueOf(definition, ps, f))
      BY <2>4, DefaultDue
    <3> QED BY <3>1 DEF ValueOf
  <2>6. AfterEffects(definition) = [w EXCEPT !.authorizers[m] = DefaultAccount]
    BY <2>1 DEF AfterEffects, w, m
  <2>7. AfterEffects(definition).authorizers[m] = DefaultAccount
    <3>1. m \in DOMAIN w.authorizers
      BY <1>2, <2>3, <2>4
    <3> QED BY <1>2, <2>6, <3>1 DEF Definitions
  <2> QED BY <2>5, <2>7, DefaultIsAccount
<1>4. Due("payer") = {}
  <2>1. SUFFICES ASSUME Due("payer") # {} PROVE FALSE
    OBVIOUS
  <2>2. ~IsFclAddressValue(definition.payer)
    <3>1. PICK f \in due : f[1] = "payer" /\ ~IsFclAddressValue(ValueOf(definition, ps, f))
      BY <2>1, DefaultDue
    <3> QED BY <3>1 DEF ValueOf
  <2>3. AfterEffects(definition) = [w EXCEPT !.payer = DefaultAccount]
    BY <1>3, <2>1 DEF AfterEffects, w
  <2>4. AfterEffects(definition).payer = DefaultAccount
    BY <1>2, <2>3 DEF Definitions
  <2> QED BY <2>2, <2>4, DefaultIsAccount
<1>5. Due("proposer") = {}
  <2>1. SUFFICES ASSUME Due("proposer") # {} PROVE FALSE
    OBVIOUS
  <2>2. ~IsFclAddressValue(definition.proposer)
    <3>1. PICK f \in due : f[1] = "proposer" /\ ~IsFclAddressValue(ValueOf(definition, ps, f))
      BY <2>1, DefaultDue
    <3> QED BY <3>1 DEF ValueOf
  <2>3. AfterEffects(definition) = [w EXCEPT !.proposer = DefaultAccount]
    BY <1>3, <1>4, <2>1 DEF AfterEffects, w
  <2>4. AfterEffects(definition).proposer = DefaultAccount
    BY <1>2, <2>3 DEF Definitions
  <2> QED BY <2>2, <2>4, DefaultIsAccount
<1>6. ParameterEffects(definition) = definition
  BY <1>3, <1>4, <1>5 DEF AfterEffects
<1>7. Acting(definition) = {}
  <2>1. SUFFICES ASSUME Acting(definition) # {} PROVE FALSE
    OBVIOUS
  <2> DEFINE m == Max(Acting(definition))
             id == ps[m].identifier
             h == ToParameters(definition)[m]
  <2>2. m \in Acting(definition) /\ m \in DOMAIN ps
    BY <1>1, <2>1, ActingLast
  <2>3. h # definition.values[id]
    BY <2>2 DEF Acting
  <2>4. id \in Identifiers
    BY <1>1, <2>2, AnswerShape DEF ParsedInteraction, IsInteraction, Parameters
  <2>5. definition = SetFclValue(w, id, h)
    BY <1>6, <2>1, LastParameter DEF w
  <2> HIDE DEF h, id
  <2>6. SetFclValue(w, id, h).values[id] = h
    BY <1>2, <2>4 DEF SetFclValue, Definitions
  <2> QED BY <2>3, <2>5, <2>6
<1> DEFINE p == ps[i]
           v == definition.values[p.identifier]
<1>8. ToParameters(definition)[i] = v
  BY <1>7 DEF Acting
<1>9. i \notin Due("parameter")
  <2>1. SUFFICES ASSUME i \in Due("parameter") PROVE FALSE
    OBVIOUS
  <2>2. PICK f \in due : f[1] = "parameter" /\ f[2] = i /\ ~IsFclAddressValue(ValueOf(definition, ps, f))
    BY <2>1, DefaultDue
  <2>3. ~IsFclAddressValue(v)
    BY <2>2 DEF ValueOf
  <2>4. v = DefaultAccount
    BY <1>8, <2>1 DEF ToParameters, Handed
  <2> QED BY <2>3, <2>4, DefaultIsAccount
<1>10. ToParameters(definition)[i] = FieldEffects(p.type, v)
  BY <1>9 DEF ToParameters, Handed
<1> QED BY <1>8, <1>10

LEMMA FlushStep ==
  ASSUME FormInv, AnswerInv, Flush
  PROVE  FormInv' /\ AnswerInv' /\ FormAtRest'
<1>1. FormTypeOK /\ definition \in Definitions /\ cached \in Sources \cup {Nothing}
  BY DEF FormInv, FormTypeOK
<1> DEFINE next == AfterEffects(definition)
<1>2. /\ definition' = next /\ pending' = Sets(definition, next) /\ due' = Mounted(next)
      /\ ParseEffect
      /\ UNCHANGED <<cached, accounts, loads>>
  BY DEF Flush
<1>3. next \in Definitions /\ next.code = definition.code
  BY <1>1, EffectsTyped
<1> HIDE DEF next
<1>4. pending' \in BOOLEAN
  BY <1>2 DEF Sets
<1>5. ParsedInteraction' = ParsedInteraction
  BY <1>2 DEF ParsedInteraction, InteractionOf
<1>6. FormTypeOK'
  <2>1. AddressFields(ParsedInteraction, definition)' = AddressFields(ParsedInteraction', definition')
    BY DEF AddressFields, Signing, Signer, Parameters
  <2>2. due' \subseteq AddressFields(ParsedInteraction, definition)'
    BY <1>2, <1>5, <2>1, MountedShown
  <2> QED BY <1>1, <1>2, <1>3, <1>4, <2>2, ParseStep DEF FormTypeOK
<1>7. ~pending' => next = definition /\ ~WrongAuthorizers(ParsedInteraction, definition)
  BY <1>2 DEF Sets
<1>8. FormInv'
  BY <1>2, <1>6, <1>7 DEF FormInv, Mounted
<1>9. AnswerInv'
  BY <1>1, <1>2, <1>3, ParseStep DEF AnswerInv
<1>10. FormAtRest'
  <2> SUFFICES ASSUME ~pending' PROVE FormAtRest'
    BY DEF FormAtRest
  <2>1. definition' = definition /\ AfterEffects(definition) = definition
    BY <1>2, <1>7 DEF next
  <2>2. \A i \in DOMAIN Parameters(ParsedInteraction) :
          LET p == Parameters(ParsedInteraction)[i]
          IN  FieldEffects(p.type, definition.values[p.identifier]) = definition.values[p.identifier]
    BY <1>7, <2>1, NothingSet
  <2>3. WrongAuthorizers(ParsedInteraction, definition)' = WrongAuthorizers(ParsedInteraction, definition)
    BY <1>5, <2>1 DEF WrongAuthorizers, Signing, ExpectedAuthorizerCount
  <2> QED BY <1>5, <1>7, <2>1, <2>2, <2>3 DEF FormAtRest, Parameters
<1> QED BY <1>8, <1>9, <1>10

LEMMA EditValueStep ==
  ASSUME FormInv, AnswerInv, NEW i \in DOMAIN Parameters(ParsedInteraction), EditValue(i)
  PROVE  FormInv' /\ AnswerInv' /\ FormAtRest'
<1> DEFINE p == Parameters(ParsedInteraction)[i]
           v == definition.values[p.identifier]
<1>1. definition \in Definitions /\ cached \in Sources \cup {Nothing}
  BY DEF FormInv, FormTypeOK
<1>2. p.identifier \in Identifiers
  BY <1>1, AnswerShape DEF ParsedInteraction, IsInteraction, Parameters
<1>3. v \in FieldValues
  BY <1>1, <1>2 DEF Definitions
<1>4. PICK x \in FieldEdits(p.type, v) :
        /\ FormUpdate(SetFclValue(definition, p.identifier, x.arg),
                      SetFclValue(definition, p.identifier, x.mutated))
        /\ UNCHANGED <<cached, accounts, loads>>
  BY DEF EditValue
<1>5. x.arg \in FieldValues /\ x.mutated \in FieldValues
  BY <1>1, <1>3, <1>4, FieldsStay DEF ParsedInteraction, Parameters
<1>6. /\ SetFclValue(definition, p.identifier, x.arg) \in Definitions
      /\ SetFclValue(definition, p.identifier, x.mutated) \in Definitions
  BY <1>1, <1>5, SetTyped
<1> QED BY <1>4, <1>6, UpdateStep

LEMMA SelectSignerStep ==
  ASSUME FormInv, AnswerInv, NEW role \in {"proposer", "payer", "authorizer"}, NEW a \in Accounts,
         SelectSigner(role, a)
  PROVE  FormInv' /\ AnswerInv' /\ FormAtRest'
<1>1. definition \in Definitions /\ Text(a) \in SignerValues
  BY DEF FormInv, FormTypeOK, SignerValues
<1>2. UNCHANGED <<cached, accounts, loads>>
  BY DEF SelectSigner
<1>3. CASE role \in {"proposer", "payer"}
  <2>1. FormUpdate([definition EXCEPT ![role] = Text(a)], definition)
    BY <1>3 DEF SelectSigner
  <2>2. [definition EXCEPT ![role] = Text(a)] \in Definitions
    BY <1>1, <1>3 DEF Definitions
  <2> QED BY <1>1, <1>2, <2>1, <2>2, UpdateStep
<1>4. CASE role = "authorizer"
  <2>1. PICK i \in DOMAIN definition.authorizers :
          FormUpdate([definition EXCEPT !.authorizers[i] = Text(a)], definition)
    BY <1>4 DEF SelectSigner
  <2>2. [definition EXCEPT !.authorizers[i] = Text(a)] \in Definitions
    BY <1>1, AuthorizerTyped
  <2> QED BY <1>1, <1>2, <2>1, <2>2, UpdateStep
<1> QED BY <1>3, <1>4

LEMMA ChangeCodeStep ==
  ASSUME FormInv, AnswerInv, NEW source \in Sources, ChangeCode(source)
  PROVE  FormInv' /\ AnswerInv' /\ FormAtRest'
<1>1. definition \in Definitions
  BY DEF FormInv, FormTypeOK
<1>2. /\ FormUpdate([definition EXCEPT !.code = source], definition)
      /\ UNCHANGED <<cached, accounts, loads>>
  BY DEF ChangeCode
<1>3. [definition EXCEPT !.code = source] \in Definitions
  BY <1>1 DEF Definitions
<1> QED BY <1>1, <1>2, <1>3, UpdateStep

LEMMA AnswerStep ==
  ASSUME FormInv, AnswerInv, Answer
  PROVE  FormInv' /\ AnswerInv' /\ FormAtRest'
<1>1. FormTypeOK
  BY DEF FormInv
<1>2. /\ ~pending /\ request # Nothing /\ cached' = request /\ request' = Nothing /\ pending' = TRUE
      /\ due' \subseteq AddressFields(InteractionOf(request), definition)
      /\ UNCHANGED <<definition, seen, accounts, loads, changedBack>>
  BY DEF Answer
<1>3. due' \subseteq AddressFields(ParsedInteraction, definition)'
  <2>1. ParsedInteraction' = InteractionOf(request)
    BY <1>2 DEF ParsedInteraction, InteractionOf
  <2>2. AddressFields(ParsedInteraction, definition)' = AddressFields(ParsedInteraction', definition')
    BY DEF AddressFields, Signing, Signer, Parameters
  <2> QED BY <1>2, <2>1, <2>2
<1>4. FormTypeOK'
  BY <1>1, <1>2, <1>3 DEF FormTypeOK
<1>5. AnswerInv'
  BY <1>2 DEF AnswerInv
<1> QED BY <1>2, <1>4, <1>5 DEF FormInv, FormAtRest

LEMMA RevalidateStep ==
  ASSUME FormInv, AnswerInv, FormAtRest, Revalidate
  PROVE  FormInv' /\ AnswerInv' /\ FormAtRest'
<1>1. /\ ~pending /\ request' = definition.code /\ changedBack' = FALSE
      /\ UNCHANGED <<definition, seen, cached, pending, due, accounts, loads>>
  BY DEF Revalidate
<1>2. FormTypeOK'
  <2>1. AddressFields(ParsedInteraction, definition)' = AddressFields(ParsedInteraction, definition)
    BY <1>1 DEF AddressFields, Signing, Signer, Parameters, ParsedInteraction, InteractionOf
  <2> QED BY <1>1, <2>1 DEF FormInv, FormTypeOK, Definitions
<1>3. AnswerInv'
  BY <1>1, FormAssumption DEF AnswerInv, FormInv, FormTypeOK, Definitions
<1>4. FormAtRest'
  BY <1>1 DEF FormAtRest, Parameters, ParsedInteraction, InteractionOf, WrongAuthorizers, Signing,
              ExpectedAuthorizerCount
<1> QED BY <1>1, <1>2, <1>3, <1>4 DEF FormInv

LEMMA LoadAccountsStep ==
  ASSUME FormInv, AnswerInv, LoadAccounts
  PROVE  FormInv' /\ AnswerInv' /\ FormAtRest'
<1>1. /\ ~pending /\ loads < MaxLoads /\ loads' = loads + 1 /\ accounts' = TRUE /\ pending' = TRUE
      /\ due' = AddressFields(ParsedInteraction, definition)
      /\ UNCHANGED <<definition, seen, cached, request, changedBack>>
  BY DEF LoadAccounts
<1>2. FormTypeOK'
  <2>1. AddressFields(ParsedInteraction, definition)' = AddressFields(ParsedInteraction, definition)
    BY <1>1 DEF AddressFields, Signing, Signer, Parameters, ParsedInteraction, InteractionOf
  <2>2. loads' \in 0..MaxLoads
    BY <1>1, FormAssumption DEF FormInv, FormTypeOK
  <2> QED BY <1>1, <2>1, <2>2 DEF FormInv, FormTypeOK
<1>3. AnswerInv'
  BY <1>1 DEF AnswerInv
<1> QED BY <1>1, <1>2, <1>3 DEF FormInv, FormAtRest

LEMMA FormStutter ==
  FormInv /\ AnswerInv /\ FormAtRest /\ UNCHANGED formVars => FormInv' /\ AnswerInv' /\ FormAtRest'
<1> SUFFICES ASSUME FormInv, AnswerInv, FormAtRest, UNCHANGED formVars
             PROVE  FormInv' /\ AnswerInv' /\ FormAtRest'
  OBVIOUS
<1>1. UNCHANGED <<definition, seen, cached, request, pending, due, accounts, loads, changedBack>>
  BY DEF formVars
<1>2. AddressFields(ParsedInteraction, definition)' = AddressFields(ParsedInteraction, definition)
  BY <1>1 DEF AddressFields, Signing, Signer, Parameters, ParsedInteraction, InteractionOf
<1>3. FormInv'
  BY <1>1, <1>2 DEF FormInv, FormTypeOK
<1>4. AnswerInv'
  BY <1>1 DEF AnswerInv
<1>5. FormAtRest'
  BY <1>1 DEF FormAtRest, Parameters, ParsedInteraction, InteractionOf, WrongAuthorizers, Signing,
              ExpectedAuthorizerCount
<1> QED BY <1>3, <1>4, <1>5

LEMMA FormStep ==
  FormInv /\ AnswerInv /\ FormAtRest /\ [FormNext]_formVars => FormInv' /\ AnswerInv' /\ FormAtRest'
<1> SUFFICES ASSUME FormInv, AnswerInv, FormAtRest, FormNext
             PROVE  FormInv' /\ AnswerInv' /\ FormAtRest'
  BY FormStutter
<1> QED
  BY FlushStep, AnswerStep, RevalidateStep, LoadAccountsStep, ChangeCodeStep, EditValueStep,
     SelectSignerStep
  DEF FormNext

(* Every reachable form is in the inductive invariant.                     *)
THEOREM FormInvariant == FormSpec => [](FormInv /\ AnswerInv /\ FormAtRest)
BY FormStart, FormStep, PTL DEF FormSpec

(* The state of a form has its types: what effects and users make of the   *)
(* values stays in the values of fields, and effects are due of fields     *)
(* that are shown.                                                         *)
THEOREM FormTypeCorrect == FormSpec => []FormTypeOK
<1>1. FormInv => FormTypeOK
  BY DEF FormInv
<1> QED BY <1>1, FormInvariant, PTL

(* The code goes back to the cached source, with a request under way.      *)
BackToCached == ~changedBack /\ changedBack' => request # Nothing /\ cached = definition.code

LEMMA BackStep == FormNext => BackToCached
<1>1. ASSUME ParseEffect \/ UNCHANGED changedBack PROVE BackToCached
  BY <1>1 DEF ParseEffect, BackToCached
<1>2. ASSUME NEW d, NEW mutated, FormUpdate(d, mutated) PROVE BackToCached
  BY <1>1, <1>2 DEF FormUpdate
<1>3. ASSUME NEW source, ChangeCode(source) PROVE BackToCached
  BY <1>2, <1>3 DEF ChangeCode
<1>4. ASSUME NEW i, EditValue(i) PROVE BackToCached
  BY <1>2, <1>4 DEF EditValue
<1>5. ASSUME NEW role, NEW a, SelectSigner(role, a) PROVE BackToCached
  BY <1>2, <1>5 DEF SelectSigner
<1>6. ASSUME Flush \/ Answer \/ LoadAccounts PROVE BackToCached
  BY <1>1, <1>6 DEF Flush, Answer, LoadAccounts
<1>7. ASSUME Revalidate PROVE BackToCached
  BY <1>7 DEF Revalidate, BackToCached
<1> QED BY <1>3, <1>4, <1>5, <1>6, <1>7 DEF FormNext

(* Skipping a request whose answer is cached leaves the parameters of      *)
(* another code in the form in one order of edits, answers and effects     *)
(* only: the code returns to the cached source while a request for the     *)
(* code in between is under way.                                           *)
THEOREM AnswerIsCurrent == FormSpec => []ParsedIsCurrent /\ [][BackToCached]_formVars
<1>1. FormInv /\ AnswerInv => ParsedIsCurrent
  <2> SUFFICES ASSUME FormInv, AnswerInv, Settled, ~changedBack PROVE cached = definition.code
    BY DEF ParsedIsCurrent
  <2>1. definition.code # Nothing
    BY FormAssumption DEF FormInv, FormTypeOK, Definitions
  <2> QED BY <2>1 DEF AnswerInv, Settled
<1> QED BY <1>1, FormInvariant, BackStep, PTL DEF FormSpec

(* Effects come to rest only where every field keeps the value that it     *)
(* has and the authorizers are as many as the transaction expects.         *)
THEOREM EffectsRest == FormSpec => []FormAtRest
BY FormInvariant, PTL

(* If FCL encodes what a field leaves as it is, Execute sends a value that *)
(* FCL encodes for every parameter, also for values that were entered for  *)
(* another code, and although all effects compete for one definition.      *)
THEOREM EncodedArguments ==
  ASSUME RestEncodes
  PROVE  FormSpec => []ArgumentsEncode
<1>1. FormInv /\ FormAtRest => ArgumentsEncode
  <2> SUFFICES ASSUME FormInv, FormAtRest, ~pending,
                      NEW i \in DOMAIN Parameters(ParsedInteraction),
                      HasFclType(Parameters(ParsedInteraction)[i].type),
                      Parameters(ParsedInteraction)[i].type.kind # "ADDRESS"
               PROVE  LET p == Parameters(ParsedInteraction)[i]
                      IN  IsEncoded(p.type, Serialized(p.type, definition.values[p.identifier]))
    BY DEF ArgumentsEncode
  <2> DEFINE p == Parameters(ParsedInteraction)[i]
             v == definition.values[p.identifier]
  <2>1. cached \in Sources \cup {Nothing} /\ definition \in Definitions
    BY DEF FormInv, FormTypeOK
  <2>2. cached \in Sources /\ ParsedInteraction = Interactions[cached]
    BY <2>1 DEF ParsedInteraction, InteractionOf, NoInteraction, Parameters
  <2>3. p.identifier \in Identifiers
    BY <2>1, AnswerShape DEF ParsedInteraction, IsInteraction, Parameters
  <2>4. v \in FieldValues
    BY <2>1, <2>3 DEF Definitions
  <2>5. FieldEffects(p.type, v) = v
    BY DEF FormAtRest
  <2> QED BY <2>2, <2>4, <2>5 DEF RestEncodes, Parameters
<1> QED BY <1>1, FormInvariant, PTL

---------------------------------------------------------------------------
(* Entries of dictionaries *)

(* K is closed under the effects of a dictionary's field, and all of its   *)
(* values have the entries E.                                              *)
SafeValues(interaction, i, K, E) ==
    LET type == Parameters(interaction)[i].type
    IN  /\ i \in DOMAIN Parameters(interaction)
        /\ type.kind = "DICTIONARY"
        /\ \A w \in K : /\ FieldEffects(type, w) \in K
                        /\ FieldInPlace(type, w) \in K
                        /\ E \subseteq EntriesOf(w)

(* A dictionary whose entries are followed has one of such values.         *)
KeptInv ==
    /\ DOMAIN held = Identifiers
    /\ \A p \in Identifiers : held[p] # Nothing =>
          \E i \in DOMAIN Parameters(ParsedInteraction) : \E K :
             /\ Parameters(ParsedInteraction)[i].identifier = p
             /\ definition.values[p] \in K
             /\ SafeValues(ParsedInteraction, i, K, held[p])

LEMMA NamesDiffer ==
  ASSUME UniqueNames, cached \in Sources \cup {Nothing},
         NEW i \in DOMAIN Parameters(ParsedInteraction), NEW j \in DOMAIN Parameters(ParsedInteraction),
         Parameters(ParsedInteraction)[i].identifier = Parameters(ParsedInteraction)[j].identifier
  PROVE  i = j
<1>1. cached \in Sources /\ ParsedInteraction = Interactions[cached]
  BY DEF ParsedInteraction, InteractionOf, NoInteraction, Parameters
<1> QED BY <1>1 DEF UniqueNames, Parameters

(* A round of effects leaves a dictionary among its safe values.           *)
LEMMA EffectsSafe ==
  ASSUME UniqueNames, FormInv, NEW d \in Definitions,
         NEW i \in DOMAIN Parameters(ParsedInteraction), NEW K, NEW E,
         SafeValues(ParsedInteraction, i, K, E),
         d.values[Parameters(ParsedInteraction)[i].identifier] \in K
  PROVE  AfterEffects(d).values[Parameters(ParsedInteraction)[i].identifier] \in K
<1> DEFINE ps == Parameters(ParsedInteraction)
           p == ps[i].identifier
           w == WithObjects(d)
<1>1. /\ cached \in Sources \cup {Nothing}
      /\ due \subseteq AddressFields(ParsedInteraction, definition)
  BY DEF FormInv, FormTypeOK
<1>2. p \in Identifiers
  BY <1>1, AnswerShape DEF ParsedInteraction, IsInteraction, Parameters
<1>3. w \in Definitions
  BY <1>1, ObjectsTyped
<1>4. w.values[p] \in K
  <2> DEFINE Written == {j \in DOMAIN ps : ps[j].identifier = p}
  <2>1. Written # {} /\ \A j \in Written : j = i
    BY <1>1, NamesDiffer
  <2>2. Max(Written) = i
    <3>1. Len(ps) \in Nat /\ Written \in SUBSET (1..Len(ps))
      BY <1>1, AnswerShape DEF ParsedInteraction, IsInteraction, Parameters
    <3>2. Max(Written) \in Written
      <4> HIDE DEF Written, ps
      <4> QED BY <2>1, <3>1, MaxIn
    <3> QED BY <2>1, <3>2
  <2>3. w.values[p] = FieldInPlace(ps[Max(Written)].type, d.values[p])
    BY <1>2, <2>1 DEF WithObjects, Definitions
  <2> QED BY <2>2, <2>3 DEF SafeValues
<1>5. ToParameters(d)[i] \in K
  <2>1. i \notin Defaulting(d, ps, "parameter")
    <3>1. SUFFICES ASSUME i \in Defaulting(d, ps, "parameter") PROVE FALSE
      OBVIOUS
    <3>2. PICK f \in due : f[1] = "parameter" /\ f[2] = i
      BY <3>1, DefaultDue
    <3>3. ps[i].type.kind = "ADDRESS"
      BY <1>1, <3>2 DEF AddressFields, Signer
    <3> QED BY <3>3 DEF SafeValues
  <2> QED BY <2>1 DEF ToParameters, Handed, SafeValues
<1>6. ParameterEffects(d).values[p] \in K
  <2>1. CASE Acting(d) = {}
    BY <1>4, <2>1, LastParameter
  <2>2. CASE Acting(d) # {}
    <3> DEFINE m == Max(Acting(d))
               h == ToParameters(d)[m]
               id == ps[m].identifier
    <3>1. m \in DOMAIN ps
      BY <1>1, <2>2, ActingLast
    <3>2. ParameterEffects(d) = SetFclValue(w, id, h)
      BY <2>2, LastParameter
    <3>3. id = p => h \in K
      BY <1>1, <1>5, <3>1, NamesDiffer
    <3> HIDE DEF h, id, w, p
    <3>4. SetFclValue(w, id, h).values[p] = IF id = p THEN h ELSE w.values[p]
      BY <1>2, <1>3 DEF SetFclValue, Definitions
    <3> QED BY <1>4, <3>2, <3>3, <3>4
  <2> QED BY <2>1, <2>2
<1> HIDE DEF w, p
<1>7. /\ \A s : [w EXCEPT !.authorizers = s].values = w.values
      /\ \A m : [w EXCEPT !.authorizers[m] = DefaultAccount].values = w.values
      /\ [w EXCEPT !.payer = DefaultAccount].values = w.values
      /\ [w EXCEPT !.proposer = DefaultAccount].values = w.values
  BY <1>3 DEF Definitions
<1>8. AfterEffects(d).values[p] \in K
  BY <1>4, <1>6, <1>7 DEF AfterEffects, w
<1> QED BY <1>8 DEF p

(* What the user does elsewhere does, too.                                 *)
LEMMA UpdateSafe ==
  ASSUME UniqueNames, FormInv, NEW d \in Definitions, NEW mutated \in Definitions,
         FormUpdate(d, mutated),
         NEW i \in DOMAIN Parameters(ParsedInteraction), NEW K, NEW E,
         SafeValues(ParsedInteraction, i, K, E),
         d.values[Parameters(ParsedInteraction)[i].identifier] \in K,
         mutated.values[Parameters(ParsedInteraction)[i].identifier] \in K
  PROVE  definition'.values[Parameters(ParsedInteraction)[i].identifier] \in K
<1>1. definition' = AfterEffects(mutated) \/ definition' = d
  BY DEF FormUpdate
<1> QED BY <1>1, EffectsSafe

(* Without an answer and an edit of a value, all dictionaries keep theirs. *)
LEMMA KeptFrom ==
  ASSUME KeptInv, UNCHANGED <<cached, held>>,
         \A i \in DOMAIN Parameters(ParsedInteraction) : \A K, E :
            /\ SafeValues(ParsedInteraction, i, K, E)
            /\ definition.values[Parameters(ParsedInteraction)[i].identifier] \in K
            => definition'.values[Parameters(ParsedInteraction)[i].identifier] \in K
  PROVE  KeptInv'
<1>1. ParsedInteraction' = ParsedInteraction
  BY DEF ParsedInteraction, InteractionOf
<1>2. Parameters(ParsedInteraction)' = Parameters(ParsedInteraction)
  BY <1>1 DEF Parameters
<1>3. DOMAIN held' = Identifiers
  BY DEF KeptInv
<1>4. ASSUME NEW p \in Identifiers, held'[p] # Nothing
      PROVE  \E i \in DOMAIN Parameters(ParsedInteraction) : \E K :
               /\ Parameters(ParsedInteraction)[i].identifier = p
               /\ definition'.values[p] \in K
               /\ SafeValues(ParsedInteraction, i, K, held'[p])
  BY <1>4 DEF KeptInv
<1> QED BY <1>1, <1>2, <1>3, <1>4 DEF KeptInv, SafeValues, Parameters

(* An entry that is added at rest has safe values to settle in.            *)
LEMMA AddedSafe ==
  ASSUME AddsSettle, FormInv, FormAtRest, ~pending,
         NEW i \in DOMAIN Parameters(ParsedInteraction),
         Parameters(ParsedInteraction)[i].type.kind = "DICTIONARY",
         NEW v \in FieldValues, v = definition.values[Parameters(ParsedInteraction)[i].identifier],
         ~DefaultKeyInUse(Parameters(ParsedInteraction)[i].type, v),
         NEW x \in FieldEdits(Parameters(ParsedInteraction)[i].type, v), x.op = "add"
  PROVE  \E K : x.arg \in K /\ SafeValues(ParsedInteraction, i, K, EntriesOf(v))
<1> DEFINE type == Parameters(ParsedInteraction)[i].type
           E == EntriesOf(v)
           K == Round(type, Round(type, {x.arg}))
<1>1. cached \in Sources /\ ParsedInteraction = Interactions[cached]
  BY DEF FormInv, FormTypeOK, ParsedInteraction, InteractionOf, NoInteraction, Parameters
<1>2. FieldEffects(type, v) = v
  BY DEF FormAtRest
<1>3. SettlesWith(type, x.arg, E)
  BY <1>1, <1>2 DEF AddsSettle, Parameters
<1>4. Round(type, K) = K /\ \A w \in K : E \subseteq EntriesOf(w)
  BY <1>3 DEF SettlesWith
<1>5. x.arg \in K
  BY DEF Round
<1> HIDE DEF K
<1>6. \A w \in K : FieldEffects(type, w) \in K /\ FieldInPlace(type, w) \in K
  <2>1. \A w \in K : FieldEffects(type, w) \in Round(type, K) /\ FieldInPlace(type, w) \in Round(type, K)
    BY DEF Round
  <2> QED BY <1>4, <2>1
<1> QED BY <1>4, <1>5, <1>6 DEF SafeValues

LEMMA EditValueKeeps ==
  ASSUME UniqueNames, AddsSettle, FormInv, FormAtRest, KeptInv,
         NEW j \in DOMAIN Parameters(ParsedInteraction), EditValue(j)
  PROVE  KeptInv'
<1> DEFINE ps == Parameters(ParsedInteraction)
           id == ps[j].identifier
           v == definition.values[id]
           With(x) == SetFclValue(definition, id, x)
<1>1. definition \in Definitions /\ cached \in Sources \cup {Nothing}
  BY DEF FormInv, FormTypeOK
<1>2. id \in Identifiers
  BY <1>1, AnswerShape DEF ParsedInteraction, IsInteraction, Parameters
<1>3. v \in FieldValues
  BY <1>1, <1>2 DEF Definitions
<1>4. PICK x \in FieldEdits(ps[j].type, v) :
        /\ FormUpdate(With(x.arg), With(x.mutated))
        /\ held' = [held EXCEPT ![id] =
             IF /\ ps[j].type.kind = "DICTIONARY" /\ x.op = "add" /\ ~pending
                /\ ~DefaultKeyInUse(ps[j].type, v)
             THEN EntriesOf(v) ELSE Nothing]
        /\ UNCHANGED cached
  BY DEF EditValue
<1>5. x.arg \in FieldValues /\ x.mutated \in FieldValues
  BY <1>1, <1>3, <1>4, FieldsStay DEF ParsedInteraction, Parameters
<1>6. With(x.arg) \in Definitions /\ With(x.mutated) \in Definitions
  BY <1>1, <1>5, SetTyped
<1>7. ParsedInteraction' = ParsedInteraction
  BY <1>4 DEF ParsedInteraction, InteractionOf
<1>8. DOMAIN held = Identifiers /\ DOMAIN held' = Identifiers
  BY <1>4 DEF KeptInv
<1>9. ASSUME NEW p \in Identifiers, held'[p] # Nothing
      PROVE  \E i \in DOMAIN ps : \E K :
               /\ ps[i].identifier = p
               /\ definition'.values[p] \in K
               /\ SafeValues(ParsedInteraction, i, K, held'[p])
  <2>1. CASE p = id
    <3>1. /\ ps[j].type.kind = "DICTIONARY" /\ x.op = "add" /\ ~pending
          /\ ~DefaultKeyInUse(ps[j].type, v) /\ held'[p] = EntriesOf(v)
      BY <1>4, <1>8, <1>9, <2>1
    <3>2. PICK K : x.arg \in K /\ SafeValues(ParsedInteraction, j, K, EntriesOf(v))
      BY <1>3, <1>4, <3>1, AddedSafe
    <3>3. definition' = With(x.arg)
      BY <1>4, <3>1 DEF FormUpdate
    <3>4. definition'.values[id] = x.arg
      BY <1>1, <1>2, <3>3 DEF SetFclValue, Definitions
    <3> QED BY <2>1, <3>1, <3>2, <3>4
  <2>2. CASE p # id
    <3>1. held'[p] = held[p]
      BY <1>4, <2>2
    <3>2. PICK i \in DOMAIN ps : \E K :
            ps[i].identifier = p /\ definition.values[p] \in K /\ SafeValues(ParsedInteraction, i, K, held[p])
      BY <1>9, <3>1 DEF KeptInv
    <3>5. PICK K :
            ps[i].identifier = p /\ definition.values[p] \in K /\ SafeValues(ParsedInteraction, i, K, held[p])
      BY <3>2
    <3>3. With(x.arg).values[p] = definition.values[p] /\ With(x.mutated).values[p] = definition.values[p]
      BY <1>1, <1>2, <2>2 DEF SetFclValue, Definitions
    <3> HIDE DEF With
    <3>4. definition'.values[p] \in K
      BY <1>4, <1>6, <3>5, <3>3, UpdateSafe
    <3> QED BY <3>1, <3>5, <3>4
  <2> QED BY <2>1, <2>2
<1> QED BY <1>7, <1>8, <1>9 DEF KeptInv, SafeValues, Parameters

LEMMA SelectSignerKeeps ==
  ASSUME UniqueNames, FormInv, KeptInv,
         NEW role \in {"proposer", "payer", "authorizer"}, NEW a \in Accounts, SelectSigner(role, a)
  PROVE  KeptInv'
<1>1. definition \in Definitions /\ Text(a) \in SignerValues
  BY DEF FormInv, FormTypeOK, SignerValues
<1>2. UNCHANGED <<cached, held>>
  BY DEF SelectSigner
<1>3. CASE role \in {"proposer", "payer"}
  <2> DEFINE d == [definition EXCEPT ![role] = Text(a)]
  <2>1. FormUpdate(d, definition)
    BY <1>3 DEF SelectSigner
  <2>2. d \in Definitions /\ d.values = definition.values
    BY <1>1, <1>3 DEF Definitions
  <2> HIDE DEF d
  <2> QED BY <1>1, <1>2, <2>1, <2>2, UpdateSafe, KeptFrom
<1>4. CASE role = "authorizer"
  <2>1. PICK i \in DOMAIN definition.authorizers :
          FormUpdate([definition EXCEPT !.authorizers[i] = Text(a)], definition)
    BY <1>4 DEF SelectSigner
  <2> DEFINE d == [definition EXCEPT !.authorizers[i] = Text(a)]
  <2>2. d \in Definitions
    BY <1>1, AuthorizerTyped
  <2>3. d.values = definition.values
    BY <1>1 DEF Definitions
  <2> HIDE DEF d
  <2>4. FormUpdate(d, definition)
    BY <2>1 DEF d
  <2> QED BY <1>1, <1>2, <2>2, <2>3, <2>4, UpdateSafe, KeptFrom
<1> QED BY <1>3, <1>4

LEMMA ChangeCodeKeeps ==
  ASSUME UniqueNames, FormInv, KeptInv, NEW source \in Sources, ChangeCode(source)
  PROVE  KeptInv'
<1> DEFINE d == [definition EXCEPT !.code = source]
<1>1. definition \in Definitions
  BY DEF FormInv, FormTypeOK
<1>2. FormUpdate(d, definition) /\ UNCHANGED <<cached, held>>
  BY DEF ChangeCode
<1>3. d \in Definitions /\ d.values = definition.values
  BY <1>1 DEF Definitions
<1> HIDE DEF d
<1> QED BY <1>1, <1>2, <1>3, UpdateSafe, KeptFrom

LEMMA FlushKeeps == UniqueNames /\ FormInv /\ KeptInv /\ Flush => KeptInv'
<1> SUFFICES ASSUME UniqueNames, FormInv, KeptInv, Flush PROVE KeptInv'
  OBVIOUS
<1>1. definition \in Definitions
  BY DEF FormInv, FormTypeOK
<1>2. definition' = AfterEffects(definition) /\ UNCHANGED <<cached, held>>
  BY DEF Flush
<1> QED BY <1>1, <1>2, EffectsSafe, KeptFrom

(* The next form has the parameter, or its entries are not followed.       *)
LEMMA AnswerKeeps == UniqueNames /\ FormInv /\ KeptInv /\ Answer => KeptInv'
<1> SUFFICES ASSUME UniqueNames, FormInv, KeptInv, Answer PROVE KeptInv'
  OBVIOUS
<1> DEFINE next == Parameters(InteractionOf(request))
           current == Parameters(ParsedInteraction)
<1>1. /\ cached' = request /\ UNCHANGED definition
      /\ held' = Forget(held, request)
      /\ cached \in Sources \cup {Nothing}
  BY DEF Answer, FormInv, FormTypeOK
<1>2. Parameters(ParsedInteraction)' = next /\ ParsedInteraction' = InteractionOf(request)
  BY <1>1 DEF ParsedInteraction, InteractionOf, Parameters
<1>3. DOMAIN held' = Identifiers
  BY <1>1 DEF Forget
<1>4. ASSUME NEW p \in Identifiers, held'[p] # Nothing
      PROVE  \E j \in DOMAIN next : \E K :
               /\ next[j].identifier = p
               /\ definition'.values[p] \in K
               /\ SafeValues(ParsedInteraction', j, K, held'[p])
  <2>1. PICK i \in DOMAIN current, j \in DOMAIN next :
          current[i].identifier = p /\ next[j] = current[i] /\ held'[p] = held[p]
    BY <1>1, <1>4 DEF Forget
  <2>2. PICK k \in DOMAIN current : \E K :
          current[k].identifier = p /\ definition.values[p] \in K /\ SafeValues(ParsedInteraction, k, K, held[p])
    BY <1>4, <2>1 DEF KeptInv
  <2>4. PICK K :
          current[k].identifier = p /\ definition.values[p] \in K /\ SafeValues(ParsedInteraction, k, K, held[p])
    BY <2>2
  <2>3. k = i
    BY <1>1, <2>1, <2>2, NamesDiffer
  <2> QED BY <1>1, <1>2, <2>1, <2>4, <2>3 DEF SafeValues
<1> QED BY <1>2, <1>3, <1>4 DEF KeptInv

LEMMA KeptStep ==
  ASSUME UniqueNames, AddsSettle
  PROVE  FormInv /\ FormAtRest /\ KeptInv /\ [FormNext]_formVars => KeptInv'
<1> SUFFICES ASSUME FormInv, FormAtRest, KeptInv, [FormNext]_formVars PROVE KeptInv'
  OBVIOUS
<1>1. CASE UNCHANGED formVars \/ Revalidate \/ LoadAccounts
  <2>1. UNCHANGED <<definition, cached, held>>
    BY <1>1 DEF formVars, Revalidate, LoadAccounts
  <2> QED BY <2>1, KeptFrom
<1>2. CASE FormNext /\ ~(Revalidate \/ LoadAccounts)
  BY <1>2, FlushKeeps, AnswerKeeps, ChangeCodeKeeps, EditValueKeeps, SelectSignerKeeps DEF FormNext
<1> QED BY <1>1, <1>2

(* Provided that a new entry with a key of its own settles beside the      *)
(* others, adding one keeps the entries of the dictionary, whatever else   *)
(* is edited, selected, answered and set by the effects of other fields    *)
(* until it is at rest, and also after that.                               *)
THEOREM EntriesKept ==
  ASSUME UniqueNames, AddsSettle
  PROVE  FormSpec => []AddKeepsEntries
<1>1. FormInit => KeptInv
  BY DEF FormInit, KeptInv
<1>2. KeptInv => AddKeepsEntries
  BY DEF KeptInv, AddKeepsEntries, SafeValues
<1> QED BY <1>1, <1>2, KeptStep, FormInvariant, PTL DEF FormSpec
==============================================================================
