----------------------------- MODULE SumsProofs -----------------------------
(***************************************************************************)
(* Lemmas about SumOver, for every finite set and every natural-valued     *)
(* function on it.  They are what the proofs about the clusters rest on.   *)
(***************************************************************************)
EXTENDS Sums, FiniteSetTheorems, FunctionTheorems, TLAPS

\* f has a natural value at every member of S.
NatOn(f, S) == \A x \in S : f[x] \in Nat

-----------------------------------------------------------------------------
(* One pile.                                                               *)

\* A pile of n tokens is finite and has n members.
LEMMA PileSize ==
  ASSUME NEW f, NEW x, f[x] \in Nat
  PROVE  IsFiniteSet(Pile(f, x)) /\ Cardinality(Pile(f, x)) = f[x]
<1>1. IsFiniteSet({x}) /\ Cardinality({x}) = 1
  BY FS_Singleton
<1>2. IsFiniteSet(1 .. f[x]) /\ Cardinality(1 .. f[x]) = f[x]
  BY FS_Interval
<1>3. /\ IsFiniteSet({x} \X (1 .. f[x]))
      /\ Cardinality({x} \X (1 .. f[x])) = Cardinality({x}) * Cardinality(1 .. f[x])
  BY <1>1, <1>2, FS_Product
<1> QED
  BY <1>1, <1>2, <1>3 DEF Pile

\* Piles at different places share no token.
LEMMA PilesDisjoint ==
  ASSUME NEW f, NEW S, NEW x, x \notin S
  PROVE  Tokens(f, S) \cap Pile(f, x) = {}
  BY DEF Tokens, Pile

-----------------------------------------------------------------------------
(* All piles.                                                              *)

\* Finitely many finite piles have finitely many tokens.
LEMMA TokensFinite ==
  ASSUME NEW f, NEW S, IsFiniteSet(S), NatOn(f, S)
  PROVE  IsFiniteSet(Tokens(f, S))
<1> DEFINE piles == [x \in S |-> Pile(f, x)]
           P     == {Pile(f, x) : x \in S}
<1>1. piles \in Surjection(S, P)
  BY Fun_IsSurj
<1>2. IsFiniteSet(P)
  BY <1>1, FS_Surjection
<1>3. \A T \in P : IsFiniteSet(T)
  BY PileSize DEF NatOn
<1> QED
  BY <1>2, <1>3, FS_UNION DEF Tokens

\* A total is a natural number.
LEMMA SumType ==
  ASSUME NEW f, NEW S, IsFiniteSet(S), NatOn(f, S)
  PROVE  SumOver(f, S) \in Nat
  BY TokensFinite, FS_CardinalityType DEF SumOver

\* The empty total is 0.
LEMMA SumEmpty ==
  ASSUME NEW f
  PROVE  SumOver(f, {}) = 0
  BY FS_EmptySet DEF SumOver, Tokens

\* A total of zeros is 0.
LEMMA SumZero ==
  ASSUME NEW f, NEW S, \A x \in S : f[x] = 0
  PROVE  SumOver(f, S) = 0
<1>1. Tokens(f, S) = {}
  BY DEF Tokens, Pile
<1> QED
  BY <1>1, FS_EmptySet DEF SumOver

\* A new place adds its value.
LEMMA SumAdd ==
  ASSUME NEW f, NEW S, IsFiniteSet(S), NEW x, x \notin S, NatOn(f, S \cup {x})
  PROVE  SumOver(f, S \cup {x}) = SumOver(f, S) + f[x]
<1>1. NatOn(f, S) /\ f[x] \in Nat
  BY DEF NatOn
<1>2. Tokens(f, S \cup {x}) = Tokens(f, S) \cup Pile(f, x)
  BY DEF Tokens
<1>3. /\ IsFiniteSet(Tokens(f, S))
      /\ IsFiniteSet(Pile(f, x)) /\ Cardinality(Pile(f, x)) = f[x]
  BY <1>1, TokensFinite, PileSize
<1>4. Cardinality(Tokens(f, S) \cap Pile(f, x)) = 0
  BY PilesDisjoint, FS_EmptySet
<1>5. Cardinality(Tokens(f, S \cup {x}))
        = Cardinality(Tokens(f, S)) + Cardinality(Pile(f, x))
            - Cardinality(Tokens(f, S) \cap Pile(f, x))
  BY <1>2, <1>3, FS_Union
<1>6. Cardinality(Tokens(f, S)) \in Nat
  BY <1>3, FS_CardinalityType
<1> QED
  BY <1>1, <1>3, <1>4, <1>5, <1>6 DEF SumOver

\* Only the values on S count.
LEMMA SumAgree ==
  ASSUME NEW f, NEW g, NEW S, \A x \in S : f[x] = g[x]
  PROVE  SumOver(f, S) = SumOver(g, S)
<1>1. Tokens(f, S) = Tokens(g, S)
  BY DEF Tokens, Pile
<1> QED
  BY <1>1 DEF SumOver

\* A place taken away takes its value with it.
LEMMA SumRemove ==
  ASSUME NEW f, NEW S, IsFiniteSet(S), NatOn(f, S), NEW x \in S
  PROVE  SumOver(f, S) = SumOver(f, S \ {x}) + f[x]
<1>1. IsFiniteSet(S \ {x})
  BY FS_RemoveElement
<1>2. S = (S \ {x}) \cup {x}
  OBVIOUS
<1>3. NatOn(f, (S \ {x}) \cup {x})
  BY <1>2 DEF NatOn
<1>4. SumOver(f, (S \ {x}) \cup {x}) = SumOver(f, S \ {x}) + f[x]
  BY <1>1, <1>3, SumAdd
<1> QED
  BY <1>2, <1>4

\* Changing the value at one place changes the total by the difference.
LEMMA SumUpdate ==
  ASSUME NEW S, IsFiniteSet(S), NEW f, NEW g, NatOn(f, S), NatOn(g, S),
         NEW x \in S, \A y \in S \ {x} : g[y] = f[y]
  PROVE  SumOver(g, S) = SumOver(f, S) - f[x] + g[x]
<1>1. f[x] \in Nat /\ g[x] \in Nat
  BY DEF NatOn
<1>2. IsFiniteSet(S \ {x}) /\ NatOn(f, S \ {x})
  BY FS_RemoveElement DEF NatOn
<1>3. SumOver(g, S \ {x}) = SumOver(f, S \ {x})
  BY SumAgree
<1>4. SumOver(f, S \ {x}) \in Nat
  BY <1>2, SumType
<1>5. SumOver(f, S) = SumOver(f, S \ {x}) + f[x]
  BY SumRemove
<1>6. SumOver(g, S) = SumOver(g, S \ {x}) + g[x]
  BY SumRemove
<1> QED
  BY <1>1, <1>3, <1>4, <1>5, <1>6

\* Fewer places, smaller total.
LEMMA SumSubset ==
  ASSUME NEW f, NEW S, IsFiniteSet(S), NatOn(f, S), NEW T \in SUBSET S
  PROVE  /\ IsFiniteSet(T) /\ NatOn(f, T)
         /\ SumOver(f, T) <= SumOver(f, S)
<1>1. IsFiniteSet(T) /\ NatOn(f, T)
  BY FS_Subset DEF NatOn
<1>2. IsFiniteSet(Tokens(f, S))
  BY TokensFinite
<1>3. Tokens(f, T) \in SUBSET Tokens(f, S)
  BY DEF Tokens
<1>4. Cardinality(Tokens(f, T)) <= Cardinality(Tokens(f, S))
  BY <1>2, <1>3, FS_Subset
<1> QED
  BY <1>1, <1>4 DEF SumOver

\* Smaller values, smaller total.
LEMMA SumMonotone ==
  ASSUME NEW f, NEW g, NEW S, IsFiniteSet(S), NatOn(f, S), NatOn(g, S),
         \A x \in S : f[x] <= g[x]
  PROVE  SumOver(f, S) <= SumOver(g, S)
<1>1. IsFiniteSet(Tokens(g, S))
  BY TokensFinite
<1>2. \A x \in S : Pile(f, x) \subseteq Pile(g, x)
  BY DEF Pile, NatOn
<1>3. Tokens(f, S) \in SUBSET Tokens(g, S)
  BY <1>2 DEF Tokens
<1> QED
  BY <1>1, <1>3, FS_Subset DEF SumOver

\* The total of a pointwise sum is the sum of the totals.
LEMMA SumPlus ==
  ASSUME NEW f, NEW g, NEW h, NEW S, IsFiniteSet(S), NatOn(f, S), NatOn(g, S),
         \A x \in S : h[x] = f[x] + g[x]
  PROVE  SumOver(h, S) = SumOver(f, S) + SumOver(g, S)
<1> DEFINE Shifted == UNION {{x} \X (f[x] + 1 .. f[x] + g[x]) : x \in S}
           shift   == [t \in Tokens(g, S) |-> <<t[1], f[t[1]] + t[2]>>]
<1>1. Tokens(h, S) = Tokens(f, S) \cup Shifted
  <2>1. \A x \in S : Pile(h, x) = Pile(f, x) \cup {x} \X (f[x] + 1 .. f[x] + g[x])
    BY DEF Pile, NatOn
  <2> QED
    BY <2>1 DEF Tokens
<1>2. Tokens(f, S) \cap Shifted = {}
  BY DEF Tokens, Pile, NatOn
<1>3. shift \in Bijection(Tokens(g, S), Shifted)
  <2>1. \A t \in Tokens(g, S) : /\ t[1] \in S /\ t[2] \in 1 .. g[t[1]]
                                /\ t = <<t[1], t[2]>>
    BY DEF Tokens, Pile
  <2>2. \A t \in Tokens(g, S) : shift[t] \in Shifted
    BY <2>1 DEF NatOn
  <2>3. \A t, u \in Tokens(g, S) : shift[t] = shift[u] => t = u
    BY <2>1 DEF NatOn
  <2>4. ASSUME NEW d \in Shifted
        PROVE  \E t \in Tokens(g, S) : shift[t] = d
    <3>1. PICK x \in S : d \in {x} \X (f[x] + 1 .. f[x] + g[x])
      OBVIOUS
    <3>2. PICK j \in f[x] + 1 .. f[x] + g[x] : d = <<x, j>>
      BY <3>1
    <3>3. <<x, j - f[x]>> \in Tokens(g, S)
      BY <3>2 DEF Tokens, Pile, NatOn
    <3>4. shift[<<x, j - f[x]>>] = d
      BY <3>2, <3>3 DEF NatOn
    <3> QED
      BY <3>3, <3>4
  <2> QED
    BY <2>2, <2>3, <2>4, Fun_IsBij
<1>4. IsFiniteSet(Tokens(f, S)) /\ IsFiniteSet(Tokens(g, S))
  BY TokensFinite
<1>5. IsFiniteSet(Shifted) /\ Cardinality(Shifted) = SumOver(g, S)
  <2> HIDE DEF Shifted, shift
  <2>1. ExistsBijection(Tokens(g, S), Shifted)
    BY <1>3 DEF ExistsBijection
  <2> QED
    BY <1>4, <2>1, FS_Bijection DEF SumOver
<1>6. Cardinality(Tokens(f, S) \cup Shifted) = SumOver(f, S) + Cardinality(Shifted) - 0
  BY <1>2, <1>4, <1>5, FS_Union, FS_EmptySet DEF SumOver
<1>7. SumOver(f, S) \in Nat /\ SumOver(g, S) \in Nat
  BY SumType
<1> QED
  BY <1>1, <1>5, <1>6, <1>7 DEF SumOver

\* Places that go to different places, without losing value, have no larger
\* total.
LEMMA SumInjection ==
  ASSUME NEW f, NEW S, NEW g, NEW T, IsFiniteSet(T), NatOn(g, T), NatOn(f, S),
         NEW h \in [S -> T], \A x, y \in S : h[x] = h[y] => x = y,
         \A x \in S : f[x] <= g[h[x]]
  PROVE  SumOver(f, S) <= SumOver(g, T)
<1> DEFINE move == [t \in Tokens(f, S) |-> <<h[t[1]], t[2]>>]
<1>1. \A t \in Tokens(f, S) : /\ t[1] \in S /\ t[2] \in 1 .. f[t[1]]
                              /\ t = <<t[1], t[2]>>
  BY DEF Tokens, Pile
<1>2. ASSUME NEW t \in Tokens(f, S)
      PROVE  <<h[t[1]], t[2]>> \in Tokens(g, T)
  <2>1. t[1] \in S /\ t[2] \in 1 .. f[t[1]] /\ h[t[1]] \in T
    BY <1>1
  <2>2. t[2] \in 1 .. g[h[t[1]]]
    BY <2>1 DEF NatOn
  <2> QED
    BY <2>1, <2>2 DEF Tokens, Pile
<1>3. \A t, u \in Tokens(f, S) : move[t] = move[u] => t = u
  BY <1>1
<1>4. move \in Injection(Tokens(f, S), Tokens(g, T))
  BY <1>2, <1>3, Fun_IsInj
<1>5. IsFiniteSet(Tokens(g, T))
  BY TokensFinite
<1> HIDE DEF move
<1> QED
  BY <1>4, <1>5, FS_Injection DEF SumOver

-----------------------------------------------------------------------------
(* Signed totals.                                                          *)

\* Only what is above zero counts.
LEMMA SumAboveZero ==
  ASSUME NEW f, NEW g, NEW S, \A x \in S : f[x] \in Int,
         \A x \in S : g[x] = IF f[x] >= 0 THEN f[x] ELSE 0
  PROVE  SumOver(f, S) = SumOver(g, S)
<1>1. \A x \in S : 1 .. f[x] = 1 .. g[x]
  OBVIOUS
<1>2. Tokens(f, S) = Tokens(g, S)
  BY <1>1 DEF Tokens, Pile
<1> QED
  BY <1>2 DEF SumOver

\* The parts of an integer-valued function above and below zero.
Above(f, S) == [x \in S |-> IF f[x] >= 0 THEN f[x] ELSE 0]
Below(f, S) == [x \in S |-> IF f[x] >= 0 THEN 0 ELSE 0 - f[x]]

\* A signed total is a difference of two totals of naturals.
LEMMA SignedParts ==
  ASSUME NEW S, IsFiniteSet(S), NEW f, \A x \in S : f[x] \in Int
  PROVE  /\ NatOn(Above(f, S), S) /\ NatOn(Below(f, S), S)
         /\ SumOver(Above(f, S), S) \in Nat /\ SumOver(Below(f, S), S) \in Nat
         /\ SignedSum(f, S) = SumOver(Above(f, S), S) - SumOver(Below(f, S), S)
<1>1. NatOn(Above(f, S), S) /\ NatOn(Below(f, S), S)
  BY DEF NatOn, Above, Below
<1>2. SumOver(f, S) = SumOver(Above(f, S), S)
  BY SumAboveZero DEF Above
<1>3. SumOver([x \in S |-> 0 - f[x]], S) = SumOver(Below(f, S), S)
  <2> DEFINE neg == [x \in S |-> 0 - f[x]]
  <2>1. \A x \in S : neg[x] \in Int /\ Below(f, S)[x] = IF neg[x] >= 0 THEN neg[x] ELSE 0
    BY DEF Below
  <2> HIDE DEF neg
  <2>2. SumOver(neg, S) = SumOver(Below(f, S), S)
    BY <2>1, SumAboveZero
  <2> QED
    BY <2>2 DEF neg
<1> QED
  BY <1>1, <1>2, <1>3, SumType DEF SignedSum

\* Changing the value at one place changes the signed total by the difference,
\* below zero and across it.
LEMMA SignedUpdate ==
  ASSUME NEW S, IsFiniteSet(S), NEW f, NEW g,
         \A x \in S : f[x] \in Int /\ g[x] \in Int,
         NEW x \in S, \A y \in S \ {x} : g[y] = f[y]
  PROVE  SignedSum(g, S) = SignedSum(f, S) - f[x] + g[x]
<1>1. /\ NatOn(Above(f, S), S) /\ NatOn(Below(f, S), S)
      /\ SumOver(Above(f, S), S) \in Nat /\ SumOver(Below(f, S), S) \in Nat
      /\ SignedSum(f, S) = SumOver(Above(f, S), S) - SumOver(Below(f, S), S)
  BY SignedParts
<1>2. /\ NatOn(Above(g, S), S) /\ NatOn(Below(g, S), S)
      /\ SignedSum(g, S) = SumOver(Above(g, S), S) - SumOver(Below(g, S), S)
  BY SignedParts
<1>3. \A y \in S \ {x} : Above(g, S)[y] = Above(f, S)[y] /\ Below(g, S)[y] = Below(f, S)[y]
  BY DEF Above, Below
<1>4. SumOver(Above(g, S), S) = SumOver(Above(f, S), S) - Above(f, S)[x] + Above(g, S)[x]
  BY <1>1, <1>2, <1>3, SumUpdate
<1>5. SumOver(Below(g, S), S) = SumOver(Below(f, S), S) - Below(f, S)[x] + Below(g, S)[x]
  BY <1>1, <1>2, <1>3, SumUpdate
<1>6. /\ Above(f, S)[x] - Below(f, S)[x] = f[x] /\ Above(g, S)[x] - Below(g, S)[x] = g[x]
      /\ Above(f, S)[x] \in Nat /\ Below(f, S)[x] \in Nat
      /\ Above(g, S)[x] \in Nat /\ Below(g, S)[x] \in Nat
      /\ f[x] \in Int /\ g[x] \in Int
  BY DEF Above, Below
<1> QED
  BY <1>1, <1>2, <1>4, <1>5, <1>6

\* Where nothing is below zero it is the total.
LEMMA SignedIsSum ==
  ASSUME NEW S, IsFiniteSet(S), NEW f, NatOn(f, S)
  PROVE  SignedSum(f, S) = SumOver(f, S)
<1>1. SumOver(Below(f, S), S) = 0
  BY SumZero DEF NatOn, Below
<1>2. SumOver(Above(f, S), S) = SumOver(f, S)
  BY SumAgree DEF NatOn, Above
<1>3. SumOver(f, S) \in Nat /\ \A x \in S : f[x] \in Int
  BY SumType DEF NatOn
<1> QED
  BY <1>1, <1>2, <1>3, SignedParts

-----------------------------------------------------------------------------
(* Dictionaries.                                                           *)

\* The empty dictionary has no entry.
LEMMA EmptyDictType ==
  ASSUME NEW V
  PROVE  /\ DOMAIN EmptyDict = {} /\ IsFiniteSet(DOMAIN EmptyDict)
         /\ EmptyDict \in [DOMAIN EmptyDict -> V]
<1>1. DOMAIN EmptyDict = {}
  BY DEF EmptyDict
<1> QED
  BY <1>1, FS_EmptySet DEF EmptyDict

\* What d[k] = v does to a dictionary.
LEMMA PutEntry ==
  ASSUME NEW d, IsFiniteSet(DOMAIN d), NEW k, NEW v
  PROVE  /\ DOMAIN Put(d, k, v) = DOMAIN d \cup {k}
         /\ IsFiniteSet(DOMAIN Put(d, k, v))
         /\ Put(d, k, v)[k] = v
         /\ \A x \in DOMAIN d \ {k} : Put(d, k, v)[x] = d[x]
<1>1. DOMAIN Put(d, k, v) = DOMAIN d \cup {k}
  BY DEF Put
<1>2. IsFiniteSet(DOMAIN d \cup {k})
  BY FS_AddElement
<1> QED
  BY <1>1, <1>2 DEF Put

\* An entry under a new key adds its value to the total.
LEMMA SumPut ==
  ASSUME NEW d, d \in [DOMAIN d -> Nat], NEW S \in SUBSET DOMAIN d, IsFiniteSet(S),
         NEW k, k \notin DOMAIN d, NEW v \in Nat
  PROVE  SumOver(Put(d, k, v), S \cup {k}) = SumOver(d, S) + v
<1> DEFINE e == Put(d, k, v)
<1>1. e[k] = v /\ \A x \in S : e[x] = d[x]
  BY DEF Put
<1>2. k \notin S /\ NatOn(e, S \cup {k})
  BY <1>1 DEF NatOn
<1> HIDE DEF e
<1>3. SumOver(e, S \cup {k}) = SumOver(e, S) + e[k]
  BY <1>2, SumAdd
<1>4. SumOver(e, S) = SumOver(d, S)
  BY <1>1, SumAgree
<1> QED
  BY <1>1, <1>3, <1>4 DEF e

\* There are finitely many functions from a finite set to a finite set.
LEMMA FunctionsFinite ==
  ASSUME NEW S, NEW T, IsFiniteSet(S), IsFiniteSet(T)
  PROVE  IsFiniteSet([S -> T])
<1> DEFINE Graph == [g \in [S -> T] |-> {p \in S \X T : p[2] = g[p[1]]}]
<1>1. IsFiniteSet(SUBSET (S \X T))
  BY FS_Product, FS_SUBSET
<1>2. Graph \in [[S -> T] -> SUBSET (S \X T)]
  OBVIOUS
<1>3. ASSUME NEW g \in [S -> T], NEW h \in [S -> T], Graph[g] = Graph[h]
      PROVE  g = h
  <2> SUFFICES ASSUME NEW x \in S PROVE g[x] = h[x]
    OBVIOUS
  <2>1. <<x, g[x]>> \in Graph[g]
    OBVIOUS
  <2>2. <<x, g[x]>> \in Graph[h]
    BY <1>3, <2>1
  <2> QED
    BY <2>2
<1> HIDE DEF Graph
<1>4. Graph \in Injection([S -> T], SUBSET (S \X T))
  BY <1>2, <1>3, Fun_IsInj
<1> QED
  BY <1>1, <1>4, FS_Injection
=============================================================================
