--------------------------- MODULE TradingProofs ---------------------------
(***************************************************************************)
(* What holds of a portfolio that is traded.  For any history of its       *)
(* account, what was there at the attachment is found back from what there *)
(* is now and the operations since, so the profit is what was earned; for  *)
(* any market and account, advice is given and its items stand apart.      *)
(*                                                                         *)
(* The lemmas about sequences and sums come first; PortfolioProofs uses    *)
(* them too.                                                               *)
(***************************************************************************)
EXTENDS MCPortfolio, FunctionTheorems, FiniteSetTheorems, TLAPS

IsSeq(s) == s \in Seq({s[k] : k \in DOMAIN s})

\* A sequence with one element more.
LEMMA Appended ==
  ASSUME NEW s, IsSeq(s), NEW x
  PROVE  /\ IsSeq(Append(s, x)) /\ Len(s) \in Nat /\ DOMAIN s = 1 .. Len(s)
         /\ DOMAIN Append(s, x) = DOMAIN s \cup {Len(s) + 1} /\ Len(s) + 1 \notin DOMAIN s
         /\ Append(s, x)[Len(s) + 1] = x
         /\ \A k \in DOMAIN s : Append(s, x)[k] = s[k]
<1> DEFINE S == {s[k] : k \in DOMAIN s} \cup {x}
<1>1. s \in Seq(S) /\ x \in S
  BY DEF IsSeq
<1> HIDE DEF S
<1>2. /\ Append(s, x) \in Seq(S) /\ Len(s) \in Nat /\ DOMAIN s = 1 .. Len(s)
      /\ DOMAIN Append(s, x) = DOMAIN s \cup {Len(s) + 1} /\ Len(s) + 1 \notin DOMAIN s
      /\ Append(s, x)[Len(s) + 1] = x
      /\ \A k \in DOMAIN s : Append(s, x)[k] = s[k]
  BY <1>1
<1> DEFINE t == Append(s, x)
<1> HIDE DEF t
<1>3. ASSUME t \in Seq(S) PROVE IsSeq(t)
  BY <1>3 DEF IsSeq
<1> QED
  BY <1>2, <1>3 DEF t

\* A function on 1 .. n is a sequence of its values.
LEMMA FunctionIsSeq ==
  ASSUME NEW n \in Nat, NEW f, f = [k \in 1 .. n |-> f[k]]
  PROVE  IsSeq(f)
<1>1. PICK S : S = {f[k] : k \in DOMAIN f}
  OBVIOUS
<1>2. DOMAIN f = 1 .. n
  OBVIOUS
<1>3. \A k \in 1 .. n : f[k] \in S
  BY <1>1, <1>2
<1>4. [k \in 1 .. n |-> f[k]] \in Seq(S)
  BY ONLY n \in Nat, <1>3
<1> QED
  BY <1>1, <1>4 DEF IsSeq

-----------------------------------------------------------------------------
(***************************************************************************)
(* Sums over finite sets.  The sums of the model are folds, which are      *)
(* recursive functions on the subsets of a set; of the subsets on which    *)
(* two of them could differ a smallest one is looked at.                   *)
(***************************************************************************)
AnyOf(s) == CHOOSE x \in s : TRUE

\* g adds w over every subset of S.
Adds(w, S, g) ==
  g = [s \in SUBSET S |-> IF s = {} THEN 0 ELSE w[AnyOf(s)] + g[s \ {AnyOf(s)}]]

Total(w, S) == (CHOOSE g : Adds(w, S, g))[S]

\* Of the subsets of a finite set that are bad, some has no smaller one.
LEMMA SmallestSet ==
  ASSUME NEW S, IsFiniteSet(S), NEW Bad \in SUBSET (SUBSET S), Bad # {}
  PROVE  \E T \in Bad : \A U \in Bad : U \subseteq T => U = T
<1>1. Bad \subseteq FiniteSubsetsOf(S)
  BY FS_FiniteSubsetsOfFinite
<1>2. IsWellFoundedOn(StrictSubsetOrdering(S), FiniteSubsetsOf(S))
  BY FS_StrictSubsetOrderingWellFounded
<1>3. PICK T \in Bad : \A U \in Bad : ~(<<U, T>> \in StrictSubsetOrdering(S))
  BY <1>1, <1>2, WFMin
<1> QED
  BY <1>3 DEF StrictSubsetOrdering

LEMMA AnyIsIn ==
  ASSUME NEW S, S # {}
  PROVE  AnyOf(S) \in S
BY DEF AnyOf

LEMMA AddsOver ==
  ASSUME NEW S, NEW w, NEW g, Adds(w, S, g), NEW T \in SUBSET S
  PROVE  Adds(w, T, [s \in SUBSET T |-> g[s]])
<1> DEFINE h == [s \in SUBSET T |-> g[s]]
<1>1. \A s \in SUBSET T : s \in SUBSET S /\ s \ {AnyOf(s)} \in SUBSET T
  OBVIOUS
<1>2. \A s \in SUBSET S : g[s] = IF s = {} THEN 0 ELSE w[AnyOf(s)] + g[s \ {AnyOf(s)}]
  BY DEF Adds
<1>3. \A s \in SUBSET T : h[s] = IF s = {} THEN 0 ELSE w[AnyOf(s)] + h[s \ {AnyOf(s)}]
  BY <1>1, <1>2
<1> QED
  BY <1>3 DEF Adds

LEMMA AddsOnce ==
  ASSUME NEW S, IsFiniteSet(S), NEW w, NEW g, Adds(w, S, g), NEW h, Adds(w, S, h)
  PROVE  g = h
<1> DEFINE Bad == {s \in SUBSET S : g[s] # h[s]}
<1>1. \A s \in SUBSET S :
        /\ g[s] = IF s = {} THEN 0 ELSE w[AnyOf(s)] + g[s \ {AnyOf(s)}]
        /\ h[s] = IF s = {} THEN 0 ELSE w[AnyOf(s)] + h[s \ {AnyOf(s)}]
  BY DEF Adds
<1>2. Bad = {}
  <2> SUFFICES ASSUME Bad # {} PROVE FALSE
    OBVIOUS
  <2>1. PICK T \in Bad : \A U \in Bad : U \subseteq T => U = T
    <3>1. Bad \in SUBSET (SUBSET S)
      OBVIOUS
    <3> HIDE DEF Bad
    <3> QED
      BY <3>1, SmallestSet
  <2>2. T # {} /\ T \in SUBSET S
    BY <1>1, <2>1
  <2>3. AnyOf(T) \in T
    BY <2>2, AnyIsIn
  <2>4. T \ {AnyOf(T)} \notin Bad /\ T \ {AnyOf(T)} \in SUBSET S
    BY <2>1, <2>2, <2>3
  <2>5. g[T \ {AnyOf(T)}] = h[T \ {AnyOf(T)}]
    BY <2>4
  <2>6. g[T] = h[T]
    BY <1>1, <2>2, <2>5
  <2> QED
    BY <2>1, <2>6
<1>3. /\ g = [s \in SUBSET S |-> g[s]]
      /\ h = [s \in SUBSET S |-> h[s]]
  BY DEF Adds
<1>4. \A s \in SUBSET S : g[s] = h[s]
  BY <1>2
<1> QED
  BY <1>3, <1>4

LEMMA SomeAdds ==
  ASSUME NEW S, IsFiniteSet(S), NEW w
  PROVE  \E g : Adds(w, S, g)
<1> DEFINE Bad == {T \in SUBSET S : ~\E g : Adds(w, T, g)}
<1>1. Bad = {}
  <2> SUFFICES ASSUME Bad # {} PROVE FALSE
    OBVIOUS
  <2>1. PICK T \in Bad : \A U \in Bad : U \subseteq T => U = T
    <3>1. Bad \in SUBSET (SUBSET S)
      OBVIOUS
    <3> HIDE DEF Bad
    <3> QED
      BY <3>1, SmallestSet
  <2> DEFINE G(U) == CHOOSE g : Adds(w, U, g)
             h == [s \in SUBSET T |->
                     IF s = {} THEN 0 ELSE w[AnyOf(s)] + G(s \ {AnyOf(s)})[s \ {AnyOf(s)}]]
  <2>2. \A U \in SUBSET T : U # T => Adds(w, U, G(U)) /\ IsFiniteSet(U)
    <3> SUFFICES ASSUME NEW U \in SUBSET T, U # T
                 PROVE  Adds(w, U, G(U)) /\ IsFiniteSet(U)
      OBVIOUS
    <3>1. U \notin Bad /\ U \in SUBSET S
      BY <2>1
    <3>2. \E g : Adds(w, U, g)
      BY <3>1
    <3> QED
      BY <3>1, <3>2, FS_Subset
  <2> HIDE DEF G
  <2>3. \A U \in SUBSET T : U # T => h[U] = G(U)[U]
    <3> SUFFICES ASSUME NEW U \in SUBSET T, U # T
                 PROVE  h[U] = G(U)[U]
      OBVIOUS
    <3>1. Adds(w, U, G(U)) /\ U \in SUBSET U
      BY <2>2
    <3>2. G(U)[U] = IF U = {} THEN 0 ELSE w[AnyOf(U)] + G(U)[U \ {AnyOf(U)}]
      BY <3>1 DEF Adds
    <3>3. CASE U = {}
      BY <3>2, <3>3
    <3>4. CASE U # {}
      <4>1. PICK V : V = U \ {AnyOf(U)}
        OBVIOUS
      <4>2. AnyOf(U) \in U
        BY <3>4, AnyIsIn
      <4>3. V \in SUBSET T /\ V # T /\ V \in SUBSET U
        BY <4>1, <4>2
      <4>4. Adds(w, V, G(V)) /\ IsFiniteSet(V)
        BY <2>2, <4>3
      <4>5. Adds(w, V, [s \in SUBSET V |-> G(U)[s]])
        BY <3>1, <4>3, AddsOver, ZenonT(60)
      <4>6. G(V) = [s \in SUBSET V |-> G(U)[s]]
        BY <4>4, <4>5, AddsOnce
      <4>7. G(V)[V] = G(U)[V]
        BY <4>6
      <4> QED
        BY <3>2, <3>4, <4>1, <4>7
    <3> QED
      BY <3>3, <3>4
  <2>4. \A s \in SUBSET T : s # {} => s \ {AnyOf(s)} \in SUBSET T /\ s \ {AnyOf(s)} # T
    BY AnyIsIn
  <2>5. \A s \in SUBSET T : h[s] = IF s = {} THEN 0 ELSE w[AnyOf(s)] + h[s \ {AnyOf(s)}]
    BY <2>3, <2>4
  <2>6. Adds(w, T, h)
    BY <2>5 DEF Adds
  <2> QED
    BY <2>1, <2>6
<1> QED
  BY <1>1

LEMMA TotalOf ==
  ASSUME NEW S, IsFiniteSet(S), NEW w, NEW g, Adds(w, S, g)
  PROVE  Total(w, S) = g[S]
<1>1. Adds(w, S, CHOOSE h : Adds(w, S, h))
  OBVIOUS
<1>2. (CHOOSE h : Adds(w, S, h)) = g
  BY <1>1, AddsOnce
<1> QED
  BY <1>2 DEF Total

LEMMA TotalStep ==
  ASSUME NEW S, IsFiniteSet(S), NEW w
  PROVE  /\ S = {} => Total(w, S) = 0
         /\ S # {} => Total(w, S) = w[AnyOf(S)] + Total(w, S \ {AnyOf(S)})
<1>1. PICK g : Adds(w, S, g)
  BY SomeAdds
<1>2. Total(w, S) = g[S] /\ g[S] = IF S = {} THEN 0 ELSE w[AnyOf(S)] + g[S \ {AnyOf(S)}]
  BY <1>1, TotalOf DEF Adds
<1>3. PICK T : T = S \ {AnyOf(S)}
  OBVIOUS
<1>4. T \in SUBSET S /\ IsFiniteSet(T)
  BY <1>3, FS_Subset
<1>6. Adds(w, T, [s \in SUBSET T |-> g[s]])
  BY <1>1, <1>4, AddsOver
<1>5. Total(w, T) = g[T]
  <2>1. Total(w, T) = [s \in SUBSET T |-> g[s]][T]
    BY <1>4, <1>6, TotalOf
  <2> QED
    BY <2>1
<1> QED
  BY <1>2, <1>3, <1>5

\* Sums do not depend on the order in which they are taken.
LEMMA TotalAdds ==
  ASSUME NEW S, IsFiniteSet(S), NEW w, \A k \in S : w[k] \in Int
  PROVE  /\ Total(w, S) \in Int
         /\ \A x \in S : Total(w, S) = w[x] + Total(w, S \ {x})
<1> DEFINE Good(T) == /\ Total(w, T) \in Int
                      /\ \A x \in T : Total(w, T) = w[x] + Total(w, T \ {x})
           Bad == {T \in SUBSET S : ~Good(T)}
<1>1. Bad = {}
  <2> SUFFICES ASSUME Bad # {} PROVE FALSE
    OBVIOUS
  <2>1. PICK T \in Bad : \A U \in Bad : U \subseteq T => U = T
    <3>1. Bad \in SUBSET (SUBSET S)
      OBVIOUS
    <3> HIDE DEF Bad
    <3> QED
      BY <3>1, SmallestSet
  <2>2. \A U \in SUBSET T : U # T => Good(U)
    BY <2>1
  <2>3. T \in SUBSET S /\ ~Good(T)
    BY <2>1
  <2> HIDE DEF Bad
  <2>4. \A U \in SUBSET T : IsFiniteSet(U)
    BY <2>3, FS_Subset
  <2>5. T # {}
    <3>1. Total(w, {}) = 0
      BY <2>4, TotalStep
    <3>2. Good({})
      BY <3>1
    <3> HIDE DEF Good
    <3> QED
      BY <2>3, <3>2
  <2>6. PICK c : c = AnyOf(T)
    OBVIOUS
  <2>7. c \in T /\ Total(w, T) = w[c] + Total(w, T \ {c})
    BY <2>4, <2>5, <2>6, AnyIsIn, TotalStep
  <2>8. Total(w, T) \in Int
    BY <2>2, <2>3, <2>7
  <2>9. ASSUME NEW x \in T, x # c
        PROVE  Total(w, T) = w[x] + Total(w, T \ {x})
    <3>1. Good(T \ {c}) /\ Good(T \ {x})
      BY <2>2, <2>7
    <3>2. (T \ {c}) \ {x} = (T \ {x}) \ {c} /\ x \in T \ {c} /\ c \in T \ {x}
      BY <2>7, <2>9
    <3>3. PICK r : r = Total(w, (T \ {c}) \ {x})
      OBVIOUS
    <3>4. Good((T \ {c}) \ {x})
      BY <2>2, <2>7
    <3>5. Total(w, T \ {c}) = w[x] + r /\ Total(w, T \ {x}) = w[c] + r /\ r \in Int
      BY <3>1, <3>2, <3>3, <3>4
    <3>6. w[x] \in Int /\ w[c] \in Int
      BY <2>3, <2>7
    <3> QED
      BY <2>7, <3>5, <3>6
  <2> QED
    BY <2>3, <2>7, <2>8, <2>9
<1>2. Good(S)
  BY <1>1
<1> QED
  BY <1>2

\* Equal terms have equal sums.
LEMMA TotalSame ==
  ASSUME NEW S, IsFiniteSet(S), NEW w, NEW v, \A k \in S : w[k] = v[k]
  PROVE  Total(w, S) = Total(v, S)
<1>1. PICK g : Adds(w, S, g)
  BY SomeAdds
<1>2. \A s \in SUBSET S : s # {} => AnyOf(s) \in S
  BY AnyIsIn
<1>3. g = [s \in SUBSET S |-> IF s = {} THEN 0 ELSE v[AnyOf(s)] + g[s \ {AnyOf(s)}]]
  BY <1>1, <1>2 DEF Adds
<1>4. Adds(v, S, g)
  BY <1>3 DEF Adds
<1> QED
  BY <1>1, <1>4, TotalOf

\* One term more; one term changed; and sums of no term below zero.
LEMMA TotalNew ==
  ASSUME NEW S, IsFiniteSet(S), NEW w, \A k \in S : w[k] \in Int, NEW x, x \notin S, w[x] \in Int
  PROVE  Total(w, S \cup {x}) = Total(w, S) + w[x]
<1>1. IsFiniteSet(S \cup {x})
  BY FS_AddElement
<1>2. (S \cup {x}) \ {x} = S
  OBVIOUS
<1> QED
  BY <1>1, <1>2, TotalAdds

LEMMA TotalChanged ==
  ASSUME NEW S, IsFiniteSet(S), NEW w, NEW v, NEW x \in S,
         \A k \in S : w[k] \in Int /\ v[k] \in Int, \A k \in S \ {x} : w[k] = v[k]
  PROVE  Total(v, S) = Total(w, S) - w[x] + v[x]
<1>1. IsFiniteSet(S \ {x})
  BY FS_RemoveElement
<1>2. /\ Total(w, S) = w[x] + Total(w, S \ {x})
      /\ Total(v, S) = v[x] + Total(v, S \ {x})
      /\ Total(w, S \ {x}) \in Int
  BY <1>1, TotalAdds
<1>3. Total(w, S \ {x}) = Total(v, S \ {x})
  BY <1>1, TotalSame
<1> QED
  BY <1>2, <1>3

LEMMA TotalAtLeast ==
  ASSUME NEW S, IsFiniteSet(S), NEW w, NEW v,
         \A k \in S : w[k] \in Int /\ v[k] \in Int /\ w[k] <= v[k]
  PROVE  Total(w, S) <= Total(v, S)
<1> DEFINE Bad == {T \in SUBSET S : ~(Total(w, T) <= Total(v, T))}
<1>1. Bad = {}
  <2> SUFFICES ASSUME Bad # {} PROVE FALSE
    OBVIOUS
  <2>1. PICK T \in Bad : \A U \in Bad : U \subseteq T => U = T
    <3>1. Bad \in SUBSET (SUBSET S)
      OBVIOUS
    <3> HIDE DEF Bad
    <3> QED
      BY <3>1, SmallestSet
  <2>2. T \in SUBSET S /\ ~(Total(w, T) <= Total(v, T)) /\ IsFiniteSet(T)
    BY <2>1, FS_Subset
  <2>3. T # {}
    BY <2>2, TotalStep
  <2>4. PICK x \in T : TRUE
    BY <2>3
  <2>5. T \ {x} \notin Bad /\ T \ {x} \in SUBSET S /\ IsFiniteSet(T \ {x})
    BY <2>1, <2>2, FS_Subset
  <2>6. Total(w, T \ {x}) <= Total(v, T \ {x})
    BY <2>5
  <2>7. /\ Total(w, T) = w[x] + Total(w, T \ {x}) /\ Total(v, T) = v[x] + Total(v, T \ {x})
        /\ Total(w, T \ {x}) \in Int /\ Total(v, T \ {x}) \in Int
    BY <2>2, <2>5, TotalAdds
  <2>8. w[x] \in Int /\ v[x] \in Int /\ w[x] <= v[x]
    BY <2>2
  <2> QED
    BY <2>2, <2>6, <2>7, <2>8
<1> QED
  BY <1>1

LEMMA TotalOfNone ==
  ASSUME NEW S, IsFiniteSet(S), NEW w, \A k \in S : w[k] = 0
  PROVE  Total(w, S) = 0
<1> DEFINE Bad == {U \in SUBSET S : Total(w, U) # 0}
<1>1. Bad = {}
  <2> SUFFICES ASSUME Bad # {} PROVE FALSE
    OBVIOUS
  <2>1. PICK U \in Bad : \A V \in Bad : V \subseteq U => V = U
    <3>1. Bad \in SUBSET (SUBSET S)
      OBVIOUS
    <3> HIDE DEF Bad
    <3> QED
      BY <3>1, SmallestSet
  <2>2. U \in SUBSET S /\ Total(w, U) # 0 /\ IsFiniteSet(U)
    BY <2>1, FS_Subset
  <2>3. U # {}
    BY <2>2, TotalStep
  <2>4. PICK x : x = AnyOf(U)
    OBVIOUS
  <2>5. x \in U /\ Total(w, U) = w[x] + Total(w, U \ {x})
    BY <2>2, <2>3, <2>4, AnyIsIn, TotalStep
  <2>6. U \ {x} \notin Bad /\ U \ {x} \in SUBSET S
    BY <2>1, <2>2, <2>5
  <2>7. Total(w, U \ {x}) = 0
    BY <2>6
  <2> QED
    BY <2>2, <2>5, <2>7
<1> QED
  BY <1>1

LEMMA TotalWithin ==
  ASSUME NEW S, IsFiniteSet(S), NEW w, \A k \in S : w[k] \in Nat, NEW T \in SUBSET S
  PROVE  Total(w, T) \in Nat /\ Total(w, T) <= Total(w, S)
<1> DEFINE Bad == {V \in SUBSET S : ~(Total(w, T) <= Total(w, T \cup V))}
<1>1. \A U \in SUBSET S : IsFiniteSet(U)
  BY FS_Subset
<1>2. Bad = {}
  <2> SUFFICES ASSUME Bad # {} PROVE FALSE
    OBVIOUS
  <2>1. PICK V \in Bad : \A U \in Bad : U \subseteq V => U = V
    <3>1. Bad \in SUBSET (SUBSET S)
      OBVIOUS
    <3> HIDE DEF Bad
    <3> QED
      BY <3>1, SmallestSet
  <2>2. V \in SUBSET S /\ ~(Total(w, T) <= Total(w, T \cup V)) /\ IsFiniteSet(T \cup V)
    BY <1>1, <2>1
  <2>3. Total(w, T) \in Int
    <3>1. IsFiniteSet(T) /\ \A k \in T : w[k] \in Int
      BY <1>1
    <3> QED
      BY <3>1, TotalAdds
  <2>4. PICK x \in V : x \notin T
    <3>1. T \cup V # T
      BY <2>2, <2>3
    <3> QED
      BY <3>1
  <2>5. (T \cup V) \ {x} = T \cup (V \ {x}) /\ x \in T \cup V
    BY <2>4
  <2>6. Total(w, T \cup V) = w[x] + Total(w, T \cup (V \ {x}))
    BY <2>2, <2>5, TotalAdds
  <2>7. V \ {x} \notin Bad
    BY <2>1, <2>4
  <2>8. Total(w, T) <= Total(w, T \cup (V \ {x}))
    BY <2>2, <2>7
  <2>9. Total(w, T \cup (V \ {x})) \in Int /\ w[x] \in Nat
    <3>1. PICK P \in SUBSET S : P = T \cup (V \ {x})
      BY <2>2
    <3>2. IsFiniteSet(P) /\ \A k \in P : w[k] \in Int
      BY <1>1
    <3> QED
      BY <2>2, <2>4, <3>1, <3>2, TotalAdds
  <2> QED
    BY <2>2, <2>3, <2>6, <2>8, <2>9
<1>3. S \notin Bad /\ T \cup S = S
  BY <1>2
<1>4. Total(w, T) <= Total(w, S)
  BY <1>3
<1>5. Total(w, T) >= 0
  <2>1. Total([k \in T |-> 0], T) = 0
    <3> DEFINE z == [k \in T |-> 0]
    <3>1. (\A k \in T : z[k] = 0) /\ IsFiniteSet(T)
      BY <1>1
    <3> HIDE DEF z
    <3>2. Total(z, T) = 0
      BY <3>1, TotalOfNone
    <3> QED
      BY <3>2 DEF z
  <2>3. Total([k \in T |-> 0], T) <= Total(w, T)
    <3> DEFINE z == [k \in T |-> 0]
    <3>1. \A k \in T : z[k] \in Int /\ w[k] \in Int /\ z[k] <= w[k]
      OBVIOUS
    <3> HIDE DEF z
    <3>2. Total(z, T) <= Total(w, T)
      BY <1>1, <3>1, TotalAtLeast
    <3> QED
      BY <3>2 DEF z
  <2> QED
    BY <2>1, <2>3
<1> QED
  BY <1>1, <1>4, <1>5, TotalAdds, SMTT(30)

\* A sum may be taken from the second number on.
LEMMA TotalShifts ==
  ASSUME NEW n \in Nat, NEW w, NEW v, \A k \in 1 .. n : v[k] = w[k + 1] /\ v[k] \in Int
  PROVE  Total(v, 1 .. n) = Total(w, 2 .. n + 1)
<1> DEFINE Ahead(U) == {k \in 2 .. n + 1 : k - 1 \in U}
           Bad == {U \in SUBSET (1 .. n) : Total(v, U) # Total(w, Ahead(U))}
<1>0. IsFiniteSet(1 .. n) /\ IsFiniteSet(2 .. n + 1)
  BY FS_Interval
<1>1. Bad = {}
  <2> SUFFICES ASSUME Bad # {} PROVE FALSE
    OBVIOUS
  <2>1. PICK U \in Bad : \A V \in Bad : V \subseteq U => V = U
    <3>1. PICK N : N = 1 .. n
      OBVIOUS
    <3>2. Bad \in SUBSET (SUBSET N) /\ IsFiniteSet(N)
      BY <1>0, <3>1
    <3> HIDE DEF Bad
    <3> QED
      BY <3>2, SmallestSet
  <2>2. U \in SUBSET (1 .. n) /\ Total(v, U) # Total(w, Ahead(U)) /\ IsFiniteSet(U)
    BY <1>0, <2>1, FS_Subset
  <2>3. U # {}
    <3>1. Total(v, {}) = 0 /\ Total(w, {}) = 0
      BY FS_EmptySet, TotalStep
    <3>2. Ahead({}) = {}
      OBVIOUS
    <3> QED
      BY <2>2, <3>1, <3>2
  <2>4. PICK x \in U : TRUE
    BY <2>3
  <2>5. x \in 1 .. n /\ Total(v, U) = v[x] + Total(v, U \ {x})
    BY <2>2, <2>4, TotalAdds
  <2>6. Ahead(U) \ {x + 1} = Ahead(U \ {x}) /\ x + 1 \in Ahead(U)
    BY <2>4, <2>5
  <2>7. Total(w, Ahead(U)) = w[x + 1] + Total(w, Ahead(U) \ {x + 1})
    <3>1. IsFiniteSet(Ahead(U))
      BY <1>0, FS_Subset
    <3>2. \A k \in Ahead(U) : w[k] \in Int
      <4> SUFFICES ASSUME NEW k \in Ahead(U) PROVE w[k] \in Int
        OBVIOUS
      <4>1. k - 1 \in 1 .. n /\ (k - 1) + 1 = k
        OBVIOUS
      <4> QED
        BY <4>1
    <3> HIDE DEF Ahead
    <3> QED
      BY <2>6, <3>1, <3>2, TotalAdds
  <2>8. U \ {x} \notin Bad /\ U \ {x} \in SUBSET (1 .. n)
    BY <2>1, <2>2, <2>4
  <2>9. Total(v, U \ {x}) = Total(w, Ahead(U \ {x}))
    BY <2>8
  <2> QED
    BY <2>2, <2>5, <2>6, <2>7, <2>9
<1>2. 1 .. n \notin Bad /\ Ahead(1 .. n) = 2 .. n + 1
  BY <1>1
<1> QED
  BY <1>2

\* A set of the first numbers has a least one.
LEMMA SmallestNumber ==
  ASSUME NEW n \in Nat, NEW S, \A i \in S : i \in 1 .. n, S # {}
  PROVE  \E m \in S : \A k \in S : m <= k
<1> DEFINE Rest(m) == {k \in 1 .. n : k < m}
           Starts == {Rest(m) : m \in S}
<1>1. PICK N : N = 1 .. n
  OBVIOUS
<1>2. IsFiniteSet(N) /\ Starts \in SUBSET (SUBSET N) /\ Starts # {}
  <2>1. IsFiniteSet(N)
    BY <1>1, FS_Interval
  <2> QED
    BY <1>1, <2>1
<1>3. PICK T \in Starts : \A U \in Starts : U \subseteq T => U = T
  <2> HIDE DEF Starts
  <2> QED
    BY <1>2, SmallestSet
<1>4. PICK m \in S : T = Rest(m)
  OBVIOUS
<1>5. ASSUME NEW k \in S, k < m PROVE FALSE
  <2>1. Rest(k) \subseteq Rest(m) /\ k \in Rest(m) /\ k \notin Rest(k)
    BY <1>5
  <2>2. Rest(k) \in Starts
    OBVIOUS
  <2> HIDE DEF Rest, Starts
  <2> QED
    BY <1>3, <1>4, <2>1, <2>2
<1> QED
  BY <1>5

\* The elements of a sequence at some of its places.
LEMMA AmongElements ==
  ASSUME NEW s, NEW n \in Nat, NEW places, \A i \in places : i \in 1 .. n, NEW r, r = Plan!Among(s, places)
  PROVE  /\ \E m \in Nat : DOMAIN r = 1 .. m
         /\ \A k \in DOMAIN r : \E i \in places : r[k] = s[i]
         /\ \A j, k \in DOMAIN r : j # k => \E x, y \in places : x # y /\ r[j] = s[x] /\ r[k] = s[y]
         /\ IsSeq(r)
<1> DEFINE Before(i) == {j \in places : j < i}
           Up(i) == {j \in places : j <= i}
           Spot(k) == CHOOSE i \in places : Cardinality(Before(i)) = k - 1
<1>1. PICK m : m = Cardinality(places)
  OBVIOUS
<1>2. IsFiniteSet(1 .. n) /\ \A i : Before(i) \in SUBSET (1 .. n) /\ Up(i) \in SUBSET (1 .. n)
  <2>1. IsFiniteSet(1 .. n)
    BY FS_Interval
  <2> QED
    BY <2>1
<1> HIDE DEF Before, Up
<1>3. IsFiniteSet(places) /\ m \in Nat
  BY <1>1, <1>2, FS_Subset, FS_CardinalityType
<1>4. \A i : /\ IsFiniteSet(Before(i)) /\ IsFiniteSet(Up(i))
  BY <1>2, FS_Subset
<1>5. \A i : Cardinality(Before(i)) \in Nat /\ Cardinality(Up(i)) \in Nat
  BY <1>4, FS_CardinalityType
<1>6. ASSUME NEW k \in 1 .. m
      PROVE  \E i \in places : Cardinality(Before(i)) = k - 1
  <2> DEFINE Enough == {i \in 1 .. n : Cardinality(Up(i)) >= k}
  <2>1. Up(n) = places
    BY DEF Up
  <2>2. n # 0
    <3>1. CASE n = 0
      <4>1. places = {}
        BY <3>1
      <4>2. m = 0
        BY <1>1, <4>1, FS_EmptySet
      <4> QED
        BY <4>2
    <3> QED
      BY <3>1
  <2>3. n \in Enough
    BY <1>1, <1>3, <2>1, <2>2
  <2>4. PICK i \in Enough : \A j \in Enough : i <= j
    <3>1. (\A j \in Enough : j \in 1 .. n) /\ Enough # {}
      BY <2>3
    <3> HIDE DEF Enough
    <3> QED
      BY <3>1, SmallestNumber
  <2>5. i \in 1 .. n /\ Cardinality(Up(i)) >= k
    BY <2>4
  <2>6. Cardinality(Before(i)) < k
    <3>1. CASE i = 1
      <4>1. Before(i) = {}
        BY <3>1 DEF Before
      <4> QED
        BY <4>1, FS_EmptySet
    <3>2. CASE i # 1
      <4>1. PICK h \in 1 .. n : h = i - 1
        BY <2>5, <3>2
      <4>2. h \notin Enough
        BY <2>4, <2>5, <4>1
      <4>3. Before(i) = Up(h)
        BY <2>5, <4>1 DEF Before, Up
      <4> QED
        BY <1>5, <4>2, <4>3
    <3> QED
      BY <3>1, <3>2
  <2>7. CASE i \in places
    <3>0. \A j : j \in Up(i) <=> j \in Before(i) \/ j = i
      <4> SUFFICES ASSUME NEW j PROVE j \in Up(i) <=> j \in Before(i) \/ j = i
        OBVIOUS
      <4>1. j \in places => (j <= i <=> j < i \/ j = i)
        BY <2>5
      <4> QED
        BY <2>5, <2>7, <4>1 DEF Before, Up
    <3>1. Up(i) = Before(i) \cup {i} /\ i \notin Before(i)
      <4>1. i \notin Before(i)
        BY <2>5 DEF Before
      <4> QED
        BY <3>0, <4>1
    <3>2. Cardinality(Up(i)) = Cardinality(Before(i)) + 1
      BY <1>4, <3>1, FS_AddElement
    <3> QED
      BY <1>5, <2>5, <2>6, <2>7, <3>2
  <2>8. CASE i \notin places
    <3>1. Up(i) = Before(i)
      BY <2>5, <2>8 DEF Before, Up
    <3> QED
      BY <1>5, <2>5, <2>6, <3>1
  <2> QED
    BY <2>7, <2>8
<1>7. \A k \in 1 .. m : Spot(k) \in places /\ Cardinality(Before(Spot(k))) = k - 1
  BY <1>6
<1> HIDE DEF Spot
<1>8. r = [k \in 1 .. m |-> s[Spot(k)]]
  <2>1. \A S : Plan!Cardinality(S) = Cardinality(S)
    BY DEF Plan!Cardinality, Cardinality
  <2>2. r = [k \in 1 .. Plan!Cardinality(places) |->
               s[CHOOSE i \in places : Plan!Cardinality({j \in places : j < i}) = k - 1]]
    BY DEF Plan!Among
  <2> QED
    BY <1>1, <2>1, <2>2, Zenon DEF Before, Spot
<1>9. DOMAIN r = 1 .. m /\ \A k \in DOMAIN r : r[k] = s[Spot(k)]
  BY <1>8
<1>10. \A j, k \in 1 .. m : j # k => Spot(j) # Spot(k)
  BY <1>7
<1>11. IsSeq(r)
  BY <1>3, <1>8 DEF IsSeq
<1>12. \A j, k \in DOMAIN r : j # k => \E x, y \in places : x # y /\ r[j] = s[x] /\ r[k] = s[y]
  <2> SUFFICES ASSUME NEW j \in DOMAIN r, NEW k \in DOMAIN r, j # k
               PROVE  \E x, y \in places : x # y /\ r[j] = s[x] /\ r[k] = s[y]
    OBVIOUS
  <2> QED
    BY <1>7, <1>9, <1>10
<1>13. \A k \in DOMAIN r : \E i \in places : r[k] = s[i]
  BY <1>7, <1>9
<1> QED
  BY <1>3, <1>9, <1>11, <1>12, <1>13

-----------------------------------------------------------------------------
(***************************************************************************)
(* The profit since the attachment.  The invariant is about the history    *)
(* alone, so its parts are functions of a history o, the place st of T0,   *)
(* and what there is of one bond.                                          *)
(***************************************************************************)
Operation ==
  [kind : {"deposit", "withdrawal", "purchase", "sale", "coupon", "maturity"},
   bond : Papers \cup {None}, qty : Nat, pay : Int, day : Int, executed : BOOLEAN]

NoneBought == [qty |-> 0, cost |-> 0]
BoughtBy(s, op, b) == IF Episode!Traded(op, b) THEN Episode!CostStep(s, op) ELSE s

\* g goes through the first m operations of o.
GoesThrough(o, b, m, g) ==
  g = [n \in 0 .. m |-> IF n = 0 THEN NoneBought ELSE BoughtBy(g[n - 1], o[n], b)]

Bought(o, b, m) == (CHOOSE g : GoesThrough(o, b, m, g))[m]

LEMMA SomeGoesThrough ==
  ASSUME NEW o, NEW b, NEW m \in Nat
  PROVE  \E g : GoesThrough(o, b, m, g)
<1> DEFINE Bad == {n \in 1 .. m : ~\E g : GoesThrough(o, b, n, g)}
<1>1. \E g : GoesThrough(o, b, 0, g)
  <2>1. PICK g : g = [n \in 0 .. 0 |-> NoneBought]
    OBVIOUS
  <2>2. GoesThrough(o, b, 0, g)
    BY <2>1 DEF GoesThrough
  <2> QED
    BY <2>2
<1>2. Bad = {}
  <2> SUFFICES ASSUME Bad # {} PROVE FALSE
    OBVIOUS
  <2>1. PICK k \in Bad : \A n \in Bad : k <= n
    <3>1. \A i \in Bad : i \in 1 .. m
      OBVIOUS
    <3> HIDE DEF Bad
    <3> QED
      BY <3>1, SmallestNumber
  <2>2. PICK l \in Nat : l = k - 1
    OBVIOUS
  <2>3. \E g : GoesThrough(o, b, l, g)
    <3>1. l = 0 \/ (l \in 1 .. m /\ ~(k <= l))
      BY <2>2
    <3> QED
      BY <1>1, <2>1, <3>1
  <2>4. PICK g : GoesThrough(o, b, l, g)
    BY <2>3
  <2>5. PICK h : h = [n \in 0 .. k |-> IF n = k THEN BoughtBy(g[l], o[k], b) ELSE g[n]]
    OBVIOUS
  <2>6. GoesThrough(o, b, k, h)
    <3>1. k \in 1 .. m /\ l = k - 1 /\ l \in Nat /\ k \in Nat
      BY <2>2
    <3>2. \A n \in 0 .. l : g[n] = IF n = 0 THEN NoneBought ELSE BoughtBy(g[n - 1], o[n], b)
      BY <2>4 DEF GoesThrough
    <3>3. \A n \in 0 .. k : h[n] = IF n = k THEN BoughtBy(g[l], o[k], b) ELSE g[n]
      BY <2>5
    <3>4. \A n \in 0 .. k : h[n] = IF n = 0 THEN NoneBought ELSE BoughtBy(h[n - 1], o[n], b)
      <4> SUFFICES ASSUME NEW n \in 0 .. k
                   PROVE  h[n] = IF n = 0 THEN NoneBought ELSE BoughtBy(h[n - 1], o[n], b)
        OBVIOUS
      <4>1. CASE n = 0
        BY <3>1, <3>2, <3>3, <4>1
      <4>2. CASE n = k
        <5>1. n # 0 /\ n - 1 = l /\ l \in 0 .. k /\ l # k
          BY <3>1, <4>2
        <5> QED
          BY <3>3, <4>2, <5>1
      <4>3. CASE n # 0 /\ n # k
        <5>1. n \in 0 .. l /\ n - 1 \in 0 .. k /\ n - 1 # k
          BY <3>1, <4>3
        <5>2. h[n] = g[n] /\ h[n - 1] = g[n - 1]
          BY <3>3, <4>3, <5>1
        <5> QED
          BY <3>2, <4>3, <5>1, <5>2
      <4> QED
        BY <4>1, <4>2, <4>3
    <3>5. h = [n \in 0 .. k |-> h[n]]
      BY <2>5
    <3> QED
      BY <3>4, <3>5 DEF GoesThrough
  <2> QED
    BY <2>1, <2>6
<1> QED
  BY <1>1, <1>2

\* Two histories that begin alike give the same; the last operation is the last step.
LEMMA BoughtOnce ==
  ASSUME NEW o, NEW p, NEW b, NEW m \in Nat, \A n \in 1 .. m : o[n] = p[n],
         NEW g, GoesThrough(o, b, m, g), NEW h, NEW l \in Nat, l >= m, GoesThrough(p, b, l, h)
  PROVE  \A n \in 0 .. m : g[n] = h[n]
<1> DEFINE Bad == {n \in 1 .. m : g[n] # h[n]}
<1>1. /\ \A n \in 0 .. m : g[n] = IF n = 0 THEN NoneBought ELSE BoughtBy(g[n - 1], o[n], b)
      /\ \A n \in 0 .. l : h[n] = IF n = 0 THEN NoneBought ELSE BoughtBy(h[n - 1], p[n], b)
  BY DEF GoesThrough
<1>2. g[0] = h[0]
  BY <1>1
<1>3. Bad = {}
  <2> SUFFICES ASSUME Bad # {} PROVE FALSE
    OBVIOUS
  <2>1. PICK k \in Bad : \A n \in Bad : k <= n
    <3>1. \A i \in Bad : i \in 1 .. m
      OBVIOUS
    <3> HIDE DEF Bad
    <3> QED
      BY <3>1, SmallestNumber
  <2>2. k \in 0 .. m /\ k \in 0 .. l /\ k # 0
    OBVIOUS
  <2>3. k - 1 = 0 \/ (k - 1 \in 1 .. m /\ ~(k <= k - 1))
    OBVIOUS
  <2>4. g[k - 1] = h[k - 1]
    BY <1>2, <2>1, <2>3
  <2>5. g[k] = h[k]
    BY <1>1, <2>2, <2>4
  <2> QED
    BY <2>1, <2>5
<1> QED
  BY <1>2, <1>3

LEMMA BoughtSame ==
  ASSUME NEW o, NEW p, NEW b, NEW m \in Nat, \A n \in 1 .. m : o[n] = p[n]
  PROVE  Bought(o, b, m) = Bought(p, b, m)
<1>1. /\ GoesThrough(o, b, m, CHOOSE g : GoesThrough(o, b, m, g))
      /\ GoesThrough(p, b, m, CHOOSE g : GoesThrough(p, b, m, g))
  BY SomeGoesThrough
<1>2. PICK g : g = CHOOSE f : GoesThrough(o, b, m, f)
  OBVIOUS
<1>3. PICK h : h = CHOOSE f : GoesThrough(p, b, m, f)
  OBVIOUS
<1>4. g[m] = h[m]
  BY <1>1, <1>2, <1>3, BoughtOnce
<1> QED
  BY <1>2, <1>3, <1>4 DEF Bought

LEMMA BoughtStep ==
  ASSUME NEW o, NEW b, NEW m \in Nat
  PROVE  /\ Bought(o, b, 0) = NoneBought
         /\ Bought(o, b, m + 1) = BoughtBy(Bought(o, b, m), o[m + 1], b)
<1>1. PICK g : GoesThrough(o, b, m, g) /\ g = CHOOSE f : GoesThrough(o, b, m, f)
  BY SomeGoesThrough
<1>2. PICK h : GoesThrough(o, b, m + 1, h) /\ h = CHOOSE f : GoesThrough(o, b, m + 1, f)
  BY SomeGoesThrough
<1>3. PICK z : GoesThrough(o, b, 0, z) /\ z = CHOOSE f : GoesThrough(o, b, 0, f)
  BY SomeGoesThrough
<1>4. z[0] = NoneBought
  BY <1>3 DEF GoesThrough
<1>5. g[m] = h[m]
  BY <1>1, <1>2, BoughtOnce
<1>6. h[m + 1] = BoughtBy(h[m], o[m + 1], b)
  <2>1. m + 1 \in 0 .. m + 1 /\ m + 1 # 0 /\ (m + 1) - 1 = m
    OBVIOUS
  <2>2. \A n \in 0 .. m + 1 : h[n] = IF n = 0 THEN NoneBought ELSE BoughtBy(h[n - 1], o[n], b)
    BY <1>2 DEF GoesThrough
  <2> QED
    BY <2>1, <2>2
<1> QED
  BY <1>1, <1>2, <1>3, <1>4, <1>5, <1>6 DEF Bought

LEMMA LotStateIs ==
  ASSUME NEW b, NEW m
  PROVE  Episode!LotState(b, m) = Bought(ops, b, m)
BY DEF Episode!LotState, Bought, GoesThrough, BoughtBy, NoneBought

Pays(o) == [n \in DOMAIN o |-> o[n].pay]
Counts(o) == [n \in DOMAIN o |-> o[n].qty]

\* The executed operations after st, those of them that fund, those of one bond.
Later(o, st) == {n \in DOMAIN o : n > st}
Done(o, st) == {n \in Later(o, st) : o[n].executed}
Funded(o, st) == {n \in Later(o, st) : Episode!Funding(o[n])}
Trades(o, st, kind, b) == {n \in Done(o, st) : o[n].kind = kind /\ o[n].bond = b}

Received(o, st) == Total(Pays(o), Done(o, st))
FundedBy(o, st) == Total(Pays(o), Funded(o, st))
Moves(o, st, kind, b) == Total(Counts(o), Trades(o, st, kind, b))

\* What an operation adds to each.
PaidBy(op) == IF op.executed THEN op.pay ELSE 0
FundedWith(op) == IF Episode!Funding(op) THEN op.pay ELSE 0
MovedBy(op, kind, b) == IF op.executed /\ op.kind = kind /\ op.bond = b THEN op.qty ELSE 0

LEMMA PaymentsIsTotal ==
  ASSUME NEW S, IsFiniteSet(S), \A n \in S : n \in DOMAIN ops
  PROVE  Episode!Payments(S) = Total(Pays(ops), S)
<1>1. Episode!Payments(S) = Total([n \in S |-> ops[n].pay], S)
  BY Zenon DEF Episode!Payments, Episode!MapThenSumSet, Episode!MapThenFoldSet, AnyOf, Total, Adds
<1>2. PICK w : w = [n \in S |-> ops[n].pay]
  OBVIOUS
<1>3. \A n \in S : w[n] = Pays(ops)[n]
  BY <1>2 DEF Pays
<1>4. Total(w, S) = Total(Pays(ops), S)
  BY <1>3, TotalSame
<1> QED
  BY <1>1, <1>2, <1>4

LEMMA MovedIsTotal ==
  ASSUME NEW kind, NEW b, NEW S, S = Trades(ops, start, kind, b), IsFiniteSet(S)
  PROVE  Episode!Moved(kind, b) = Total(Counts(ops), S)
<1>1. S = {n \in Episode!Executed(Episode!Since) : Episode!OfBond(n, kind, b)}
  BY DEF Trades, Done, Later, Episode!Executed, Episode!Since, Episode!OfBond
<1>2. Episode!Moved(kind, b) = Total([n \in S |-> ops[n].qty], S)
  <2> DEFINE R == {n \in Episode!Executed(Episode!Since) : Episode!OfBond(n, kind, b)}
  <2>1. Episode!Moved(kind, b) = Total([n \in R |-> ops[n].qty], R)
    BY Zenon DEF Episode!Moved, Episode!MapThenSumSet, Episode!MapThenFoldSet, AnyOf, Total, Adds
  <2> QED
    BY <1>1, <2>1
<1>3. PICK w : w = [n \in S |-> ops[n].qty]
  OBVIOUS
<1>4. \A n \in S : w[n] = Counts(ops)[n]
  BY <1>3 DEF Counts, Trades, Done, Later
<1>5. Total(w, S) = Total(Counts(ops), S)
  BY <1>4, TotalSame
<1> QED
  BY <1>2, <1>3, <1>5

\* A sum over some operations, with one more operation or without.
LEMMA TotalGrows ==
  ASSUME NEW S, IsFiniteSet(S), NEW w, NEW v, \A k \in S : w[k] \in Int /\ v[k] = w[k],
         NEW x, x \notin S, v[x] \in Int
  PROVE  /\ Total(v, S) = Total(w, S) /\ Total(v, S \cup {x}) = Total(w, S) + v[x]
         /\ Total(w, S) \in Int
<1>1. Total(v, S) = Total(w, S)
  BY TotalSame
<1>2. \A k \in S : v[k] \in Int
  OBVIOUS
<1> QED
  BY <1>1, <1>2, TotalNew, TotalAdds

LEMMA HistoryGrows ==
  ASSUME NEW o \in Seq(Operation), NEW op \in Operation, NEW p, p = Append(o, op)
  PROVE  /\ p \in Seq(Operation) /\ Len(p) = Len(o) + 1 /\ DOMAIN p = 1 .. Len(o) + 1
         /\ DOMAIN o = 1 .. Len(o) /\ Len(o) \in Nat
         /\ p[Len(o) + 1] = op /\ \A n \in 1 .. Len(o) : p[n] = o[n]
         /\ \A n \in DOMAIN p : p[n] \in Operation
OBVIOUS

LEMMA LaterIsFinite ==
  ASSUME NEW o \in Seq(Operation), NEW st \in 0 .. Len(o)
  PROVE  /\ IsFiniteSet(Later(o, st)) /\ IsFiniteSet(Done(o, st)) /\ IsFiniteSet(Funded(o, st))
         /\ \A kind, b : IsFiniteSet(Trades(o, st, kind, b))
<1>1. IsFiniteSet(1 .. Len(o)) /\ DOMAIN o = 1 .. Len(o)
  BY FS_Interval
<1>2. /\ Later(o, st) \subseteq 1 .. Len(o) /\ Done(o, st) \subseteq 1 .. Len(o)
      /\ Funded(o, st) \subseteq 1 .. Len(o)
      /\ \A kind, b : Trades(o, st, kind, b) \subseteq 1 .. Len(o)
  BY <1>1 DEF Later, Done, Funded, Trades
<1> QED
  BY <1>1, <1>2, FS_Subset

\* One operation more.
LEMMA SumsGrow ==
  ASSUME NEW o \in Seq(Operation), NEW op \in Operation, NEW st \in 0 .. Len(o)
  PROVE  /\ Received(o, st) \in Int /\ FundedBy(o, st) \in Int
         /\ Received(Append(o, op), st) = Received(o, st) + PaidBy(op)
         /\ FundedBy(Append(o, op), st) = FundedBy(o, st) + FundedWith(op)
         /\ \A kind, b :
              /\ Moves(o, st, kind, b) \in Int
              /\ Moves(Append(o, op), st, kind, b) = Moves(o, st, kind, b) + MovedBy(op, kind, b)
<1>0. PICK p : p = Append(o, op)
  OBVIOUS
<1>1. PICK x \in Nat : x = Len(o) + 1
  OBVIOUS
<1>2. /\ DOMAIN p = 1 .. x /\ DOMAIN o = 1 .. x - 1 /\ p[x] = op
      /\ \A n \in 1 .. x - 1 : p[n] = o[n]
      /\ \A n \in 1 .. x : p[n] \in Operation
  BY <1>0, <1>1, HistoryGrows
<1>3. /\ \A n \in 1 .. x - 1 : Pays(o)[n] \in Int /\ Pays(p)[n] = Pays(o)[n]
      /\ \A n \in 1 .. x - 1 : Counts(o)[n] \in Int /\ Counts(p)[n] = Counts(o)[n]
      /\ Pays(p)[x] = op.pay /\ op.pay \in Int /\ Counts(p)[x] = op.qty /\ op.qty \in Int
  <2>1. \A r \in Operation : r.pay \in Int /\ r.qty \in Int
    BY DEF Operation
  <2>2. /\ \A n \in 1 .. x : Pays(p)[n] = p[n].pay /\ Counts(p)[n] = p[n].qty
        /\ \A n \in 1 .. x - 1 : Pays(o)[n] = o[n].pay /\ Counts(o)[n] = o[n].qty
    BY <1>2 DEF Pays, Counts
  <2>3. x \in 1 .. x /\ \A n \in 1 .. x - 1 : n \in 1 .. x /\ p[n] = o[n]
    BY <1>1, <1>2
  <2>4. \A n \in 1 .. x : p[n].pay \in Int /\ p[n].qty \in Int
    BY <1>2, <2>1
  <2>5. \A n \in 1 .. x - 1 :
          /\ Pays(o)[n] \in Int /\ Pays(p)[n] = Pays(o)[n]
          /\ Counts(o)[n] \in Int /\ Counts(p)[n] = Counts(o)[n]
    BY <2>2, <2>3, <2>4
  <2> QED
    BY <1>2, <2>1, <2>2, <2>3, <2>5
<1>4. x > st /\ Later(p, st) = Later(o, st) \cup {x} /\ \A n \in Later(o, st) : n \in 1 .. x - 1
  BY <1>1, <1>2 DEF Later
<1>5. \A n \in Later(o, st) : p[n] = o[n] /\ n # x
  BY <1>1, <1>2, <1>4
<1>6. ASSUME NEW S, IsFiniteSet(S), S \subseteq Later(o, st)
      PROVE  /\ Total(Pays(o), S) \in Int /\ Total(Counts(o), S) \in Int
             /\ Total(Pays(p), S) = Total(Pays(o), S)
             /\ Total(Pays(p), S \cup {x}) = Total(Pays(o), S) + op.pay
             /\ Total(Counts(p), S) = Total(Counts(o), S)
             /\ Total(Counts(p), S \cup {x}) = Total(Counts(o), S) + op.qty
  <2>1. /\ \A k \in S : Pays(o)[k] \in Int /\ Pays(p)[k] = Pays(o)[k]
        /\ \A k \in S : Counts(o)[k] \in Int /\ Counts(p)[k] = Counts(o)[k]
        /\ x \notin S /\ Pays(p)[x] \in Int /\ Counts(p)[x] \in Int
    BY <1>3, <1>4, <1>5, <1>6
  <2>2. PICK w : w = Pays(o)
    OBVIOUS
  <2>3. PICK v : v = Pays(p)
    OBVIOUS
  <2>4. PICK c : c = Counts(o)
    OBVIOUS
  <2>5. PICK d : d = Counts(p)
    OBVIOUS
  <2>6. /\ Total(v, S) = Total(w, S) /\ Total(v, S \cup {x}) = Total(w, S) + v[x]
        /\ Total(w, S) \in Int
    <3>1. (\A k \in S : w[k] \in Int /\ v[k] = w[k]) /\ x \notin S /\ v[x] \in Int
      BY <2>1, <2>2, <2>3
    <3> QED
      BY <1>6, <3>1, TotalGrows
  <2>7. /\ Total(d, S) = Total(c, S) /\ Total(d, S \cup {x}) = Total(c, S) + d[x]
        /\ Total(c, S) \in Int
    <3>1. (\A k \in S : c[k] \in Int /\ d[k] = c[k]) /\ x \notin S /\ d[x] \in Int
      BY <2>1, <2>4, <2>5
    <3> QED
      BY <1>6, <3>1, TotalGrows
  <2> QED
    BY <1>3, <2>2, <2>3, <2>4, <2>5, <2>6, <2>7
<1>7. /\ Done(o, st) \subseteq Later(o, st) /\ Funded(o, st) \subseteq Later(o, st)
      /\ \A kind, b : Trades(o, st, kind, b) \subseteq Later(o, st)
  BY DEF Done, Funded, Trades
<1>8. Done(p, st) = IF op.executed THEN Done(o, st) \cup {x} ELSE Done(o, st)
  BY <1>2, <1>4, <1>5 DEF Done
<1>9. Funded(p, st) = IF Episode!Funding(op) THEN Funded(o, st) \cup {x} ELSE Funded(o, st)
  BY <1>2, <1>4, <1>5 DEF Funded
<1>10. ASSUME NEW kind, NEW b
       PROVE  Trades(p, st, kind, b)
                = IF op.executed /\ op.kind = kind /\ op.bond = b
                  THEN Trades(o, st, kind, b) \cup {x} ELSE Trades(o, st, kind, b)
  <2>1. \A n \in Done(o, st) : p[n] = o[n] /\ n # x
    BY <1>5, <1>7
  <2>2. PICK done : done = Done(o, st)
    OBVIOUS
  <2>3. Trades(p, st, kind, b)
          = {n \in (IF op.executed THEN done \cup {x} ELSE done) : p[n].kind = kind /\ p[n].bond = b}
    BY <1>8, <2>2 DEF Trades
  <2>4. Trades(o, st, kind, b) = {n \in done : p[n].kind = kind /\ p[n].bond = b}
    BY <2>1, <2>2 DEF Trades
  <2>5. p[x] = op
    BY <1>2
  <2>6. CASE op.executed /\ op.kind = kind /\ op.bond = b
    <3>1. Trades(p, st, kind, b) = {n \in done \cup {x} : p[n].kind = kind /\ p[n].bond = b}
      BY <2>3, <2>6
    <3>2. PICK T : T = {n \in done : p[n].kind = kind /\ p[n].bond = b}
      OBVIOUS
    <3>3. p[x].kind = kind /\ p[x].bond = b
      BY <2>5, <2>6
    <3>4. {n \in done \cup {x} : p[n].kind = kind /\ p[n].bond = b} = T \cup {x}
      BY <3>2, <3>3
    <3> QED
      BY <2>4, <2>6, <3>1, <3>2, <3>4
  <2>7. CASE ~(op.executed /\ op.kind = kind /\ op.bond = b)
    <3>1. CASE op.executed
      <4>1. Trades(p, st, kind, b) = {n \in done \cup {x} : p[n].kind = kind /\ p[n].bond = b}
        BY <2>3, <3>1
      <4> QED
        BY <2>4, <2>5, <2>7, <3>1, <4>1
    <3>2. CASE ~op.executed
      BY <2>3, <2>4, <3>2
    <3> QED
      BY <3>1, <3>2
  <2> QED
    BY <2>6, <2>7
<1>11. /\ Received(o, st) \in Int
       /\ Received(p, st) = Received(o, st) + PaidBy(op)
  <2>1. PICK S : S = Done(o, st)
    OBVIOUS
  <2>2. IsFiniteSet(S) /\ S \subseteq Later(o, st)
    BY <1>7, <2>1, LaterIsFinite
  <2>3. Done(p, st) = IF op.executed THEN S \cup {x} ELSE S
    BY <1>8, <2>1
  <2>4. /\ Total(Pays(o), S) \in Int /\ Total(Pays(p), S) = Total(Pays(o), S)
        /\ Total(Pays(p), S \cup {x}) = Total(Pays(o), S) + op.pay
    BY <1>6, <2>2
  <2> QED
    BY <1>3, <2>1, <2>3, <2>4 DEF Received, PaidBy
<1>12. /\ FundedBy(o, st) \in Int
       /\ FundedBy(p, st) = FundedBy(o, st) + FundedWith(op)
  <2>1. PICK S : S = Funded(o, st)
    OBVIOUS
  <2>2. IsFiniteSet(S) /\ S \subseteq Later(o, st)
    BY <1>7, <2>1, LaterIsFinite
  <2>3. Funded(p, st) = IF Episode!Funding(op) THEN S \cup {x} ELSE S
    BY <1>9, <2>1
  <2>4. /\ Total(Pays(o), S) \in Int /\ Total(Pays(p), S) = Total(Pays(o), S)
        /\ Total(Pays(p), S \cup {x}) = Total(Pays(o), S) + op.pay
    BY <1>6, <2>2
  <2> QED
    BY <1>3, <2>1, <2>3, <2>4 DEF FundedBy, FundedWith
<1>13. ASSUME NEW kind, NEW b
       PROVE  /\ Moves(o, st, kind, b) \in Int
              /\ Moves(p, st, kind, b) = Moves(o, st, kind, b)
                   + MovedBy(op, kind, b)
  <2>1. PICK S : S = Trades(o, st, kind, b)
    OBVIOUS
  <2>2. IsFiniteSet(S) /\ S \subseteq Later(o, st)
    BY <1>7, <2>1, LaterIsFinite
  <2>3. Trades(p, st, kind, b)
          = IF op.executed /\ op.kind = kind /\ op.bond = b THEN S \cup {x} ELSE S
    BY <1>10, <2>1
  <2>4. /\ Total(Counts(o), S) \in Int /\ Total(Counts(p), S) = Total(Counts(o), S)
        /\ Total(Counts(p), S \cup {x}) = Total(Counts(o), S) + op.qty
    BY <1>6, <2>2
  <2> QED
    BY <1>3, <2>1, <2>3, <2>4 DEF Moves, MovedBy
<1> QED
  BY <1>0, <1>11, <1>12, <1>13

\* At T0 nothing has come after it.
LEMMA NothingLater ==
  ASSUME NEW o \in Seq(Operation)
  PROVE  /\ Received(o, Len(o)) = 0 /\ FundedBy(o, Len(o)) = 0
         /\ \A kind, b : Moves(o, Len(o), kind, b) = 0
<1>1. Later(o, Len(o)) = {}
  BY DEF Later
<1>2. /\ Done(o, Len(o)) = {} /\ Funded(o, Len(o)) = {}
      /\ \A kind, b : Trades(o, Len(o), kind, b) = {}
  BY <1>1 DEF Done, Funded, Trades
<1>3. \A w : Total(w, {}) = 0
  BY FS_EmptySet, TotalStep
<1> QED
  BY <1>2, <1>3 DEF Received, FundedBy, Moves

Ends(op, b) == op.kind = "maturity" /\ op.bond = b
Ended(o, m, b) == \E n \in 1 .. m : Ends(o[n], b)
EndedLater(o, st, b) == \E n \in Later(o, st) : Ends(o[n], b)

\* The lots of b are q, and cost c, after the history o; one redeemed is gone for good.
LotsAre(o, b, q, c) ==
  /\ q \in Nat /\ c \in Int /\ (q = 0 => c = 0)
  /\ IF Ended(o, Len(o), b) THEN q = 0 ELSE Bought(o, b, Len(o)) = [qty |-> q, cost |-> c]

QtyThen(o, st, b) == IF Ended(o, st, b) THEN 0 ELSE Bought(o, b, st).qty
CostThen(o, st, b) == IF Ended(o, st, b) THEN 0 ELSE Bought(o, b, st).cost

\* From q lots now the operations lead back to those of T0, or below if b was redeemed.
Back(o, st, b, q) == q - Moves(o, st, "purchase", b) + Moves(o, st, "sale", b)
LeadsTo(o, st, b, q, was) ==
  /\ was = QtyThen(o, st, b) /\ CostThen(o, st, b) \in Int /\ (was = 0 => CostThen(o, st, b) = 0)
  /\ was \in Nat /\ q \in Nat
  /\ Back(o, st, b, q) <= was
  /\ EndedLater(o, st, b) \/ Back(o, st, b, q) = was

\* What an operation does to the q lots of b and their cost.
LeavesAlone(op, b, q, c, r, d) == ~Episode!Traded(op, b) /\ ~Ends(op, b) /\ r = q /\ d = c
BuysOne(op, o, b, q, c, r, d) ==
  /\ Episode!Traded(op, b) /\ op.kind = "purchase" /\ op.qty = 1 /\ ~Ended(o, Len(o), b)
  /\ r = q + 1 /\ d = c - op.pay
SellsOne(op, b, q, c, r, d) ==
  /\ Episode!Traded(op, b) /\ op.kind = "sale" /\ op.qty = 1 /\ q > 0
  /\ r = q - 1 /\ d = c - c \div q
EndsIt(op, b, r, d) == Ends(op, b) /\ r = 0 /\ d = 0

Does(op, o, b, q, c, r, d) ==
  \/ LeavesAlone(op, b, q, c, r, d) \/ BuysOne(op, o, b, q, c, r, d)
  \/ SellsOne(op, b, q, c, r, d) \/ EndsIt(op, b, r, d)

LEMMA SameThen ==
  ASSUME NEW o \in Seq(Operation), NEW op \in Operation, NEW b, NEW m \in 0 .. Len(o)
  PROVE  /\ Ended(Append(o, op), m, b) <=> Ended(o, m, b)
         /\ Bought(Append(o, op), b, m) = Bought(o, b, m)
         /\ QtyThen(Append(o, op), m, b) = QtyThen(o, m, b)
         /\ CostThen(Append(o, op), m, b) = CostThen(o, m, b)
         /\ EndedLater(Append(o, op), m, b) <=> EndedLater(o, m, b) \/ Ends(op, b)
<1>1. PICK p : p = Append(o, op)
  OBVIOUS
<1>2. PICK k \in Nat : k = Len(o)
  OBVIOUS
<1>3. /\ DOMAIN p = 1 .. k + 1 /\ DOMAIN o = 1 .. k /\ p[k + 1] = op
      /\ \A n \in 1 .. k : p[n] = o[n]
  BY <1>1, <1>2, HistoryGrows
<1>4. (\A n \in 1 .. m : p[n] = o[n]) /\ m \in Nat
  BY <1>2, <1>3
<1>5. Ended(p, m, b) <=> Ended(o, m, b)
  BY <1>4 DEF Ended
<1>6. Bought(p, b, m) = Bought(o, b, m)
  BY <1>4, BoughtSame
<1>7. EndedLater(p, m, b) <=> EndedLater(o, m, b) \/ Ends(op, b)
  <2>1. \A n : n \in Later(p, m) <=> n \in Later(o, m) \/ n = k + 1
    BY <1>2, <1>3 DEF Later
  <2>2. \A n \in Later(o, m) : p[n] = o[n]
    BY <1>3 DEF Later
  <2> QED
    BY <1>3, <2>1, <2>2 DEF EndedLater
<1> QED
  BY <1>1, <1>5, <1>6, <1>7 DEF QtyThen, CostThen

LEMMA SameNow ==
  ASSUME NEW o \in Seq(Operation), NEW op \in Operation, NEW b, NEW k, k = Len(o)
  PROVE  /\ Ended(Append(o, op), k + 1, b) <=> Ended(o, k, b) \/ Ends(op, b)
         /\ Bought(Append(o, op), b, k + 1) = BoughtBy(Bought(o, b, k), op, b)
<1>1. PICK p : p = Append(o, op)
  OBVIOUS
<1>2. /\ p[k + 1] = op /\ k \in Nat
      /\ \A n \in 1 .. k : p[n] = o[n]
  BY <1>1, HistoryGrows
<1>3. Ended(p, k + 1, b) <=> Ended(o, k, b) \/ Ends(op, b)
  <2>1. \A n : n \in 1 .. k + 1 <=> n \in 1 .. k \/ n = k + 1
    BY <1>2
  <2> QED
    BY <1>2, <2>1 DEF Ended
<1>4. Bought(p, b, k) = Bought(o, b, k)
  BY <1>2, BoughtSame
<1>5. Bought(p, b, k + 1) = BoughtBy(Bought(p, b, k), p[k + 1], b)
  BY <1>2, BoughtStep
<1> QED
  BY <1>1, <1>2, <1>3, <1>4, <1>5

LEMMA LotsStep ==
  ASSUME NEW o \in Seq(Operation), NEW op \in Operation, NEW p, p = Append(o, op), NEW b,
         NEW q, NEW c, NEW r, NEW d, LotsAre(o, b, q, c), Does(op, o, b, q, c, r, d)
  PROVE  LotsAre(p, b, r, d)
<1>1. PICK k \in Nat : k = Len(o) /\ Len(p) = k + 1
  BY HistoryGrows
<1>2. PICK s : s = Bought(o, b, k)
  OBVIOUS
<1>3. /\ Ended(p, k + 1, b) <=> Ended(o, k, b) \/ Ends(op, b)
      /\ Bought(p, b, k + 1) = BoughtBy(s, op, b)
  BY <1>1, <1>2, SameNow
<1>4. /\ q \in Nat /\ c \in Int /\ (q = 0 => c = 0)
      /\ IF Ended(o, k, b) THEN q = 0 ELSE s = [qty |-> q, cost |-> c]
  BY <1>1, <1>2 DEF LotsAre
<1>5. SUFFICES /\ r \in Nat /\ d \in Int /\ (r = 0 => d = 0)
               /\ IF Ended(o, k, b) \/ Ends(op, b) THEN r = 0
                  ELSE BoughtBy(s, op, b) = [qty |-> r, cost |-> d]
  BY <1>1, <1>3 DEF LotsAre
<1>6. CASE LeavesAlone(op, b, q, c, r, d)
  <2>1. BoughtBy(s, op, b) = s /\ ~Ends(op, b) /\ r = q /\ d = c
    BY <1>6 DEF LeavesAlone, BoughtBy
  <2> QED
    BY <1>4, <2>1
<1>7. CASE BuysOne(op, o, b, q, c, r, d)
  <2>1. /\ ~Ended(o, k, b) /\ ~Ends(op, b) /\ op.pay \in Int /\ op.qty = 1
        /\ r = q + 1 /\ d = c - op.pay
    BY <1>1, <1>7 DEF BuysOne, Ends, Operation
  <2>2. BoughtBy(s, op, b) = [qty |-> s.qty + op.qty, cost |-> s.cost - op.pay]
    BY <1>7 DEF BuysOne, BoughtBy, Episode!CostStep
  <2>3. s.qty = q /\ s.cost = c
    BY <1>4, <2>1
  <2> QED
    BY <1>4, <2>1, <2>2, <2>3
<1>8. CASE SellsOne(op, b, q, c, r, d)
  <2>1. /\ ~Ended(o, k, b) /\ ~Ends(op, b) /\ op.qty = 1 /\ q > 0 /\ r = q - 1
        /\ d = c - c \div q /\ op.kind = "sale" /\ Episode!Traded(op, b)
    BY <1>4, <1>8 DEF SellsOne, Ends
  <2>2. s.qty = q /\ s.cost = c
    BY <1>4, <2>1
  <2>3. BoughtBy(s, op, b) = Episode!CostStep(s, op)
    BY <2>1 DEF BoughtBy
  <2>4. ~(op.qty > s.qty) /\ s.qty # 0 /\ op.kind # "purchase"
    BY <1>4, <2>1, <2>2
  <2>5. Episode!CostStep(s, op)
          = [qty |-> s.qty - op.qty, cost |-> s.cost - (s.cost * op.qty) \div s.qty]
    BY <2>4 DEF Episode!CostStep
  <2>6. c * 1 = c /\ c \div q \in Int /\ (q = 1 => c \div q = c)
    BY <1>4, <2>1
  <2>7. Episode!CostStep(s, op) = [qty |-> q - 1, cost |-> c - c \div q]
    BY <2>1, <2>2, <2>5, <2>6
  <2> QED
    BY <1>4, <2>1, <2>3, <2>6, <2>7
<1>9. CASE EndsIt(op, b, r, d)
  BY <1>9 DEF EndsIt
<1> QED
  BY <1>6, <1>7, <1>8, <1>9 DEF Does

LEMMA BackStep ==
  ASSUME NEW o \in Seq(Operation), NEW op \in Operation, NEW p, p = Append(o, op), NEW b,
         NEW st \in 0 .. Len(o), NEW q, NEW c, NEW r, NEW d, NEW was,
         LotsAre(o, b, q, c), LeadsTo(o, st, b, q, was), Does(op, o, b, q, c, r, d)
  PROVE  LeadsTo(p, st, b, r, was)
<1>1. /\ QtyThen(p, st, b) = QtyThen(o, st, b) /\ CostThen(p, st, b) = CostThen(o, st, b)
      /\ EndedLater(p, st, b) <=> EndedLater(o, st, b) \/ Ends(op, b)
  BY SameThen
<1>2. PICK x \in Int : x = Moves(o, st, "purchase", b)
  BY SumsGrow
<1>3. PICK y \in Int : y = Moves(o, st, "sale", b)
  BY SumsGrow
<1>4. /\ Moves(p, st, "purchase", b)
           = x + MovedBy(op, "purchase", b)
      /\ Moves(p, st, "sale", b)
           = y + MovedBy(op, "sale", b)
  <2>1. \A kind : Moves(p, st, kind, b) = Moves(o, st, kind, b)
          + MovedBy(op, kind, b)
    BY SumsGrow
  <2> QED
    BY <1>2, <1>3, <2>1
<1>5. /\ q \in Nat /\ was \in Nat /\ q - x + y <= was
      /\ EndedLater(o, st, b) \/ q - x + y = was
      /\ was = QtyThen(o, st, b) /\ CostThen(o, st, b) \in Int
      /\ was = 0 => CostThen(o, st, b) = 0
  BY <1>2, <1>3 DEF LeadsTo, Back
<1>6. r \in Nat
  BY LotsStep DEF LotsAre
<1>7. SUFFICES /\ Back(p, st, b, r) <= was
               /\ EndedLater(o, st, b) \/ Ends(op, b) \/ Back(p, st, b, r) = was
  BY <1>1, <1>5, <1>6 DEF LeadsTo
<1>8. CASE LeavesAlone(op, b, q, c, r, d)
  <2>1. Moves(p, st, "purchase", b) = x /\ Moves(p, st, "sale", b) = y
    BY <1>4, <1>8 DEF LeavesAlone, Episode!Traded, MovedBy
  <2> QED
    BY <1>5, <1>8, <2>1 DEF LeavesAlone, Back
<1>9. CASE BuysOne(op, o, b, q, c, r, d)
  <2>1. Moves(p, st, "purchase", b) = x + 1 /\ Moves(p, st, "sale", b) = y /\ r = q + 1
    BY <1>4, <1>9 DEF BuysOne, Episode!Traded, MovedBy
  <2> QED
    BY <1>5, <2>1 DEF Back
<1>10. CASE SellsOne(op, b, q, c, r, d)
  <2>1. Moves(p, st, "purchase", b) = x /\ Moves(p, st, "sale", b) = y + 1 /\ r = q - 1
    BY <1>4, <1>10 DEF SellsOne, Episode!Traded, MovedBy
  <2> QED
    BY <1>5, <2>1 DEF Back
<1>11. CASE EndsIt(op, b, r, d)
  <2>1. Moves(p, st, "purchase", b) = x /\ Moves(p, st, "sale", b) = y /\ r = 0 /\ Ends(op, b)
    BY <1>4, <1>11 DEF EndsIt, Ends, MovedBy
  <2> QED
    BY <1>5, <2>1 DEF Back
<1> QED
  BY <1>8, <1>9, <1>10, <1>11 DEF Does

(* The run of deposits and withdrawals that a day ends, in the history o. *)
Followed(o, n, m, upto) ==
  \/ upto - o[n].day <= WaveGap
  \/ \E k \in n + 1 .. m : Episode!Funding(o[k]) /\ o[k].day - o[n].day <= WaveGap
Stays(o, n, m, upto) ==
  Episode!Funding(o[n])
    /\ \A k \in n .. m : Episode!Funding(o[k]) => Followed(o, k, m, upto)
InRun(o, m, upto) == {n \in 1 .. m : Stays(o, n, m, upto)}
RunTotal(o, m, upto) == Total(Pays(o), InRun(o, m, upto))

\* The last deposit or withdrawal was on that day, if there was one.
LastIs(o, last) ==
  \/ \A n \in DOMAIN o : ~Episode!Funding(o[n])
  \/ \E k \in DOMAIN o :
       /\ Episode!Funding(o[k]) /\ o[k].day = last
       /\ \A n \in DOMAIN o : Episode!Funding(o[n]) => n <= k /\ o[n].day <= last

RunIs(o, r, upto) ==
  /\ r.total \in Int /\ r.last \in Int /\ r.last <= upto
  /\ r.total = RunTotal(o, Len(o), r.last)
  /\ LastIs(o, r.last)

Continued(r, upto) == IF upto - r.last <= WaveGap THEN r.total ELSE 0
RunWith(r, op, upto) ==
  IF Episode!Funding(op) THEN [total |-> Continued(r, upto) + op.pay, last |-> upto] ELSE r

LEMMA NothingFunded ==
  ASSUME NEW r, NEW op, NEW upto, ~Episode!Funding(op)
  PROVE  RunWith(r, op, upto) = r /\ FundedWith(op) = 0
BY Zenon DEF RunWith, FundedWith

LEMMA RunIsFinite ==
  ASSUME NEW o \in Seq(Operation), NEW m \in 0 .. Len(o), NEW upto
  PROVE  /\ IsFiniteSet(InRun(o, m, upto)) /\ RunTotal(o, m, upto) \in Int
         /\ InRun(o, m, upto) \subseteq DOMAIN o
<1>1. PICK S : S = InRun(o, m, upto)
  OBVIOUS
<1>2. PICK w : w = Pays(o)
  OBVIOUS
<1>3. S \subseteq 1 .. m /\ IsFiniteSet(1 .. m) /\ 1 .. m \subseteq DOMAIN o
  BY <1>1, FS_Interval DEF InRun
<1>4. \A n \in S : w[n] \in Int
  <2>1. \A n \in S : o[n] \in Operation /\ w[n] = o[n].pay
    BY <1>2, <1>3 DEF Pays
  <2> QED
    BY <2>1 DEF Operation
<1>5. IsFiniteSet(S)
  BY <1>3, FS_Subset
<1>6. Total(w, S) \in Int
  BY <1>4, <1>5, TotalAdds
<1> QED
  BY <1>1, <1>2, <1>3, <1>5, <1>6 DEF RunTotal

\* An operation more leaves the run of an earlier place as it was.
LEMMA RunSame ==
  ASSUME NEW o \in Seq(Operation), NEW op \in Operation, NEW m \in 0 .. Len(o), NEW upto
  PROVE  /\ InRun(Append(o, op), m, upto) = InRun(o, m, upto)
         /\ RunTotal(Append(o, op), m, upto) = RunTotal(o, m, upto)
<1>1. PICK p : p = Append(o, op)
  OBVIOUS
<1>2. /\ m \in Nat /\ \A n \in 1 .. m : p[n] = o[n] /\ Pays(p)[n] = Pays(o)[n]
  BY <1>1, HistoryGrows DEF Pays
<1>3. ASSUME NEW n \in 1 .. m PROVE Stays(p, n, m, upto) <=> Stays(o, n, m, upto)
  <2>1. ASSUME NEW k \in n .. m PROVE Followed(p, k, m, upto) <=> Followed(o, k, m, upto)
    <3>1. p[k] = o[k] /\ \A j \in k + 1 .. m : p[j] = o[j]
      BY <1>2
    <3> QED
      BY <3>1 DEF Followed
  <2>2. p[n] = o[n] /\ \A k \in n .. m : p[k] = o[k]
    BY <1>2
  <2> QED
    BY <2>1, <2>2 DEF Stays
<1>4. PICK S : S = InRun(o, m, upto)
  OBVIOUS
<1>5. S = InRun(p, m, upto) /\ S \subseteq 1 .. m
  BY <1>3, <1>4 DEF InRun
<1>6. PICK w : w = Pays(o)
  OBVIOUS
<1>7. PICK v : v = Pays(p)
  OBVIOUS
<1>8. IsFiniteSet(S) /\ \A n \in S : v[n] = w[n]
  BY <1>2, <1>4, <1>5, <1>6, <1>7, RunIsFinite
<1>9. Total(v, S) = Total(w, S)
  BY <1>8, TotalSame
<1> QED
  BY <1>1, <1>4, <1>5, <1>6, <1>7, <1>9 DEF RunTotal

\* Some days after its last payment a run is as it was, or broken.
LEMMA RunLasts ==
  ASSUME NEW o \in Seq(Operation), NEW last \in Int, NEW upto \in Int, last <= upto,
         LastIs(o, last)
  PROVE  InRun(o, Len(o), upto) = IF upto - last <= WaveGap THEN InRun(o, Len(o), last) ELSE {}
<1>1. CASE \A n \in DOMAIN o : ~Episode!Funding(o[n])
  BY <1>1 DEF InRun, Stays
<1>2. CASE ~\A n \in DOMAIN o : ~Episode!Funding(o[n])
  <2>1. PICK m \in Nat : m = Len(o) /\ DOMAIN o = 1 .. m
    OBVIOUS
  <2>2. PICK l \in 1 .. m :
          /\ Episode!Funding(o[l]) /\ o[l].day = last
          /\ \A n \in 1 .. m : Episode!Funding(o[n]) => n <= l /\ o[n].day <= last
    BY <1>2, <2>1 DEF LastIs
  <2>3. WaveGap \in Nat /\ \A n \in 1 .. m : o[n].day \in Int
    <3>1. \A n \in 1 .. m : o[n] \in Operation
      BY <2>1
    <3> QED
      BY <3>1, EpisodeAssumption DEF Operation
  <2>4. CASE upto - last <= WaveGap
    <3>1. ASSUME NEW k \in 1 .. m, Episode!Funding(o[k])
          PROVE  Followed(o, k, m, upto) <=> Followed(o, k, m, last)
      <4>1. k <= l /\ o[k].day <= last
        BY <2>2, <3>1
      <4>2. CASE k = l
        BY <2>2, <2>3, <2>4, <4>2 DEF Followed
      <4>3. CASE k < l
        <5>1. l \in k + 1 .. m
          BY <4>3
        <5>2. upto - o[k].day <= WaveGap => last - o[k].day <= WaveGap
          BY <2>3
        <5>3. last - o[k].day <= WaveGap
                => \E j \in k + 1 .. m : Episode!Funding(o[j]) /\ o[j].day - o[k].day <= WaveGap
          BY <2>2, <5>1
        <5> QED
          BY <5>2, <5>3 DEF Followed
      <4> QED
        BY <4>1, <4>2, <4>3
    <3>2. \A n \in 1 .. m : \A k \in n .. m : k \in 1 .. m
      OBVIOUS
    <3>3. \A n \in 1 .. m : Stays(o, n, m, upto) <=> Stays(o, n, m, last)
      BY <3>1, <3>2 DEF Stays
    <3> QED
      BY <2>1, <2>4, <3>3 DEF InRun
  <2>5. CASE ~(upto - last <= WaveGap)
    <3>1. ~Followed(o, l, m, upto)
      <4>1. \A k \in l + 1 .. m : ~Episode!Funding(o[k])
        BY <2>2
      <4> QED
        BY <2>2, <2>5, <4>1 DEF Followed
    <3>2. ASSUME NEW n \in 1 .. m PROVE ~Stays(o, n, m, upto)
      <4>1. CASE Episode!Funding(o[n])
        <5>1. l \in n .. m
          BY <2>2, <4>1
        <5> QED
          BY <2>2, <3>1, <5>1 DEF Stays
      <4>2. CASE ~Episode!Funding(o[n])
        BY <4>2 DEF Stays
      <4> QED
        BY <4>1, <4>2
    <3> QED
      BY <2>1, <2>5, <3>2 DEF InRun
  <2> QED
    BY <2>4, <2>5
<1> QED
  BY <1>1, <1>2

LEMMA RunContinues ==
  ASSUME NEW o \in Seq(Operation), NEW r, NEW upto \in Int, RunIs(o, r, upto)
  PROVE  RunTotal(o, Len(o), upto) = Continued(r, upto) /\ Continued(r, upto) \in Int
<1>1. /\ r.total \in Int /\ r.last \in Int /\ r.last <= upto
      /\ r.total = RunTotal(o, Len(o), r.last) /\ LastIs(o, r.last)
  BY DEF RunIs
<1>2. InRun(o, Len(o), upto)
        = IF upto - r.last <= WaveGap THEN InRun(o, Len(o), r.last) ELSE {}
  BY <1>1, RunLasts
<1>3. Total(Pays(o), {}) = 0
  BY FS_EmptySet, TotalOfNone
<1> QED
  BY <1>1, <1>2, <1>3 DEF RunTotal, Continued

\* An operation of the day more: a payment joins the run that the day ends.
LEMMA RunGrows ==
  ASSUME NEW o \in Seq(Operation), NEW op \in Operation, NEW upto \in Int
  PROVE  /\ ~Episode!Funding(op)
              => InRun(Append(o, op), Len(o) + 1, upto) = InRun(o, Len(o), upto)
         /\ Episode!Funding(op) /\ op.day = upto
              => InRun(Append(o, op), Len(o) + 1, upto) = InRun(o, Len(o), upto) \cup {Len(o) + 1}
<1>7. PICK p : p = Append(o, op)
  OBVIOUS
<1>8. PICK m : m = Len(o)
  OBVIOUS
<1>1. /\ m \in Nat /\ p[m + 1] = op /\ \A n \in 1 .. m : p[n] = o[n]
      /\ WaveGap \in Nat
  BY <1>7, <1>8, HistoryGrows, EpisodeAssumption
<1>2. \A n : n \in 1 .. m + 1 <=> n \in 1 .. m \/ n = m + 1
  BY <1>1
<1>3. ASSUME NEW n \in 1 .. m
      PROVE  /\ \A k : k \in n + 1 .. m + 1 <=> k \in n + 1 .. m \/ k = m + 1
             /\ \A k : k \in n .. m + 1 <=> k \in n .. m \/ k = m + 1
             /\ \A k \in n .. m : p[k] = o[k] /\ k \in 1 .. m
             /\ \A k \in n + 1 .. m : p[k] = o[k]
  BY <1>1
<1>6. ASSUME NEW k \in 1 .. m, Episode!Funding(op) => op.day = upto
      PROVE  Followed(p, k, m + 1, upto) <=> Followed(o, k, m, upto)
  <2> DEFINE Near(q, j) == Episode!Funding(q[j]) /\ q[j].day - o[k].day <= WaveGap
  <2>1. p[k] = o[k]
    BY <1>1
  <2>2. \A j \in k + 1 .. m : Near(p, j) <=> Near(o, j)
    BY <1>3
  <2>3. Near(p, m + 1) => upto - o[k].day <= WaveGap
    BY <1>1, <1>6
  <2>4. Followed(o, k, m, upto)
          <=> upto - o[k].day <= WaveGap \/ \E j \in k + 1 .. m : Near(o, j)
    BY DEF Followed
  <2>5. Followed(p, k, m + 1, upto)
          <=> upto - o[k].day <= WaveGap \/ \E j \in k + 1 .. m + 1 : Near(p, j)
    BY <2>1 DEF Followed
  <2> HIDE DEF Near
  <2> QED
    BY <1>3, <2>2, <2>3, <2>4, <2>5
<1>4. CASE ~Episode!Funding(op)
  <2>1. ASSUME NEW k \in 1 .. m PROVE Followed(p, k, m + 1, upto) <=> Followed(o, k, m, upto)
    BY <1>4, <1>6
  <2>2. \A n \in 1 .. m : Stays(p, n, m + 1, upto) <=> Stays(o, n, m, upto)
    BY <1>1, <1>3, <1>4, <2>1 DEF Stays
  <2>3. ~Stays(p, m + 1, m + 1, upto)
    BY <1>1, <1>4 DEF Stays
  <2> QED
    BY <1>2, <1>4, <1>7, <1>8, <2>2, <2>3 DEF InRun
<1>5. CASE Episode!Funding(op) /\ op.day = upto
  <2>1. ASSUME NEW k \in 1 .. m PROVE Followed(p, k, m + 1, upto) <=> Followed(o, k, m, upto)
    BY <1>5, <1>6
  <2>2. Followed(p, m + 1, m + 1, upto)
    BY <1>1, <1>5 DEF Followed
  <2>3. \A n \in 1 .. m : Stays(p, n, m + 1, upto) <=> Stays(o, n, m, upto)
    BY <1>1, <1>3, <2>1, <2>2 DEF Stays
  <2>4. \A k \in m + 1 .. m + 1 : k = m + 1
    BY <1>1
  <2>5. Stays(p, m + 1, m + 1, upto)
    BY <1>1, <1>5, <2>2, <2>4 DEF Stays
  <2> QED
    BY <1>2, <1>5, <1>7, <1>8, <2>3, <2>5 DEF InRun
<1> QED
  BY <1>4, <1>5, <1>7, <1>8

LEMMA RunRests ==
  ASSUME NEW o \in Seq(Operation), NEW op \in Operation, ~Episode!Funding(op), NEW upto \in Int
  PROVE  RunTotal(Append(o, op), Len(o) + 1, upto) = RunTotal(o, Len(o), upto)
<1>1. PICK p : p = Append(o, op)
  OBVIOUS
<1>2. PICK m \in Nat : m = Len(o)
  OBVIOUS
<1>3. InRun(p, m + 1, upto) = InRun(o, m, upto)
  BY <1>1, <1>2, RunGrows
<1>4. InRun(p, m, upto) = InRun(o, m, upto) /\ RunTotal(p, m, upto) = RunTotal(o, m, upto)
  BY <1>1, <1>2, RunSame
<1> QED
  BY <1>1, <1>2, <1>3, <1>4 DEF RunTotal

LEMMA RunStep ==
  ASSUME NEW o \in Seq(Operation), NEW op \in Operation, NEW r, NEW upto \in Int,
         RunIs(o, r, upto), op.day = upto
  PROVE  RunIs(Append(o, op), RunWith(r, op, upto), upto)
<1>1. PICK p : p = Append(o, op)
  OBVIOUS
<1>2. PICK m : m = Len(o)
  OBVIOUS
<1>3. /\ p \in Seq(Operation) /\ Len(p) = m + 1 /\ DOMAIN p = 1 .. m + 1 /\ DOMAIN o = 1 .. m
      /\ m \in Nat /\ p[m + 1] = op /\ \A n \in 1 .. m : p[n] = o[n]
  BY <1>1, <1>2, HistoryGrows
<1>4. /\ r.total \in Int /\ r.last \in Int /\ r.last <= upto
      /\ r.total = RunTotal(o, m, r.last) /\ LastIs(o, r.last)
  BY <1>2 DEF RunIs
<1>5. op.pay \in Int
  BY DEF Operation
<1>6. m \in 0 .. Len(o)
  BY <1>2, <1>3
<1>7. CASE ~Episode!Funding(op)
  <2>1. RunWith(r, op, upto) = r
    BY <1>7 DEF RunWith
  <2>2. PICK l \in Int : l = r.last
    BY <1>4
  <2>3. RunTotal(p, m + 1, l) = RunTotal(o, m, l)
    BY <1>1, <1>2, <1>7, RunRests
  <2>4. RunTotal(p, m + 1, r.last) = r.total
    BY <1>4, <2>2, <2>3
  <2>5. LastIs(p, r.last)
    <3>1. \A n \in DOMAIN p : Episode!Funding(p[n]) => n \in DOMAIN o /\ p[n] = o[n]
      BY <1>3, <1>7
    <3>2. \A n \in DOMAIN o : n \in DOMAIN p /\ p[n] = o[n]
      BY <1>3
    <3> QED
      BY <1>4, <3>1, <3>2 DEF LastIs
  <2> QED
    BY <1>1, <1>3, <1>4, <2>1, <2>4, <2>5 DEF RunIs
<1>8. CASE Episode!Funding(op)
  <2>1. PICK c \in Int : c = Continued(r, upto) /\ c = RunTotal(o, m, upto)
    BY <1>2, RunContinues
  <2>2. PICK s : s = [total |-> c + op.pay, last |-> upto]
    OBVIOUS
  <2>3. RunWith(r, op, upto) = s /\ s.total = c + op.pay /\ s.last = upto
    BY <1>8, <2>1, <2>2 DEF RunWith
  <2>4. PICK S : S = InRun(o, m, upto)
    OBVIOUS
  <2>5. /\ InRun(p, m + 1, upto) = S \cup {m + 1} /\ S \subseteq 1 .. m /\ IsFiniteSet(S)
    <3>1. InRun(p, m + 1, upto) = S \cup {m + 1}
      <4>1. InRun(p, m + 1, upto) = InRun(o, m, upto) \cup {m + 1}
        BY <1>1, <1>2, <1>8, RunGrows
      <4> QED
        BY <2>4, <4>1
    <3>2. IsFiniteSet(S)
      BY <1>6, <2>4, RunIsFinite
    <3> QED
      BY <2>4, <3>1, <3>2 DEF InRun
  <2>6. S = InRun(p, m, upto) /\ RunTotal(p, m, upto) = c
    BY <1>1, <1>6, <2>1, <2>4, RunSame
  <2>7. PICK v : v = Pays(p)
    OBVIOUS
  <2>8. v[m + 1] = op.pay /\ m + 1 \notin S /\ \A n \in S : v[n] \in Int
    <3>1. \A n \in 1 .. m + 1 : v[n] = p[n].pay /\ p[n] \in Operation
      BY <1>3, <2>7 DEF Pays
    <3>2. \A n \in S : n \in 1 .. m + 1 /\ n # m + 1
      BY <1>3, <2>5
    <3>3. m + 1 \in 1 .. m + 1
      BY <1>3
    <3> QED
      BY <1>3, <3>1, <3>2, <3>3 DEF Operation
  <2>9. Total(v, S \cup {m + 1}) = Total(v, S) + v[m + 1]
    <3>1. PICK x : x = m + 1
      OBVIOUS
    <3>2. x \notin S /\ v[x] \in Int
      BY <1>5, <2>8, <3>1
    <3>3. Total(v, S \cup {x}) = Total(v, S) + v[x]
      <4>1. IsFiniteSet(S) /\ \A n \in S : v[n] \in Int
        BY <2>5, <2>8
      <4> QED
        BY <3>2, <4>1, TotalNew
    <3> QED
      BY <3>1, <3>3
  <2>10. RunTotal(p, m + 1, upto) = c + op.pay
    BY <2>5, <2>6, <2>7, <2>8, <2>9 DEF RunTotal
  <2>11. LastIs(p, upto)
    <3>1. ASSUME NEW n \in DOMAIN p, Episode!Funding(p[n]) PROVE n <= m + 1 /\ p[n].day <= upto
      <4>1. CASE n = m + 1
        BY <1>3, <4>1
      <4>2. CASE n \in DOMAIN o
        <5>1. p[n] = o[n] /\ Episode!Funding(o[n]) /\ o[n].day \in Int
          <6>1. p[n] = o[n] /\ o[n] \in Operation
            BY <1>3, <4>2
          <6> QED
            BY <3>1, <6>1 DEF Operation
        <5>2. o[n].day <= r.last
          BY <1>4, <4>2, <5>1 DEF LastIs
        <5> QED
          BY <1>3, <1>4, <4>2, <5>1, <5>2
      <4> QED
        BY <1>3, <4>1, <4>2
    <3>2. m + 1 \in DOMAIN p /\ Episode!Funding(p[m + 1]) /\ p[m + 1].day = upto
      BY <1>3, <1>8
    <3> QED
      BY <3>1, <3>2 DEF LastIs
  <2> QED
    BY <1>1, <1>3, <1>5, <2>1, <2>3, <2>10, <2>11 DEF RunIs
<1> QED
  BY <1>7, <1>8

EpisodeTyped ==
  /\ today \in Int /\ money \in Int /\ fundedSince \in Int
  /\ ops \in Seq(Operation)
  /\ qty \in [Papers -> Nat] /\ basis \in [Papers -> Int]

CostsThen(o, st) == [b \in Papers |-> CostThen(o, st, b)]

\* The history since T0 accounts for what there is now.
FoundBack ==
  /\ start \in 0 .. Len(ops)
  /\ opening.value = (money - Received(ops, start)) + Total(CostsThen(ops, start), Papers)
  /\ opening.wave = RunTotal(ops, start, startDay)
  /\ fundedSince = FundedBy(ops, start)
  /\ \A b \in Papers : LeadsTo(ops, start, b, qty[b], opening.qty[b])

EpisodeInv ==
  /\ EpisodeTyped
  /\ \A b \in Papers : LotsAre(ops, b, qty[b], basis[b])
  /\ RunIs(ops, run, today)
  /\ start # None => FoundBack

LEMMA EpisodeBegins == Episode!Init => EpisodeInv
<1> SUFFICES ASSUME Episode!Init PROVE EpisodeInv
  OBVIOUS
<1>1. /\ today = 0 /\ money = 0 /\ ops = <<>> /\ qty = [b \in Papers |-> 0]
      /\ start = None /\ fundedSince = 0 /\ basis = qty /\ run = [total |-> 0, last |-> 0]
  BY DEF Episode!Init
<1>2. EpisodeTyped
  BY <1>1 DEF EpisodeTyped
<1>3. ASSUME NEW b \in Papers PROVE LotsAre(ops, b, qty[b], basis[b])
  <2>1. Len(ops) = 0 /\ qty[b] = 0 /\ basis[b] = 0
    BY <1>1
  <2>2. Bought(ops, b, 0) = NoneBought
    BY BoughtStep
  <2>3. ~Ended(ops, 0, b)
    BY DEF Ended
  <2> QED
    BY <2>1, <2>2, <2>3 DEF LotsAre, NoneBought
<1>4. RunIs(ops, run, today)
  <2>1. Len(ops) = 0 /\ DOMAIN ops = {} /\ run.total = 0 /\ run.last = 0
    BY <1>1
  <2>2. InRun(ops, 0, 0) = {}
    BY DEF InRun
  <2>3. RunTotal(ops, 0, 0) = 0
    BY <2>2, FS_EmptySet, TotalOfNone DEF RunTotal
  <2> QED
    BY <1>1, <2>1, <2>3 DEF RunIs, LastIs
<1> QED
  BY <1>1, <1>2, <1>3, <1>4 DEF EpisodeInv

\* One operation more in the history.
LEMMA OperationKeeps ==
  ASSUME EpisodeInv, NEW op \in Operation, ops' = Append(ops, op),
         op.day = today, run' = RunWith(run, op, today),
         start' = start, startDay' = startDay, opening' = opening, today' = today,
         money' = money + PaidBy(op), fundedSince' = fundedSince + FundedWith(op),
         qty' = [b \in Papers |-> qty'[b]], basis' = [b \in Papers |-> basis'[b]],
         \A b \in Papers : Does(op, ops, b, qty[b], basis[b], qty'[b], basis'[b])
  PROVE  EpisodeInv'
<1>1. EpisodeTyped /\ \A b \in Papers : LotsAre(ops, b, qty[b], basis[b])
  BY DEF EpisodeInv
<1>2. ops \in Seq(Operation) /\ ops' \in Seq(Operation) /\ Len(ops') = Len(ops) + 1
  BY <1>1, HistoryGrows DEF EpisodeTyped
<1>3. \A b \in Papers : LotsAre(ops', b, qty'[b], basis'[b])
  <2> SUFFICES ASSUME NEW b \in Papers PROVE LotsAre(ops', b, qty'[b], basis'[b])
    OBVIOUS
  <2>1. LotsAre(ops, b, qty[b], basis[b]) /\ Does(op, ops, b, qty[b], basis[b], qty'[b], basis'[b])
    BY <1>1
  <2> QED
    BY <1>2, <2>1, LotsStep
<1>4. PaidBy(op) \in Int /\ FundedWith(op) \in Int
  BY DEF PaidBy, FundedWith, Operation
<1>5. EpisodeTyped'
  <2>1. \A b \in Papers : qty'[b] \in Nat /\ basis'[b] \in Int
    BY <1>3 DEF LotsAre
  <2>2. qty' \in [Papers -> Nat] /\ basis' \in [Papers -> Int]
    BY <2>1
  <2>3. today' \in Int /\ money' \in Int /\ fundedSince' \in Int
    BY <1>1, <1>4 DEF EpisodeTyped
  <2> QED
    BY <1>2, <2>2, <2>3 DEF EpisodeTyped
<1>6. ASSUME start # None PROVE FoundBack'
  <2>1. FoundBack
    BY <1>6 DEF EpisodeInv
  <2>2. start \in 0 .. Len(ops) /\ start \in 0 .. Len(ops')
    BY <1>2, <2>1 DEF FoundBack
  <2>3. /\ Received(ops', start) = Received(ops, start) + PaidBy(op)
        /\ FundedBy(ops', start) = FundedBy(ops, start) + FundedWith(op)
        /\ Received(ops, start) \in Int
    BY <1>2, <2>2, SumsGrow
  <2>4. CostsThen(ops', start) = CostsThen(ops, start)
    BY <1>2, <2>2, SameThen DEF CostsThen
  <2>5. \A b \in Papers : LeadsTo(ops', start, b, qty'[b], opening.qty[b])
    <3> SUFFICES ASSUME NEW b \in Papers PROVE LeadsTo(ops', start, b, qty'[b], opening.qty[b])
      OBVIOUS
    <3>1. /\ LotsAre(ops, b, qty[b], basis[b]) /\ LeadsTo(ops, start, b, qty[b], opening.qty[b])
          /\ Does(op, ops, b, qty[b], basis[b], qty'[b], basis'[b])
      BY <1>1, <2>1 DEF FoundBack
    <3> QED
      BY <1>2, <2>2, <3>1, BackStep
  <2>6. Total(CostsThen(ops, start), Papers) \in Int
    <3>1. \A b \in Papers : CostsThen(ops, start)[b] \in Int
      BY <2>1 DEF FoundBack, LeadsTo, CostsThen
    <3>2. PICK w : w = CostsThen(ops, start)
      OBVIOUS
    <3>3. IsFiniteSet(Papers) /\ \A b \in Papers : w[b] \in Int
      BY <3>1, <3>2, EpisodeAssumption
    <3> QED
      BY <3>2, <3>3, TotalAdds
  <2>7. opening'.value = (money' - Received(ops', start')) + Total(CostsThen(ops', start'), Papers)
    <3>1. PICK t \in Int : t = Total(CostsThen(ops, start), Papers)
      BY <2>6
    <3>2. PICK r \in Int : r = Received(ops, start)
      BY <2>3
    <3>3. opening.value = (money - r) + t /\ money \in Int
      BY <1>1, <2>1, <3>1, <3>2 DEF FoundBack, EpisodeTyped
    <3> QED
      BY <1>4, <2>3, <2>4, <3>1, <3>2, <3>3
  <2>8. fundedSince' = FundedBy(ops', start')
    BY <2>1, <2>3 DEF FoundBack
  <2>9. opening'.wave = RunTotal(ops', start', startDay')
    <3>1. RunTotal(ops', start, startDay) = RunTotal(ops, start, startDay)
      BY <1>2, <2>2, RunSame
    <3> QED
      BY <2>1, <3>1 DEF FoundBack
  <2> QED
    BY <2>2, <2>5, <2>7, <2>8, <2>9 DEF FoundBack
<1>7. RunIs(ops', run', today')
  <2>1. RunIs(ops, run, today) /\ today \in Int
    BY <1>1 DEF EpisodeInv, EpisodeTyped
  <2> QED
    BY <1>2, <2>1, RunStep
<1> QED
  BY <1>3, <1>5, <1>6, <1>7 DEF EpisodeInv

\* T0 is now.
LEMMA AttachmentKeeps ==
  ASSUME EpisodeInv, Episode!AttachAccount
  PROVE  EpisodeInv'
<1>1. /\ start' = Len(ops) /\ startDay' = today /\ fundedSince' = 0
      /\ opening' = [qty |-> qty, wave |-> Continued(run, today),
                     value |-> money + Episode!MapThenSumSet(LAMBDA b : basis[b], Papers)]
      /\ today' = today /\ money' = money /\ qty' = qty /\ ops' = ops /\ basis' = basis
      /\ run' = run
  BY DEF Episode!AttachAccount, Episode!RunOn, Continued
<1>2. EpisodeTyped /\ \A b \in Papers : LotsAre(ops, b, qty[b], basis[b])
  BY DEF EpisodeInv
<1>3. PICK k \in Nat : k = Len(ops)
  BY <1>2 DEF EpisodeTyped
<1>4. /\ Received(ops, k) = 0 /\ FundedBy(ops, k) = 0
      /\ \A kind, b : Moves(ops, k, kind, b) = 0
  BY <1>2, <1>3, NothingLater DEF EpisodeTyped
<1>5. ASSUME NEW b \in Papers
      PROVE  /\ LeadsTo(ops, k, b, qty[b], qty[b])
             /\ CostThen(ops, k, b) = basis[b]
  <2>1. /\ qty[b] \in Nat /\ basis[b] \in Int /\ (qty[b] = 0 => basis[b] = 0)
        /\ IF Ended(ops, k, b) THEN qty[b] = 0
           ELSE Bought(ops, b, k) = [qty |-> qty[b], cost |-> basis[b]]
    BY <1>2, <1>3 DEF LotsAre
  <2>2. qty[b] = QtyThen(ops, k, b) /\ CostThen(ops, k, b) = basis[b]
    BY <2>1 DEF QtyThen, CostThen
  <2>3. Back(ops, k, b, qty[b]) = qty[b]
    BY <1>4, <2>1 DEF Back
  <2> QED
    BY <2>1, <2>2, <2>3 DEF LeadsTo
<1>6. Episode!MapThenSumSet(LAMBDA b : basis[b], Papers) = Total(CostsThen(ops, k), Papers)
  <2>1. Episode!MapThenSumSet(LAMBDA b : basis[b], Papers) = Total([b \in Papers |-> basis[b]], Papers)
    BY Zenon DEF Episode!MapThenSumSet, Episode!MapThenFoldSet, AnyOf, Total, Adds
  <2>2. [b \in Papers |-> basis[b]] = CostsThen(ops, k)
    BY <1>5 DEF CostsThen
  <2> QED
    BY <2>1, <2>2
<1>7. Total(CostsThen(ops, k), Papers) \in Int
  <2>1. PICK w : w = CostsThen(ops, k)
    OBVIOUS
  <2>2. IsFiniteSet(Papers) /\ \A b \in Papers : w[b] \in Int
    BY <1>2, <1>5, <2>1, EpisodeAssumption DEF CostsThen, LotsAre
  <2> QED
    BY <2>1, <2>2, TotalAdds
<1>8. FoundBack'
  <2>1. opening'.qty = qty /\ opening'.value = money + Total(CostsThen(ops, k), Papers)
    BY <1>1, <1>6
  <2>2. money - Received(ops, k) = money
    BY <1>2, <1>4 DEF EpisodeTyped
  <2>3. start' \in 0 .. Len(ops')
    BY <1>1, <1>3
  <2>4. opening'.wave = RunTotal(ops', start', startDay')
    <3>1. RunIs(ops, run, today) /\ today \in Int /\ ops \in Seq(Operation)
      BY <1>2 DEF EpisodeInv, EpisodeTyped
    <3>2. RunTotal(ops, Len(ops), today) = Continued(run, today)
      BY <3>1, RunContinues
    <3> QED
      BY <1>1, <3>2
  <2> QED
    BY <1>1, <1>3, <1>4, <1>5, <2>1, <2>2, <2>3, <2>4 DEF FoundBack
<1>9. EpisodeTyped'
  BY <1>1, <1>2 DEF EpisodeTyped
<1>10. RunIs(ops', run', today')
  BY <1>1 DEF EpisodeInv
<1> QED
  BY <1>1, <1>2, <1>8, <1>9, <1>10 DEF EpisodeInv

\* Operations that trade nothing.
LEMMA PaymentKeeps ==
  ASSUME EpisodeInv, NEW op \in Operation, op.kind \in {"deposit", "withdrawal", "coupon"},
         op.executed, ops' = Append(ops, op), money' = money + op.pay,
         op.day = today, run' = RunWith(run, op, today),
         fundedSince' = fundedSince + FundedWith(op),
         UNCHANGED <<today, start, startDay, opening, qty, basis>>
  PROVE  EpisodeInv'
<1>1. \A b \in Papers : Does(op, ops, b, qty[b], basis[b], qty'[b], basis'[b])
  BY DEF Does, LeavesAlone, Episode!Traded, Ends
<1>2. PaidBy(op) = op.pay
  BY DEF PaidBy
<1>3. qty' = [b \in Papers |-> qty'[b]] /\ basis' = [b \in Papers |-> basis'[b]]
  BY DEF EpisodeInv, EpisodeTyped
<1> QED
  BY <1>1, <1>2, <1>3, OperationKeeps

LEMMA PaidIsOperation ==
  ASSUME EpisodeInv, NEW op, NEW pay \in Int, NEW b \in Papers \cup {None}, NEW n \in Nat,
         NEW kind \in {"deposit", "withdrawal", "purchase", "sale", "coupon", "maturity"},
         op = [kind |-> kind, bond |-> b, qty |-> n, pay |-> pay, day |-> today, executed |-> TRUE]
  PROVE  /\ op \in Operation /\ op.kind = kind /\ op.bond = b /\ op.qty = n /\ op.pay = pay
         /\ op.executed /\ op.day = today /\ PaidBy(op) = pay
<1>1. today \in Int
  BY DEF EpisodeInv, EpisodeTyped
<1> QED
  BY <1>1 DEF Operation, PaidBy

LEMMA FundingKeeps ==
  ASSUME EpisodeInv, NEW kind \in {"deposit", "withdrawal"}, NEW pay \in Int,
         Episode!Fund(kind, pay)
  PROVE  EpisodeInv'
<1>1. PICK op : op = [kind |-> kind, bond |-> None, qty |-> 0, pay |-> pay,
                      day |-> today, executed |-> TRUE]
  OBVIOUS
<1>2. /\ ops' = Append(ops, op) /\ money' = money + pay /\ fundedSince' = fundedSince + pay
      /\ run' = [total |-> Continued(run, today) + pay, last |-> today]
      /\ UNCHANGED <<today, start, startDay, opening, qty, basis>>
  BY <1>1 DEF Episode!Fund, Episode!Operate, Episode!RunOn, Continued
<1>3. /\ op \in Operation /\ op.kind = kind /\ op.pay = pay /\ op.executed /\ op.day = today
  BY <1>1, PaidIsOperation
<1>4. Episode!Funding(op)
  BY <1>3 DEF Episode!Funding
<1>5. FundedWith(op) = pay /\ run' = RunWith(run, op, today)
  BY <1>2, <1>3, <1>4 DEF FundedWith, RunWith
<1> QED
  BY <1>2, <1>3, <1>5, PaymentKeeps

LEMMA DepositKeeps ==
  ASSUME EpisodeInv, Episode!Deposit
  PROVE  EpisodeInv'
BY FundingKeeps, EpisodeAssumption DEF Episode!Deposit

LEMMA WithdrawalKeeps ==
  ASSUME EpisodeInv, Episode!Withdraw
  PROVE  EpisodeInv'
<1>1. -Funds \in Int
  BY EpisodeAssumption
<1> QED
  BY <1>1, FundingKeeps DEF Episode!Withdraw

LEMMA IncomeKeeps ==
  ASSUME EpisodeInv, NEW b \in Papers, Episode!Income(b)
  PROVE  EpisodeInv'
<1>1. PICK op : op = [kind |-> "coupon", bond |-> b, qty |-> 0, pay |-> qty[b],
                      day |-> today, executed |-> TRUE]
  OBVIOUS
<1>2. /\ ops' = Append(ops, op) /\ money' = money + qty[b] /\ fundedSince' = fundedSince
      /\ UNCHANGED <<today, start, startDay, opening, qty, basis, run>>
  BY <1>1 DEF Episode!Income, Episode!Operate
<1>3. qty[b] \in Int /\ fundedSince \in Int
  BY DEF EpisodeInv, EpisodeTyped
<1>4. /\ op \in Operation /\ op.kind = "coupon" /\ op.pay = qty[b] /\ op.executed /\ op.day = today
  BY <1>1, <1>3, PaidIsOperation
<1>5. FundedWith(op) = 0
  BY <1>4 DEF FundedWith, Episode!Funding
<1>7. run' = RunWith(run, op, today)
  <2>1. ~Episode!Funding(op)
    BY <1>4 DEF Episode!Funding
  <2> QED
    BY <1>2, <2>1, NothingFunded
<1>6. fundedSince' = fundedSince + FundedWith(op)
  BY <1>2, <1>3, <1>5
<1> QED
  BY <1>2, <1>4, <1>6, <1>7, PaymentKeeps

\* A trade or a redemption of one bond leaves the others alone.
LEMMA TradeKeeps ==
  ASSUME EpisodeInv, NEW a \in Papers, NEW op \in Operation, op.bond = a, op.executed,
         op.kind \in {"purchase", "sale", "maturity"}, ops' = Append(ops, op),
         op.day = today,
         money' = money + op.pay, UNCHANGED <<today, start, startDay, opening, fundedSince, run>>,
         NEW r, NEW d, qty' = [qty EXCEPT ![a] = r], basis' = [basis EXCEPT ![a] = d],
         Does(op, ops, a, qty[a], basis[a], r, d)
  PROVE  EpisodeInv'
<1>1. /\ qty \in [Papers -> Nat] /\ basis \in [Papers -> Int] /\ fundedSince \in Int
  BY DEF EpisodeInv, EpisodeTyped
<1>2. /\ qty' = [b \in Papers |-> qty'[b]] /\ basis' = [b \in Papers |-> basis'[b]]
      /\ qty'[a] = r /\ basis'[a] = d
      /\ \A b \in Papers \ {a} : qty'[b] = qty[b] /\ basis'[b] = basis[b]
  BY <1>1
<1>3. \A b \in Papers : Does(op, ops, b, qty[b], basis[b], qty'[b], basis'[b])
  <2> SUFFICES ASSUME NEW b \in Papers
               PROVE  Does(op, ops, b, qty[b], basis[b], qty'[b], basis'[b])
    OBVIOUS
  <2>1. CASE b = a
    BY <1>2, <2>1
  <2>2. CASE b # a
    BY <1>2, <2>2 DEF Does, LeavesAlone, Episode!Traded, Ends
  <2> QED
    BY <2>1, <2>2
<1>4. PaidBy(op) = op.pay /\ FundedWith(op) = 0
  BY DEF PaidBy, FundedWith, Episode!Funding
<1>6. run' = RunWith(run, op, today)
  <2>1. ~Episode!Funding(op)
    BY DEF Episode!Funding
  <2> QED
    BY <2>1, NothingFunded
<1>5. fundedSince' = fundedSince + FundedWith(op)
  BY <1>1, <1>4
<1> QED
  BY <1>2, <1>3, <1>4, <1>5, <1>6, OperationKeeps

LEMMA PurchaseKeeps ==
  ASSUME EpisodeInv, NEW a \in Papers, NEW price \in Prices, Episode!Buy(a, price)
  PROVE  EpisodeInv'
<1>1. PICK op : op = [kind |-> "purchase", bond |-> a, qty |-> 1, pay |-> -price,
                      day |-> today, executed |-> TRUE]
  OBVIOUS
<1>2. /\ ops' = Append(ops, op) /\ money' = money + (-price)
      /\ UNCHANGED <<today, start, startDay, opening, fundedSince, run>>
      /\ qty' = [qty EXCEPT ![a] = qty[a] + 1] /\ basis' = [basis EXCEPT ![a] = basis[a] + price]
      /\ \A n \in DOMAIN ops : ~Episode!OfBond(n, "maturity", a)
  BY <1>1 DEF Episode!Buy, Episode!Operate
<1>3. price \in Int /\ -price \in Int
  BY EpisodeAssumption
<1>4. /\ op \in Operation /\ op.kind = "purchase" /\ op.bond = a /\ op.qty = 1
      /\ op.pay = -price /\ op.executed /\ op.day = today
  BY <1>1, <1>3, PaidIsOperation
<1>5. ~Ended(ops, Len(ops), a)
  <2>1. ops \in Seq(Operation)
    BY DEF EpisodeInv, EpisodeTyped
  <2> QED
    BY <1>2, <2>1 DEF Ended, Ends, Episode!OfBond
<1>6. basis[a] + price = basis[a] - op.pay
  BY <1>3, <1>4 DEF EpisodeInv, EpisodeTyped
<1>7. Does(op, ops, a, qty[a], basis[a], qty[a] + 1, basis[a] + price)
  BY <1>4, <1>5, <1>6 DEF Does, BuysOne, Episode!Traded
<1> QED
  BY <1>2, <1>4, <1>7, TradeKeeps

LEMMA SellKeeps ==
  ASSUME EpisodeInv, NEW a \in Papers, NEW price \in Prices, Episode!Sell(a, price)
  PROVE  EpisodeInv'
<1>1. PICK op : op = [kind |-> "sale", bond |-> a, qty |-> 1, pay |-> price,
                      day |-> today, executed |-> TRUE]
  OBVIOUS
<1>2. /\ ops' = Append(ops, op) /\ money' = money + price /\ qty[a] > 0
      /\ UNCHANGED <<today, start, startDay, opening, fundedSince, run>>
      /\ qty' = [qty EXCEPT ![a] = qty[a] - 1]
      /\ basis' = [basis EXCEPT ![a] = basis[a] - basis[a] \div qty[a]]
  BY <1>1 DEF Episode!Sell, Episode!Operate
<1>3. price \in Int
  BY EpisodeAssumption
<1>4. /\ op \in Operation /\ op.kind = "sale" /\ op.bond = a /\ op.qty = 1
      /\ op.pay = price /\ op.executed /\ op.day = today
  BY <1>1, <1>3, PaidIsOperation
<1>5. Does(op, ops, a, qty[a], basis[a], qty[a] - 1, basis[a] - basis[a] \div qty[a])
  BY <1>2, <1>4 DEF Does, SellsOne, Episode!Traded
<1> QED
  BY <1>2, <1>4, <1>5, TradeKeeps

LEMMA RedemptionKeeps ==
  ASSUME EpisodeInv, NEW a \in Papers, Episode!Redeem(a)
  PROVE  EpisodeInv'
<1>1. PICK op : op = [kind |-> "maturity", bond |-> a, qty |-> 0, pay |-> qty[a] * Face,
                      day |-> today, executed |-> TRUE]
  OBVIOUS
<1>2. /\ ops' = Append(ops, op) /\ money' = money + qty[a] * Face
      /\ UNCHANGED <<today, start, startDay, opening, fundedSince, run>>
      /\ qty' = [qty EXCEPT ![a] = 0] /\ basis' = [basis EXCEPT ![a] = 0]
  BY <1>1 DEF Episode!Redeem, Episode!Operate
<1>3. qty[a] * Face \in Int
  BY EpisodeAssumption DEF EpisodeInv, EpisodeTyped
<1>4. /\ op \in Operation /\ op.kind = "maturity" /\ op.bond = a
      /\ op.pay = qty[a] * Face /\ op.executed /\ op.day = today
  BY <1>1, <1>3, PaidIsOperation
<1>5. Does(op, ops, a, qty[a], basis[a], 0, 0)
  BY <1>4 DEF Does, EndsIt, Ends
<1> QED
  BY <1>2, <1>4, <1>5, TradeKeeps

LEMMA CancellationKeeps ==
  ASSUME EpisodeInv, NEW a \in Papers, Episode!CancelledOrder(a)
  PROVE  EpisodeInv'
<1>1. PICK op : op = [kind |-> "purchase", bond |-> a, qty |-> 1, pay |-> -Funds,
                      day |-> today, executed |-> FALSE]
  OBVIOUS
<1>2. /\ ops' = Append(ops, op)
      /\ UNCHANGED <<today, money, qty, start, startDay, run, opening, fundedSince, basis>>
  BY <1>1 DEF Episode!CancelledOrder
<1>3. EpisodeTyped
  BY DEF EpisodeInv
<1>4. -Funds \in Int
  BY EpisodeAssumption
<1>5. op \in Operation /\ ~op.executed /\ op.kind = "purchase" /\ op.day = today
  BY <1>1, <1>3, <1>4 DEF Operation, EpisodeTyped
<1>6. PaidBy(op) = 0 /\ FundedWith(op) = 0
  BY <1>5 DEF PaidBy, FundedWith, Episode!Funding
<1>10. run' = RunWith(run, op, today)
  <2>1. ~Episode!Funding(op)
    BY <1>5 DEF Episode!Funding
  <2> QED
    BY <1>2, <2>1, NothingFunded
<1>7. money' = money + PaidBy(op) /\ fundedSince' = fundedSince + FundedWith(op)
  BY <1>2, <1>3, <1>6 DEF EpisodeTyped
<1>8. \A b \in Papers : Does(op, ops, b, qty[b], basis[b], qty'[b], basis'[b])
  BY <1>2, <1>5 DEF Does, LeavesAlone, Episode!Traded, Ends
<1>9. qty' = [b \in Papers |-> qty'[b]] /\ basis' = [b \in Papers |-> basis'[b]]
  BY <1>2, <1>3 DEF EpisodeTyped
<1> QED
  BY <1>2, <1>5, <1>7, <1>8, <1>9, <1>10, OperationKeeps

LEMMA EpisodeGoes == EpisodeInv /\ [Episode!Next]_(Episode!vars) => EpisodeInv'
<1> SUFFICES ASSUME EpisodeInv, [Episode!Next]_(Episode!vars) PROVE EpisodeInv'
  OBVIOUS
<1>1. CASE Episode!NextDay
  <2>1. /\ today' = today + 1
        /\ UNCHANGED <<money, qty, ops, start, startDay, run, opening, fundedSince, basis>>
    BY <1>1 DEF Episode!NextDay
  <2>2. RunIs(ops', run', today')
    <3>1. RunIs(ops, run, today) /\ today \in Int
      BY DEF EpisodeInv, EpisodeTyped
    <3> QED
      BY <2>1, <3>1 DEF RunIs
  <2> QED
    BY <2>1, <2>2 DEF EpisodeInv, EpisodeTyped, FoundBack
<1>2. CASE UNCHANGED Episode!vars
  BY <1>2 DEF Episode!vars, EpisodeInv, EpisodeTyped, FoundBack
<1>3. CASE \E b \in Papers : \/ \E price \in Prices : Episode!Buy(b, price) \/ Episode!Sell(b, price)
                             \/ Episode!Income(b) \/ Episode!Redeem(b) \/ Episode!CancelledOrder(b)
  BY <1>3, PurchaseKeeps, SellKeeps, IncomeKeeps, RedemptionKeeps, CancellationKeeps
<1> QED
  BY <1>1, <1>2, <1>3, DepositKeeps, WithdrawalKeeps, AttachmentKeeps DEF Episode!Next

\* Whatever was traded, paid and redeemed, what there was of cash, lots and their cost
\* at the attachment follows from what there is and the history.
THEOREM EpisodeInvariant == Episode!Spec => []EpisodeInv
BY EpisodeBegins, EpisodeGoes, PTL DEF Episode!Spec

LEMMA Divides ==
  ASSUME NEW q \in Nat, q > 0, NEW c \in Int
  PROVE  (q * c) \div q = c
<1>1. PICK d \in Int : d = (q * c) \div q
  OBVIOUS
<1>2. q * d <= q * c /\ q * c < q * (d + 1)
  BY <1>1
<1>3. d <= c
  <2>1. ASSUME c < d PROVE FALSE
    BY <1>2, <2>1
  <2> QED
    BY <2>1
<1>4. c < d + 1
  BY <1>2
<1> QED
  BY <1>1, <1>3, <1>4

\* Terms that are nothing may be left out of a sum.
LEMMA TotalWithout ==
  ASSUME NEW S, IsFiniteSet(S), NEW w, NEW T \in SUBSET S, \A k \in S : w[k] \in Int,
         \A k \in S \ T : w[k] = 0
  PROVE  Total(w, S) = Total(w, T)
<1> DEFINE Bad == {V \in SUBSET (S \ T) : Total(w, T \cup V) # Total(w, T)}
<1>1. \A U \in SUBSET S : IsFiniteSet(U)
  BY FS_Subset
<1>2. Bad = {}
  <2> SUFFICES ASSUME Bad # {} PROVE FALSE
    OBVIOUS
  <2>1. PICK V \in Bad : \A U \in Bad : U \subseteq V => U = V
    <3>1. PICK R : R = S \ T
      OBVIOUS
    <3>2. Bad \in SUBSET (SUBSET R) /\ IsFiniteSet(R)
      BY <1>1, <3>1
    <3> HIDE DEF Bad
    <3> QED
      BY <3>2, SmallestSet
  <2>2. V \in SUBSET (S \ T) /\ Total(w, T \cup V) # Total(w, T)
    BY <2>1
  <2>3. V # {}
    <3>1. T \cup {} = T
      OBVIOUS
    <3> QED
      BY <2>2, <3>1
  <2>4. PICK x \in V : TRUE
    BY <2>3
  <2>5. V \ {x} \notin Bad /\ V \ {x} \in SUBSET (S \ T)
    BY <2>1, <2>2, <2>4
  <2>6. Total(w, T \cup (V \ {x})) = Total(w, T)
    BY <2>5
  <2>7. PICK P \in SUBSET S : P = T \cup (V \ {x})
    BY <2>2
  <2>8. Total(w, P \cup {x}) = Total(w, P) + w[x] /\ Total(w, P) \in Int
    <3>1. /\ IsFiniteSet(P) /\ x \notin P /\ w[x] \in Int
          /\ \A k \in P : w[k] \in Int
      BY <1>1, <2>2, <2>4, <2>7
    <3> QED
      BY <3>1, TotalNew, TotalAdds
  <2>9. P \cup {x} = T \cup V /\ w[x] = 0
    BY <2>2, <2>4, <2>7
  <2>10. Total(w, T \cup V) = Total(w, P) + 0 /\ Total(w, P) = Total(w, T)
    <3>1. Total(w, T \cup V) = Total(w, P) + w[x]
      BY <2>8, <2>9, Zenon
    <3>2. Total(w, P) = Total(w, T)
      BY <2>6, <2>7, Zenon
    <3> QED
      BY <2>9, <3>1, <3>2
  <2>11. PICK t \in Int : t = Total(w, P)
    BY <2>8
  <2> QED
    BY <2>2, <2>10, <2>11
<1>3. S \ T \notin Bad /\ T \cup (S \ T) = S
  BY <1>2
<1> QED
  BY <1>3

\* The history, undone, gives the cash of T0 and what was put in since.
LEMMA CashIsFoundBack ==
  ASSUME EpisodeInv, start # None
  PROVE  /\ Episode!CashAtStart = money - Received(ops, start)
         /\ Episode!Payments({n \in Episode!Since : Episode!Funding(ops[n])}) = fundedSince
<1>1. FoundBack /\ ops \in Seq(Operation)
  BY DEF EpisodeInv, EpisodeTyped
<1>2. start \in 0 .. Len(ops) /\ fundedSince = FundedBy(ops, start)
  BY <1>1 DEF FoundBack
<1>3. PICK done : done = Done(ops, start)
  OBVIOUS
<1>4. PICK funding : funding = Funded(ops, start)
  OBVIOUS
<1>5. /\ done = Episode!Executed(Episode!Since)
      /\ funding = {n \in Episode!Since : Episode!Funding(ops[n])}
  BY <1>3, <1>4 DEF Done, Funded, Later, Episode!Executed, Episode!Since
<1>6. /\ IsFiniteSet(done) /\ \A n \in done : n \in DOMAIN ops
      /\ IsFiniteSet(funding) /\ \A n \in funding : n \in DOMAIN ops
  <2>1. IsFiniteSet(done) /\ IsFiniteSet(funding)
    BY <1>1, <1>2, <1>3, <1>4, LaterIsFinite
  <2> QED
    BY <1>3, <1>4, <2>1 DEF Done, Funded, Later
<1>7. Episode!Payments(done) = Total(Pays(ops), done) /\ Episode!Payments(funding) = Total(Pays(ops), funding)
  BY <1>6, PaymentsIsTotal
<1> QED
  BY <1>2, <1>3, <1>4, <1>5, <1>7 DEF Episode!CashAtStart, Received, FundedBy

\* Of a bond in sight, and of any when all that are held are.
LEMMA LotsAreFoundBack ==
  ASSUME EpisodeInv, start # None, NEW figis, NEW b \in Papers, qty[b] > 0 => b \in figis
  PROVE  Episode!QtyAtStart(figis, b) = Back(ops, start, b, qty[b])
<1>1. ops \in Seq(Operation) /\ start \in 0 .. Len(ops)
  BY DEF EpisodeInv, EpisodeTyped, FoundBack
<1>2. \A kind : IsFiniteSet(Trades(ops, start, kind, b))
  BY <1>1, LaterIsFinite
<1>3. \A kind : Episode!Moved(kind, b) = Moves(ops, start, kind, b)
  <2> SUFFICES ASSUME NEW kind PROVE Episode!Moved(kind, b) = Moves(ops, start, kind, b)
    OBVIOUS
  <2>1. PICK S : S = Trades(ops, start, kind, b)
    OBVIOUS
  <2>2. IsFiniteSet(S)
    BY <1>2, <2>1
  <2>3. Episode!Moved(kind, b) = Total(Counts(ops), S)
    BY <2>1, <2>2, MovedIsTotal
  <2> QED
    BY <2>1, <2>3 DEF Moves
<1>4. (IF b \in figis THEN qty[b] ELSE 0) = qty[b]
  BY DEF EpisodeInv, EpisodeTyped
<1> QED
  BY <1>3, <1>4 DEF Episode!QtyAtStart, Back

\* The run of deposits before T0 is found back as well.
LEMMA WaveIsFoundBack ==
  ASSUME EpisodeInv, start # None
  PROVE  Episode!Wave = opening.wave
<1>1. /\ opening.wave = RunTotal(ops, start, startDay)
      /\ start \in 0 .. Len(ops) /\ ops \in Seq(Operation)
  BY DEF EpisodeInv, EpisodeTyped, FoundBack
<1>2. PICK S : S = InRun(ops, start, startDay)
  OBVIOUS
<1>3. S = Episode!Unbroken(start, startDay)
  BY <1>2 DEF InRun, Stays, Followed, Episode!Unbroken, Episode!Followed
<1>4. IsFiniteSet(S) /\ \A n \in S : n \in DOMAIN ops
  BY <1>1, <1>2, RunIsFinite
<1>5. Episode!Payments(S) = Total(Pays(ops), S)
  BY <1>4, PaymentsIsTotal
<1> QED
  BY <1>1, <1>2, <1>3, <1>5 DEF Episode!Wave, RunTotal

\* In sight of the bonds of T0, the lots of T0 are those found back, at what they had cost.
LEMMA HeldIsFoundBack ==
  ASSUME EpisodeInv, start # None, NEW figis \in SUBSET Papers, Episode!Traceable(figis),
         NEW b \in Papers
  PROVE  IF b \in Episode!Counted(figis) /\ Episode!QtyAtStart(figis, b) > 0
         THEN Episode!CostOf(b, Episode!QtyAtStart(figis, b)) = CostThen(ops, start, b)
         ELSE CostThen(ops, start, b) = 0
<1>1. LeadsTo(ops, start, b, qty[b], opening.qty[b])
  BY DEF EpisodeInv, FoundBack
<1>2. PICK was : was = opening.qty[b]
  OBVIOUS
<1>3. PICK k : k = Back(ops, start, b, qty[b])
  OBVIOUS
<1>4. Episode!QtyAtStart(figis, b) = k
  BY <1>3, LotsAreFoundBack DEF Episode!Traceable
<1>5. /\ was \in Nat /\ was = QtyThen(ops, start, b) /\ CostThen(ops, start, b) \in Int
      /\ (was = 0 => CostThen(ops, start, b) = 0) /\ k <= was
      /\ EndedLater(ops, start, b) \/ k = was
  BY <1>1, <1>2, <1>3 DEF LeadsTo
<1>6. CASE was = 0
  <2>1. ~(k > 0)
    <3>1. PICK q \in Nat : q = qty[b]
      BY <1>1 DEF LeadsTo
    <3>2. k \in Int
      <4>1. ops \in Seq(Operation) /\ start \in 0 .. Len(ops)
        BY DEF EpisodeInv, EpisodeTyped, FoundBack
      <4>2. PICK p \in Operation : TRUE
        <5>1. [kind |-> "coupon", bond |-> None, qty |-> 0, pay |-> 0, day |-> 0, executed |-> TRUE]
                \in Operation
          BY DEF Operation
        <5> QED
          BY <5>1
      <4>3. \A kind : Moves(ops, start, kind, b) \in Int
        BY <4>1, <4>2, SumsGrow
      <4> QED
        BY <1>3, <3>1, <4>3 DEF Back
    <3> QED
      BY <1>5, <1>6, <3>2
  <2> QED
    BY <1>4, <1>5, <1>6, <2>1
<1>7. CASE was > 0
  <2>1. /\ b \in Episode!Counted(figis)
        /\ \A n \in Episode!Since : ops[n].kind = "maturity" => opening.qty[ops[n].bond] = 0
    BY <1>2, <1>7 DEF Episode!Traceable, Episode!Counted
  <2>2. ~EndedLater(ops, start, b)
    BY <1>2, <1>7, <2>1 DEF EndedLater, Ends, Later, Episode!Since
  <2>3. k = was /\ k > 0
    BY <1>5, <1>7, <2>2
  <2>4. ~Ended(ops, start, b) /\ was = Bought(ops, b, start).qty
    BY <1>5, <1>7 DEF QtyThen
  <2>5. CostThen(ops, start, b) = Bought(ops, b, start).cost
    BY <2>4 DEF CostThen
  <2>6. PICK c \in Int : c = Bought(ops, b, start).cost
    BY <1>5, <2>5
  <2>7. Episode!CostOf(b, k) = (k * c) \div k
    BY <1>7, <2>3, <2>4, <2>6, LotStateIs DEF Episode!CostOf
  <2>8. (k * c) \div k = c
    BY <1>5, <2>3, Divides
  <2> QED
    BY <1>4, <2>1, <2>3, <2>5, <2>6, <2>7, <2>8
<1> QED
  BY <1>5, <1>6, <1>7

LEMMA CapitalIsFoundBack ==
  ASSUME EpisodeInv, start # None, NEW figis \in SUBSET Papers, Episode!Traceable(figis)
  PROVE  Episode!EpisodeCapital(figis)
           = (IF opening.wave > opening.value THEN opening.wave ELSE opening.value) + fundedSince
<1> DEFINE inSight == {b \in Episode!Counted(figis) : Episode!QtyAtStart(figis, b) > 0}
           found == [b \in inSight |-> Episode!CostOf(b, Episode!QtyAtStart(figis, b))]
<1>1. PICK w : w = CostsThen(ops, start)
  OBVIOUS
<1>2. inSight \subseteq Papers /\ IsFiniteSet(Papers)
  BY EpisodeAssumption DEF Episode!Counted
<1>3. \A b \in Papers : w[b] = CostThen(ops, start, b) /\ w[b] \in Int
  BY <1>1 DEF CostsThen, EpisodeInv, FoundBack, LeadsTo
<1>4. \A b \in inSight : found[b] = w[b]
  BY <1>2, <1>3, HeldIsFoundBack
<1>5. \A b \in Papers \ inSight : w[b] = 0
  BY <1>3, HeldIsFoundBack
<1>6. Episode!MapThenSumSet(LAMBDA b : Episode!CostOf(b, Episode!QtyAtStart(figis, b)), inSight)
        = Total(found, inSight)
  BY Zenon DEF Episode!MapThenSumSet, Episode!MapThenFoldSet, AnyOf, Total, Adds
<1>7. Total(found, inSight) = Total(w, Papers)
  <2>1. PICK S \in SUBSET Papers : S = inSight
    BY <1>2
  <2>2. PICK v : v = found
    OBVIOUS
  <2>3. IsFiniteSet(S) /\ \A b \in S : v[b] = w[b]
    BY <1>2, <1>4, <2>1, <2>2, FS_Subset
  <2>4. Total(v, S) = Total(w, S)
    BY <2>3, TotalSame
  <2>5. \A b \in Papers \ S : w[b] = 0
    BY <1>5, <2>1
  <2>6. Total(w, Papers) = Total(w, S)
    BY <1>2, <1>3, <2>5, TotalWithout
  <2> QED
    BY <2>1, <2>2, <2>4, <2>6
<1>8. opening.value = Episode!CashAtStart + Total(w, Papers)
  BY <1>1, CashIsFoundBack DEF EpisodeInv, FoundBack
<1>9. opening.value
        = Episode!CashAtStart
            + Episode!MapThenSumSet(LAMBDA b : Episode!CostOf(b, Episode!QtyAtStart(figis, b)), inSight)
  BY <1>6, <1>7, <1>8
<1> QED
  BY <1>9, CashIsFoundBack, WaveIsFoundBack DEF Episode!EpisodeCapital

\* With every bond held in sight, the bonds in sight are worth what all are.
LEMMA ValueIsWhole ==
  ASSUME EpisodeInv, NEW figis \in SUBSET Papers, Episode!Traceable(figis)
  PROVE  Episode!AccountValue = money + Episode!HoldingsValue(figis)
         /\ Episode!HoldingsValue(figis) \in Int
<1>1. PICK w : w = [b \in Papers |-> Episode!Worth(b)]
  OBVIOUS
<1>2. PICK v : v = [b \in figis |-> Episode!Worth(b)]
  OBVIOUS
<1>3. Episode!MapThenSumSet(Episode!Worth, Papers) = Total(w, Papers)
  BY <1>1, Zenon DEF Episode!MapThenSumSet, Episode!MapThenFoldSet, AnyOf, Total, Adds
<1>4. Episode!MapThenSumSet(Episode!Worth, figis) = Total(v, figis)
  BY <1>2, Zenon DEF Episode!MapThenSumSet, Episode!MapThenFoldSet, AnyOf, Total, Adds
<1>5. IsFiniteSet(Papers) /\ IsFiniteSet(figis)
  BY EpisodeAssumption, FS_Subset
<1>6. ASSUME NEW b \in Papers
      PROVE  w[b] \in Int /\ (b \notin figis => w[b] = 0) /\ (b \in figis => v[b] = w[b])
  <2>1. qty[b] \in Nat /\ (b \notin figis => qty[b] = 0)
    BY DEF EpisodeInv, EpisodeTyped, Episode!Traceable
  <2>2. PICK price \in Int : w[b] = qty[b] * price
    <3>1. CASE b \in Unquoted
      BY <1>1, <3>1, EpisodeAssumption DEF Episode!Worth
    <3>2. CASE b \notin Unquoted
      BY <1>1, <3>2 DEF Episode!Worth
    <3> QED
      BY <3>1, <3>2
  <2> QED
    BY <1>1, <1>2, <2>1, <2>2
<1>7. Total(v, figis) = Total(w, figis) /\ Total(w, figis) \in Int
  BY <1>5, <1>6, TotalSame, TotalAdds
<1>8. Total(w, Papers) = Total(w, figis)
  BY <1>5, <1>6, TotalWithout
<1> QED
  BY <1>3, <1>4, <1>7, <1>8 DEF Episode!AccountValue, Episode!HoldingsValue

LEMMA EpisodeInvEarns == EpisodeInv => Episode!ProfitIsEarned
<1> SUFFICES ASSUME EpisodeInv, NEW universe \in SUBSET Papers, NEW planned \in SUBSET Papers,
                    NEW figis, figis = Episode!Figis(universe, planned),
                    start # None, Episode!Traceable(figis)
             PROVE  Episode!NetProfit(figis)
                      = Episode!AccountValue
                          - ((IF opening.wave > opening.value THEN opening.wave ELSE opening.value)
                               + fundedSince)
  BY DEF Episode!ProfitIsEarned
<1>1. figis \in SUBSET Papers
  BY DEF Episode!Figis
<1>2. PICK h \in Int : h = Episode!HoldingsValue(figis) /\ Episode!AccountValue = money + h
  BY <1>1, ValueIsWhole
<1>3. money \in Int
  BY DEF EpisodeInv, EpisodeTyped
<1>4. PICK base : base = (IF opening.wave > opening.value THEN opening.wave ELSE opening.value)
                           + fundedSince
  OBVIOUS
<1>5. Episode!EpisodeCapital(figis) = base
  BY <1>1, <1>4, CapitalIsFoundBack
<1>6. Episode!NetProfit(figis) = h + money - base
  BY <1>2, <1>5 DEF Episode!NetProfit
<1> QED
  BY <1>2, <1>3, <1>4, <1>6

\* The profit shown is what the account is worth, all bonds held counted, less what it
\* was worth at T0, its bonds at what they had cost (or the run of deposits that ended
\* at T0, if that is more), and less what was put in since.
THEOREM ProfitIsWhatWasEarned == Episode!Spec => []ProfitIsEarned
BY EpisodeInvariant, EpisodeInvEarns, PTL DEF ProfitIsEarned

-----------------------------------------------------------------------------
(***************************************************************************)
(* Advice.  The list of what to buy is put together from a deployment, in  *)
(* which a bond is bought once, and from redemptions, of which each bond   *)
(* held has one; so the keys of its items differ, and no later step of a   *)
(* session touches the offer or the id of an item.  A session that is      *)
(* active when it has been looked at twice still offers something: an item *)
(* that was not stale at the first look is not stale at the second.        *)
(***************************************************************************)
ItemFields == {"offer", "id", "status", "order"}

IsSession(s) ==
  /\ {"status", "items"} \subseteq DOMAIN s
  /\ \E n \in Nat : DOMAIN s.items = 1 .. n
  /\ \A k \in DOMAIN s.items : ItemFields \subseteq DOMAIN s.items[k]

\* The items of two sessions differ in their status and order at most.
SameItems(s, t) ==
  /\ IsSession(t) /\ DOMAIN t.items = DOMAIN s.items
  /\ \A k \in DOMAIN s.items : t.items[k].id = s.items[k].id /\ t.items[k].offer = s.items[k].offer

ToBuy == {"buy", "reinvest"}

-----------------------------------------------------------------------------
\* What a session that may be completed is.
LEMMA CompleteIs ==
  ASSUME NEW s, IsSession(s), NEW t, t = Advisor!CompleteIfNoPending(s)
  PROVE  /\ SameItems(s, t) /\ t.items = s.items
         /\ t.status = s.status \/ t.status = "completed"
         /\ Advisor!IsActive(t) => t = s /\ (s.items # <<>> => Advisor!Pending(s) # {})
<1>1. t = s \/ (t = [s EXCEPT !.status = "completed"] /\ Advisor!IsActive(s) /\ Advisor!Pending(s) = {})
  BY DEF Advisor!CompleteIfNoPending
<1>2. ASSUME t = [s EXCEPT !.status = "completed"]
      PROVE  t.items = s.items /\ t.status = "completed" /\ DOMAIN t = DOMAIN s
  BY <1>2 DEF IsSession
<1>3. SameItems(s, t) /\ t.items = s.items
  BY <1>1, <1>2 DEF IsSession, SameItems
<1>4. ASSUME Advisor!IsActive(t) PROVE t = s /\ (s.items # <<>> => Advisor!Pending(s) # {})
  <2>1. t = s
    BY <1>1, <1>2, <1>4 DEF Advisor!IsActive
  <2> QED
    BY <1>2, <1>4, <2>1 DEF Advisor!CompleteIfNoPending, Advisor!IsActive
<1> QED
  BY <1>1, <1>2, <1>3, <1>4

\* Other items of the same offers; items some of which have another status.
Restated(s, e) ==
  /\ DOMAIN e = DOMAIN s.items
  /\ \A k \in DOMAIN e : /\ ItemFields \subseteq DOMAIN e[k]
                         /\ e[k].id = s.items[k].id /\ e[k].offer = s.items[k].offer

Marked(s, e) ==
  /\ DOMAIN e = DOMAIN s.items
  /\ \A k \in DOMAIN e : e[k] = s.items[k] \/ \E x : e[k] = [s.items[k] EXCEPT !.status = x]

LEMMA MarkedIs ==
  ASSUME NEW s, IsSession(s), NEW e, Marked(s, e)
  PROVE  Restated(s, e)
<1> SUFFICES ASSUME NEW k \in DOMAIN e
             PROVE  ItemFields \subseteq DOMAIN e[k] /\ e[k].id = s.items[k].id /\ e[k].offer = s.items[k].offer
  BY DEF Restated, Marked
<1>1. ItemFields \subseteq DOMAIN s.items[k]
  BY DEF IsSession, Marked
<1>2. ASSUME NEW x, e[k] = [s.items[k] EXCEPT !.status = x]
      PROVE  DOMAIN e[k] = DOMAIN s.items[k] /\ e[k].id = s.items[k].id /\ e[k].offer = s.items[k].offer
  BY <1>1, <1>2 DEF ItemFields
<1> QED
  BY <1>1, <1>2 DEF Marked

LEMMA ItemsAre ==
  ASSUME NEW s, IsSession(s), NEW e, Restated(s, e), NEW t, t = [s EXCEPT !.items = e]
  PROVE  SameItems(s, t) /\ t.items = e /\ t.status = s.status
<1>1. DOMAIN t = DOMAIN s /\ t.items = e /\ t.status = s.status
  BY DEF IsSession
<1> QED
  BY <1>1 DEF IsSession, SameItems, Restated

LEMMA SameTwice ==
  ASSUME NEW r, NEW s, NEW t, SameItems(r, s), SameItems(s, t)
  PROVE  SameItems(r, t)
BY DEF SameItems

LEMMA StaleIs ==
  ASSUME NEW s, IsSession(s), NEW t, t = Advisor!WithStaleness(s)
  PROVE  /\ SameItems(s, t) /\ t.status = s.status
         /\ \A k \in DOMAIN s.items :
              t.items[k].status = "pending" <=> s.items[k].status = "pending" /\ ~Advisor!Stale(s.items[k])
<1> DEFINE Old(k) == s.items[k].status = "pending" /\ Advisor!Stale(s.items[k])
           e == [k \in DOMAIN s.items |->
                   IF Old(k) THEN [s.items[k] EXCEPT !.status = "stale"] ELSE s.items[k]]
<1>1. t = [s EXCEPT !.items = e]
  BY Zenon DEF Advisor!WithStaleness
<1>2. Marked(s, e)
  <2>1. DOMAIN e = DOMAIN s.items
    OBVIOUS
  <2>2. \A k \in DOMAIN e : e[k] = s.items[k] \/ \E x : e[k] = [s.items[k] EXCEPT !.status = x]
    BY Zenon
  <2> QED
    BY <2>1, <2>2, Zenon DEF Marked
<1>4. \A k \in DOMAIN s.items : e[k].status = "pending" <=> s.items[k].status = "pending" /\ ~Advisor!Stale(s.items[k])
  <2> SUFFICES ASSUME NEW k \in DOMAIN s.items
               PROVE  e[k].status = "pending" <=> s.items[k].status = "pending" /\ ~Advisor!Stale(s.items[k])
    OBVIOUS
  <2>1. ItemFields \subseteq DOMAIN s.items[k]
    BY DEF IsSession
  <2>2. CASE Old(k)
    <3>1. e[k] = [s.items[k] EXCEPT !.status = "stale"]
      BY <2>2, Zenon
    <3> HIDE DEF e
    <3>2. e[k].status = "stale"
      BY <2>1, <3>1 DEF ItemFields
    <3> QED
      BY <2>2, <3>2
  <2>3. CASE ~Old(k)
    <3>1. e[k] = s.items[k]
      BY <2>3, Zenon
    <3> QED
      BY <2>3, <3>1
  <2> QED
    BY <2>2, <2>3
<1> HIDE DEF e
<1>5. SameItems(s, t) /\ t.items = e /\ t.status = s.status
  BY <1>1, <1>2, MarkedIs, ItemsAre
<1> QED
  BY <1>4, <1>5

LEMMA SyncedIs ==
  ASSUME NEW s, IsSession(s), NEW t, t = Advisor!Synced(s)
  PROVE  /\ SameItems(s, t)
         /\ t.status = s.status \/ t.status = "completed"
         /\ Advisor!IsActive(t) /\ s.items # <<>> => Advisor!Pending(t) # {}
         /\ \A k \in DOMAIN s.items : t.items[k].status = "pending" => s.items[k].status = "pending"
<1> DEFINE Over(k) == s.items[k].status = "placed" /\ s.items[k].order \notin {o.id : o \in orders}
           e == [k \in DOMAIN s.items |->
                   IF Over(k) THEN [s.items[k] EXCEPT !.status = "filled"] ELSE s.items[k]]
           r == [s EXCEPT !.items = e]
<1>1. t = Advisor!CompleteIfNoPending(r)
  BY Zenon DEF Advisor!Synced
<1>2. Marked(s, e)
  <2>1. DOMAIN e = DOMAIN s.items
    OBVIOUS
  <2>2. \A k \in DOMAIN e : e[k] = s.items[k] \/ \E x : e[k] = [s.items[k] EXCEPT !.status = x]
    BY Zenon
  <2> QED
    BY <2>1, <2>2, Zenon DEF Marked
<1>4. \A k \in DOMAIN s.items : e[k].status = "pending" => s.items[k].status = "pending"
  <2> SUFFICES ASSUME NEW k \in DOMAIN s.items, e[k].status = "pending"
               PROVE  s.items[k].status = "pending"
    OBVIOUS
  <2>1. ItemFields \subseteq DOMAIN s.items[k]
    BY DEF IsSession
  <2>2. CASE Over(k)
    <3>1. e[k] = [s.items[k] EXCEPT !.status = "filled"]
      BY <2>2, Zenon
    <3> HIDE DEF e
    <3>2. e[k].status = "filled"
      BY <2>1, <3>1 DEF ItemFields
    <3> QED
      BY <3>2
  <2>3. CASE ~Over(k)
    BY <2>3, Zenon
  <2> QED
    BY <2>2, <2>3
<1> HIDE DEF e
<1>5. SameItems(s, r) /\ r.items = e /\ r.status = s.status
  BY <1>2, MarkedIs, ItemsAre
<1>6. IsSession(r)
  BY <1>5 DEF SameItems
<1> HIDE DEF r
<1>7. /\ SameItems(r, t) /\ t.items = r.items
      /\ t.status = r.status \/ t.status = "completed"
      /\ Advisor!IsActive(t) => t = r /\ (r.items # <<>> => Advisor!Pending(r) # {})
  BY <1>1, <1>6, CompleteIs
<1>8. SameItems(s, t)
  BY <1>5, <1>7, SameTwice
<1>9. s.items # <<>> => r.items # <<>>
  BY <1>5 DEF SameItems
<1> QED
  BY <1>4, <1>5, <1>7, <1>8, <1>9

LEMMA RefreshedIs ==
  ASSUME NEW s, IsSession(s), NEW t, t = Advisor!Refreshed(s)
  PROVE  /\ SameItems(s, t)
         /\ t.status = s.status \/ t.status = "completed"
         /\ ~Advisor!IsActive(s) => t = s
<1>1. CASE ~Advisor!IsActive(s)
  BY <1>1 DEF Advisor!Refreshed, SameItems
<1>2. CASE Advisor!IsActive(s)
  <2>1. PICK y : y = Advisor!Synced(s)
    OBVIOUS
  <2>2. t = Advisor!WithStaleness(y)
    BY <1>2, <2>1 DEF Advisor!Refreshed
  <2>3. SameItems(s, y) /\ IsSession(y) /\ (y.status = s.status \/ y.status = "completed")
    BY <2>1, SyncedIs DEF SameItems
  <2>4. SameItems(y, t) /\ t.status = y.status
    BY <2>2, <2>3, StaleIs
  <2> QED
    BY <1>2, <2>3, <2>4, SameTwice
<1> QED
  BY <1>1, <1>2

\* Whether an item is stale is a matter of its offer.
LEMMA StaleOfOffer ==
  ASSUME NEW i, NEW j, i.offer = j.offer
  PROVE  Advisor!Stale(i) <=> Advisor!Stale(j)
BY DEF Advisor!Stale, Advisor!Drifted

\* A session that is active after a second look still has something to offer: what was
\* not stale at the first look is not stale at the second.
LEMMA ActiveOffers ==
  ASSUME NEW s, IsSession(s), s.items # <<>>, NEW q, q = Advisor!Refreshed(s),
         NEW r, r = Advisor!Refreshed(q), Advisor!IsActive(r)
  PROVE  Advisor!Pending(r) # {}
<1>1. SameItems(s, q) /\ IsSession(q) /\ SameItems(q, r) /\ IsSession(r)
  BY RefreshedIs DEF SameItems
<1>2. Advisor!IsActive(q)
  BY <1>1, RefreshedIs
<1>3. Advisor!IsActive(s)
  BY <1>2, RefreshedIs
<1>4. PICK y : y = Advisor!Synced(s)
  OBVIOUS
<1>5. PICK z : z = Advisor!Synced(q)
  OBVIOUS
<1>6. q = Advisor!WithStaleness(y) /\ r = Advisor!WithStaleness(z)
  BY <1>2, <1>3, <1>4, <1>5 DEF Advisor!Refreshed
<1>7. SameItems(s, y) /\ IsSession(y)
  BY <1>4, SyncedIs DEF SameItems
<1>8. q.items # <<>>
  BY <1>1 DEF SameItems
<1>9. /\ SameItems(q, z) /\ IsSession(z)
      /\ Advisor!IsActive(z) => Advisor!Pending(z) # {}
      /\ \A k \in DOMAIN q.items : z.items[k].status = "pending" => q.items[k].status = "pending"
  BY <1>1, <1>5, <1>8, SyncedIs DEF SameItems
<1>10. /\ SameItems(z, r) /\ r.status = z.status
       /\ \A k \in DOMAIN z.items :
            z.items[k].status = "pending" /\ ~Advisor!Stale(z.items[k]) => r.items[k].status = "pending"
  BY <1>6, <1>9, StaleIs
<1>11. /\ SameItems(y, q)
       /\ \A k \in DOMAIN y.items : q.items[k].status = "pending" => ~Advisor!Stale(y.items[k])
  BY <1>6, <1>7, StaleIs
<1>12. Advisor!IsActive(z)
  BY <1>10 DEF Advisor!IsActive
<1>13. PICK k \in DOMAIN z.items : z.items[k].status = "pending"
  BY <1>9, <1>12 DEF Advisor!Pending
<1>14. DOMAIN z.items = DOMAIN q.items /\ DOMAIN q.items = DOMAIN y.items /\ DOMAIN r.items = DOMAIN z.items
  BY <1>9, <1>10, <1>11 DEF SameItems
<1>15. z.items[k].offer = q.items[k].offer /\ q.items[k].offer = y.items[k].offer
  BY <1>9, <1>11, <1>14 DEF SameItems
<1>16. ~Advisor!Stale(z.items[k])
  <2>1. ~Advisor!Stale(y.items[k])
    BY <1>9, <1>11, <1>13, <1>14
  <2> QED
    BY <1>15, <2>1, StaleOfOffer
<1>17. r.items[k].status = "pending" /\ k \in DOMAIN r.items
  BY <1>10, <1>13, <1>14, <1>16
<1> QED
  BY <1>17 DEF Advisor!Pending

\* The first item with an id is there when one is.
LEMMA FoundIs ==
  ASSUME NEW s, IsSession(s), NEW j \in DOMAIN s.items
  PROVE  LET f == Advisor!Found(s, s.items[j].id)
         IN f \in DOMAIN s.items /\ s.items[f].id = s.items[j].id
<1>1. PICK n \in Nat : DOMAIN s.items = 1 .. n
  BY DEF IsSession
<1>2. PICK id : id = s.items[j].id
  OBVIOUS
<1> DEFINE S == {k \in DOMAIN s.items : s.items[k].id = id}
<1>3. PICK m \in S : \A k \in S : m <= k
  <2>1. (\A k \in S : k \in 1 .. n) /\ S # {}
    BY <1>1, <1>2
  <2> HIDE DEF S
  <2> QED
    BY <2>1, SmallestNumber
<1>4. m \in DOMAIN s.items /\ s.items[m].id = id
  OBVIOUS
<1>5. \A k \in 1 .. m - 1 : s.items[k].id # id
  <2> SUFFICES ASSUME NEW k \in 1 .. m - 1, s.items[k].id = id PROVE FALSE
    OBVIOUS
  <2>1. m \in 1 .. n
    BY <1>1, <1>4
  <2>2. k \in 1 .. n /\ ~(m <= k)
    BY <2>1
  <2> QED
    BY <1>1, <1>3, <2>2
<1> QED
  BY <1>2, <1>4, <1>5, Zenon DEF Advisor!Found

\* One item of a session takes another status or order.
LEMMA ItemIs ==
  ASSUME IsSession(session), NEW k \in DOMAIN session.items, NEW item,
         ItemFields \subseteq DOMAIN item,
         item.id = session.items[k].id, item.offer = session.items[k].offer,
         NEW t, t = Advisor!CompleteIfNoPending([session EXCEPT !.items[k] = item])
  PROVE  SameItems(session, t) /\ (t.status = session.status \/ t.status = "completed")
<1>1. PICK e : e = [session.items EXCEPT ![k] = item]
  OBVIOUS
<1>2. PICK r : r = [session EXCEPT !.items = e]
  OBVIOUS
<1>3. t = Advisor!CompleteIfNoPending(r)
  BY <1>1, <1>2
<1>4. Restated(session, e)
  BY <1>1 DEF Restated, IsSession
<1>5. SameItems(session, r) /\ r.status = session.status /\ IsSession(r)
  BY <1>2, <1>4, ItemsAre DEF SameItems
<1>6. SameItems(r, t) /\ (t.status = r.status \/ t.status = "completed")
  BY <1>3, <1>5, CompleteIs
<1> QED
  BY <1>5, <1>6, SameTwice

-----------------------------------------------------------------------------
\* r has s up to m, then t.
JoinedAt(r, s, t, m) ==
  /\ \A k \in DOMAIN s : k \in DOMAIN r /\ r[k] = s[k] /\ k <= m
  /\ \A k \in DOMAIN r : \/ k \in DOMAIN s /\ r[k] = s[k]
                         \/ k - m \in DOMAIN t /\ r[k] = t[k - m] /\ k > m
  /\ \A k \in DOMAIN t : m + k \in DOMAIN r /\ r[m + k] = t[k]

LEMMA Joined ==
  ASSUME NEW s, NEW t, IsSeq(s), IsSeq(t), NEW r, r = s \o t
  PROVE  /\ IsSeq(r) /\ \E n \in Nat : DOMAIN r = 1 .. n
         /\ \E m \in Nat : JoinedAt(r, s, t, m)
<1>1. PICK S : S = {s[k] : k \in DOMAIN s} \cup {t[k] : k \in DOMAIN t}
  OBVIOUS
<1>2. s \in Seq(S) /\ t \in Seq(S)
  BY <1>1 DEF IsSeq
<1>3. r \in Seq(S) /\ Len(r) = Len(s) + Len(t) /\ Len(s) \in Nat /\ Len(t) \in Nat
      /\ DOMAIN s = 1 .. Len(s) /\ DOMAIN t = 1 .. Len(t) /\ DOMAIN r = 1 .. Len(r)
  BY <1>2
<1>4. \A k \in 1 .. Len(r) : r[k] = IF k <= Len(s) THEN s[k] ELSE t[k - Len(s)]
  BY <1>2
<1>5. PICK m \in Nat, n \in Nat : m = Len(s) /\ n = Len(t)
  BY <1>3
<1>6. DOMAIN s = 1 .. m /\ DOMAIN t = 1 .. n /\ DOMAIN r = 1 .. (m + n)
      /\ \A k \in 1 .. (m + n) : r[k] = IF k <= m THEN s[k] ELSE t[k - m]
  BY <1>3, <1>4, <1>5
<1>7. \A k \in DOMAIN s : k \in DOMAIN r /\ r[k] = s[k] /\ k <= m
  BY <1>6
<1>8. \A k \in DOMAIN r : \/ k \in DOMAIN s /\ r[k] = s[k]
                          \/ k - m \in DOMAIN t /\ r[k] = t[k - m] /\ k > m
  BY <1>6
<1>9. \A k \in DOMAIN t : m + k \in DOMAIN r /\ r[m + k] = t[k]
  BY <1>6
<1>10. IsSeq(r)
  <2>1. r \in Seq(S)
    BY <1>3
  <2> QED
    BY ONLY <2>1 DEF IsSeq
<1>11. \E l \in Nat : DOMAIN r = 1 .. l
  BY <1>3
<1>12. JoinedAt(r, s, t, m)
  BY <1>7, <1>8, <1>9, Zenon DEF JoinedAt
<1> QED
  BY ONLY <1>10, <1>11, <1>12

\* r has the elements of s at these places.
Chosen(r, s, places) ==
  /\ \E m \in Nat : DOMAIN r = 1 .. m
  /\ \A k \in DOMAIN r : \E i \in places : r[k] = s[i]
  /\ \A j, k \in DOMAIN r : j # k => \E x, y \in places : x # y /\ r[j] = s[x] /\ r[k] = s[y]
  /\ IsSeq(r)
  /\ places # {} => 1 \in DOMAIN r

LEMMA ChosenIs ==
  ASSUME NEW s, NEW n \in Nat, NEW places, \A i \in places : i \in 1 .. n,
         NEW r, r = Advisor!Among(s, places)
  PROVE  Chosen(r, s, places)
<1>0. \A S : Advisor!Cardinality(S) = Cardinality(S) /\ Plan!Cardinality(S) = Cardinality(S)
  BY DEF Plan!Cardinality, Advisor!Cardinality, Cardinality
<1>1. r = Plan!Among(s, places)
  BY Zenon DEF Plan!Among, Advisor!Among, Plan!Cardinality, Advisor!Cardinality
<1>2. /\ \E m \in Nat : DOMAIN r = 1 .. m
      /\ \A k \in DOMAIN r : \E i \in places : r[k] = s[i]
      /\ \A j, k \in DOMAIN r : j # k => \E x, y \in places : x # y /\ r[j] = s[x] /\ r[k] = s[y]
      /\ IsSeq(r)
  BY <1>1, AmongElements
<1>3. ASSUME places # {} PROVE 1 \in DOMAIN r
  <2>1. IsFiniteSet(places)
    <3>1. IsFiniteSet(1 .. n) /\ places \subseteq 1 .. n
      BY FS_Interval
    <3> QED
      BY <3>1, FS_Subset
  <2>2. Cardinality(places) \in Nat \ {0}
    BY <1>3, <2>1, FS_CardinalityType, FS_EmptySet
  <2>3. DOMAIN r = 1 .. Cardinality(places)
    BY <1>0, Zenon DEF Advisor!Among
  <2> QED
    BY <2>2, <2>3
<1> QED
  BY <1>2, <1>3 DEF Chosen

\* The universe at the prices of today.
LEMMA OfferedAre ==
  /\ \E n \in Nat : DOMAIN OfferedBonds = 1 .. n
  /\ DOMAIN Advisor!Universe = DOMAIN OfferedBonds
  /\ \A k \in DOMAIN OfferedBonds :
       {"isin", "offer"} \subseteq DOMAIN Advisor!Universe[k]
       /\ Advisor!Universe[k].isin = OfferedBonds[k].isin
<1>1. \E n \in Nat : DOMAIN OfferedBonds = 1 .. n
  BY AdviceAssumption
<1>2. Advisor!Universe = [k \in DOMAIN OfferedBonds |->
                            [OfferedBonds[k] EXCEPT !.lot = quote[OfferedBonds[k].isin]]]
  BY DEF Advisor!Universe
<1>3. ASSUME NEW k \in DOMAIN OfferedBonds
      PROVE  {"isin", "offer"} \subseteq DOMAIN Advisor!Universe[k]
             /\ Advisor!Universe[k].isin = OfferedBonds[k].isin
  <2>1. PICK q : q = quote[OfferedBonds[k].isin]
    OBVIOUS
  <2>2. Advisor!Universe[k] = [OfferedBonds[k] EXCEPT !.lot = q]
    BY <1>2, <2>1
  <2>3. {"isin", "lot", "offer"} \subseteq DOMAIN OfferedBonds[k]
    BY AdviceAssumption
  <2>4. PICK b : b = OfferedBonds[k]
    OBVIOUS
  <2> QED
    BY <2>2, <2>3, <2>4
<1> QED
  BY <1>1, <1>2, <1>3

LEMMA AdoptedIs ==
  ASSUME NEW b, {"isin", "offer"} \subseteq DOMAIN b, NEW p, p = Advisor!Adopted(b)
  PROVE  p.bond.isin = b.isin
<1>1. PICK o : p = [bond |-> [b EXCEPT !.offer = o], lots |-> owned[b.isin], decision |-> "pending"]
  BY Zenon DEF Advisor!Adopted
<1>2. p.bond = [b EXCEPT !.offer = o]
  BY <1>1
<1> QED
  BY <1>2

\* Two positions in one bond are two of the plan: what is held is held once, and of
\* what is held the plan's positions do not count.
LEMMA PositionsAre ==
  ASSUME NEW all, all = Advisor!EffectivePositions
  PROVE  /\ IsSeq(all) /\ \E n \in Nat : DOMAIN all = 1 .. n
         /\ \A j, k \in DOMAIN all :
              j # k /\ all[j].bond.isin = all[k].bond.isin => Advisor!PlannedTwice(all[j].bond.isin)
<1>a. PICK Here : Here = {k \in DOMAIN OfferedBonds : owned[OfferedBonds[k].isin] > 0}
  OBVIOUS
<1>b. PICK Away : Away = {k \in DOMAIN PlannedBonds : owned[PlannedBonds[k].bond.isin] = 0}
  OBVIOUS
<1>c. PICK U : U = Advisor!Universe
  OBVIOUS
<1>1. PICK had : had = Advisor!Among(U, Here)
  OBVIOUS
<1>2. PICK gone : gone = Advisor!Among(PlannedBonds, Away)
  OBVIOUS
<1>3. PICK ad : ad = [k \in DOMAIN had |-> Advisor!Adopted(had[k])]
  OBVIOUS
<1>4. all = ad \o gone
  BY <1>a, <1>b, <1>c, <1>1, <1>2, <1>3, Zenon DEF Advisor!EffectivePositions
<1>5. /\ \E m \in Nat : DOMAIN had = 1 .. m
      /\ \A k \in DOMAIN had : \E i \in Here : had[k] = U[i]
      /\ \A j, k \in DOMAIN had : j # k =>
           \E x, y \in Here : x # y /\ had[j] = U[x] /\ had[k] = U[y]
  <2>1. PICK n \in Nat : DOMAIN OfferedBonds = 1 .. n
    BY OfferedAre
  <2>2. \A i \in Here : i \in 1 .. n
    BY <1>a, <2>1
  <2>3. Chosen(had, U, Here)
    BY <1>1, <2>2, ChosenIs
  <2> QED
    BY <2>3 DEF Chosen
<1>6. /\ IsSeq(gone)
      /\ \A k \in DOMAIN gone : \E i \in Away : gone[k] = PlannedBonds[i]
      /\ \A j, k \in DOMAIN gone : j # k =>
           \E x, y \in Away : x # y /\ gone[j] = PlannedBonds[x] /\ gone[k] = PlannedBonds[y]
  <2>1. PICK n \in Nat : DOMAIN PlannedBonds = 1 .. n
    BY AdviceAssumption
  <2>2. \A i \in Away : i \in 1 .. n
    BY <1>b, <2>1
  <2>3. Chosen(gone, PlannedBonds, Away)
    BY <1>2, <2>2, ChosenIs
  <2> QED
    BY <2>3 DEF Chosen
<1>7. IsSeq(ad)
  <2>1. PICK m \in Nat : DOMAIN had = 1 .. m
    BY <1>5
  <2>2. ad = [k \in 1 .. m |-> ad[k]]
    BY <1>3, <2>1
  <2> QED
    BY <2>2, FunctionIsSeq
<1>8. \A k \in DOMAIN ad : \E i \in Here : ad[k].bond.isin = OfferedBonds[i].isin
  <2> SUFFICES ASSUME NEW k \in DOMAIN ad
               PROVE  \E i \in Here : ad[k].bond.isin = OfferedBonds[i].isin
    OBVIOUS
  <2>1. PICK i \in Here : had[k] = U[i]
    BY <1>3, <1>5
  <2>2. ad[k] = Advisor!Adopted(had[k])
    BY <1>3
  <2>3. {"isin", "offer"} \subseteq DOMAIN had[k] /\ had[k].isin = OfferedBonds[i].isin
    BY <1>a, <1>c, <2>1, OfferedAre
  <2> QED
    BY <2>2, <2>3, AdoptedIs
<1>9. \A j, k \in DOMAIN ad : j # k => ad[j].bond.isin # ad[k].bond.isin
  <2> SUFFICES ASSUME NEW j \in DOMAIN ad, NEW k \in DOMAIN ad, j # k
               PROVE  ad[j].bond.isin # ad[k].bond.isin
    OBVIOUS
  <2>1. PICK x \in Here, y \in Here : x # y /\ had[j] = U[x] /\ had[k] = U[y]
    BY <1>3, <1>5
  <2>2. ad[j] = Advisor!Adopted(had[j]) /\ ad[k] = Advisor!Adopted(had[k])
    BY <1>3
  <2>3. /\ {"isin", "offer"} \subseteq DOMAIN had[j] /\ had[j].isin = OfferedBonds[x].isin
        /\ {"isin", "offer"} \subseteq DOMAIN had[k] /\ had[k].isin = OfferedBonds[y].isin
    BY <1>a, <1>c, <2>1, OfferedAre
  <2>4. ad[j].bond.isin = OfferedBonds[x].isin /\ ad[k].bond.isin = OfferedBonds[y].isin
    BY <2>2, <2>3, AdoptedIs
  <2>5. OfferedBonds[x].isin # OfferedBonds[y].isin
    BY <1>a, <2>1, AdviceAssumption
  <2> QED
    BY <2>4, <2>5
<1>10. \A k \in DOMAIN gone : owned[gone[k].bond.isin] = 0
  BY <1>b, <1>6
<1>11. \A k \in DOMAIN ad : owned[ad[k].bond.isin] > 0
  BY <1>a, <1>8
<1>12. \A j, k \in DOMAIN gone : j # k /\ gone[j].bond.isin = gone[k].bond.isin =>
         Advisor!PlannedTwice(gone[j].bond.isin)
  <2> SUFFICES ASSUME NEW j \in DOMAIN gone, NEW k \in DOMAIN gone, j # k,
                      gone[j].bond.isin = gone[k].bond.isin
               PROVE  Advisor!PlannedTwice(gone[j].bond.isin)
    OBVIOUS
  <2>1. PICK x \in Away, y \in Away : x # y /\ gone[j] = PlannedBonds[x] /\ gone[k] = PlannedBonds[y]
    BY <1>6
  <2> QED
    BY <1>b, <2>1 DEF Advisor!PlannedTwice
<1>13. PICK m \in Nat : JoinedAt(all, ad, gone, m)
  BY <1>4, <1>6, <1>7, Joined
<1>14. IsSeq(all) /\ \E n \in Nat : DOMAIN all = 1 .. n
  BY <1>4, <1>6, <1>7, Joined
<1>15. ASSUME NEW j \in DOMAIN all, NEW k \in DOMAIN all, j # k,
              all[j].bond.isin = all[k].bond.isin
       PROVE  Advisor!PlannedTwice(all[j].bond.isin)
  <2>1. PICK isin : isin = all[j].bond.isin
    OBVIOUS
  <2>2. ~(owned[isin] = 0 /\ owned[isin] > 0)
    OBVIOUS
  <2>3. j - m # k - m
    <3>1. j \in Int /\ k \in Int
      BY <1>14
    <3> QED
      BY <1>15, <3>1
  <2>4. CASE j \in DOMAIN ad /\ all[j] = ad[j]
    <3>1. owned[isin] > 0
      BY <1>11, <2>1, <2>4
    <3>2. ~(k \in DOMAIN ad /\ all[k] = ad[k])
      BY <1>9, <1>15, <2>4
    <3>3. owned[isin] = 0
      BY <1>10, <1>13, <1>15, <2>1, <3>2 DEF JoinedAt
    <3> QED
      BY <2>2, <3>1, <3>3
  <2>5. CASE j - m \in DOMAIN gone /\ all[j] = gone[j - m]
    <3>1. owned[isin] = 0
      BY <1>10, <2>1, <2>5
    <3>2. ~(k \in DOMAIN ad /\ all[k] = ad[k])
      BY <1>11, <1>15, <2>1, <2>2, <3>1
    <3>3. k - m \in DOMAIN gone /\ all[k] = gone[k - m]
      BY <1>13, <3>2 DEF JoinedAt
    <3> QED
      BY <1>12, <1>15, <2>3, <2>5, <3>3
  <2> QED
    BY <1>13, <2>4, <2>5 DEF JoinedAt
<1> QED
  BY <1>14, <1>15

\* One suggestion to a position.
LEMMA ReinvestedAre ==
  ASSUME NEW span, NEW kind, NEW budget, NEW r, r = Advisor!ForPositions(span, kind, budget)
  PROVE  /\ IsSeq(r) /\ \E n \in Nat : DOMAIN r = 1 .. n
         /\ \A k \in DOMAIN r : r[k].kind = kind
         /\ \A j, k \in DOMAIN r : j # k /\ r[j].source = r[k].source => Advisor!PlannedTwice(r[j].source)
<1>1. PICK all : all = Advisor!EffectivePositions
  OBVIOUS
<1>2. PICK due, ending :
        /\ due \subseteq DOMAIN all /\ ending = Advisor!Among(all, due)
        /\ r = [k \in DOMAIN ending |-> Advisor!Reinvestment(ending[k], kind, budget)]
  BY <1>1, Zenon DEF Advisor!ForPositions
<1>3. PICK n \in Nat : DOMAIN all = 1 .. n
  BY <1>1, PositionsAre
<1>4. \A i \in due : i \in 1 .. n
  BY <1>2, <1>3
<1>5. Chosen(ending, all, due)
  BY <1>2, <1>3, <1>4, ChosenIs
<1>6. \A p : /\ Advisor!Reinvestment(p, kind, budget).kind = kind
             /\ Advisor!Reinvestment(p, kind, budget).source = p.bond.isin
  BY DEF Advisor!Reinvestment
<1>7. PICK m \in Nat : DOMAIN r = 1 .. m /\ DOMAIN ending = 1 .. m
  BY <1>2, <1>5 DEF Chosen
<1>8. \A k \in DOMAIN r : r[k] = Advisor!Reinvestment(ending[k], kind, budget)
  BY <1>2
<1>9. IsSeq(r)
  <2>1. r = [k \in 1 .. m |-> r[k]]
    BY <1>2, <1>7
  <2> QED
    BY <2>1, FunctionIsSeq
<1>10. \A k \in DOMAIN r : r[k].kind = kind /\ r[k].source = ending[k].bond.isin
  BY <1>6, <1>8
<1>11. ASSUME NEW j \in DOMAIN r, NEW k \in DOMAIN r, j # k, r[j].source = r[k].source
       PROVE  Advisor!PlannedTwice(r[j].source)
  <2>1. PICK x \in due, y \in due : x # y /\ ending[j] = all[x] /\ ending[k] = all[y]
    BY <1>5, <1>7, <1>11 DEF Chosen
  <2>2. all[x].bond.isin = all[y].bond.isin /\ r[j].source = all[x].bond.isin
    BY <1>10, <1>11, <2>1
  <2>3. x \in DOMAIN all /\ y \in DOMAIN all
    BY <1>2
  <2> QED
    BY <1>1, <2>1, <2>2, <2>3, PositionsAre
<1> QED
  BY <1>7, <1>9, <1>10, <1>11

\* A deployment under way: what it has allocated is one allocation to a bond.
Phases == {"open", "topup", "fill", "target", "sweep", "buy"}

Allocations(buys) ==
  /\ IsSeq(buys) /\ \E n \in Nat : DOMAIN buys = 1 .. n
  /\ \A k \in DOMAIN buys : "isin" \in DOMAIN buys[k]
  /\ \A j, k \in DOMAIN buys : buys[j].isin = buys[k].isin => j = k

Deploying(f) ==
  /\ {"phase", "buys"} \subseteq DOMAIN f
  /\ f.phase \in Phases /\ Allocations(f.buys)

\* A bond allocated before gets more lots, another one an allocation.
LEMMA MergeIs ==
  ASSUME NEW buys, Allocations(buys), NEW isin, NEW n, NEW m, m = Advisor!Merge(buys, isin, n)
  PROVE  Allocations(m)
<1>1. CASE \A k \in DOMAIN buys : buys[k].isin # isin
  <2>1. PICK x : x = [isin |-> isin, lots |-> n]
    OBVIOUS
  <2>2. m = Append(buys, x)
    BY <1>1, <2>1 DEF Advisor!Merge
  <2>3. "isin" \in DOMAIN x /\ x.isin = isin
    BY <2>1
  <2>4. PICK l \in Nat : l = Len(buys)
    BY Appended DEF Allocations
  <2>5. /\ IsSeq(m) /\ DOMAIN buys = 1 .. l /\ DOMAIN m = DOMAIN buys \cup {l + 1}
        /\ l + 1 \notin DOMAIN buys /\ m[l + 1] = x /\ \A k \in DOMAIN buys : m[k] = buys[k]
    BY <2>2, <2>4, Appended DEF Allocations
  <2>6. DOMAIN m = 1 .. (l + 1)
    BY <2>5
  <2>7. \A k \in DOMAIN m : "isin" \in DOMAIN m[k]
    BY <2>3, <2>5 DEF Allocations
  <2>8. \A j, k \in DOMAIN m : m[j].isin = m[k].isin => j = k
    BY <1>1, <2>3, <2>5 DEF Allocations
  <2> QED
    BY <2>4, <2>5, <2>6, <2>7, <2>8 DEF Allocations
<1>2. CASE \E k \in DOMAIN buys : buys[k].isin = isin
  <2>1. m = [k \in DOMAIN buys |->
               IF buys[k].isin = isin THEN [buys[k] EXCEPT !.lots = @ + n] ELSE buys[k]]
    BY <1>2 DEF Advisor!Merge
  <2>2. DOMAIN m = DOMAIN buys
    BY <2>1
  <2>3. \A k \in DOMAIN buys : "isin" \in DOMAIN m[k] /\ m[k].isin = buys[k].isin
    <3> SUFFICES ASSUME NEW k \in DOMAIN buys
                 PROVE  "isin" \in DOMAIN m[k] /\ m[k].isin = buys[k].isin
      OBVIOUS
    <3>1. PICK b, c : b = buys[k] /\ c = buys[k].lots + n
      OBVIOUS
    <3>2. m[k] = b \/ m[k] = [b EXCEPT !.lots = c]
      BY <2>1, <3>1
    <3>3. "isin" \in DOMAIN b
      BY <3>1 DEF Allocations
    <3> QED
      BY <3>1, <3>2, <3>3
  <2>4. PICK l \in Nat : DOMAIN buys = 1 .. l
    BY DEF Allocations
  <2>5. IsSeq(m)
    <3>1. m = [k \in 1 .. l |-> m[k]]
      BY <2>1, <2>4
    <3> QED
      BY <3>1, FunctionIsSeq
  <2> QED
    BY <2>2, <2>3, <2>4, <2>5 DEF Allocations
<1> QED
  BY <1>1, <1>2

\* What leaves the allocations alone, or the phase.
LEMMA MovedIs ==
  ASSUME NEW f, Deploying(f), NEW p \in Phases
  PROVE  Deploying(Advisor!Goto(f, p)) /\ Deploying(Advisor!Advance(f))
<1>1. PICK g, h, n : /\ g = Advisor!Goto(f, p) /\ h = Advisor!Advance(f)
                     /\ n = f.at + 1
  OBVIOUS
<1>2. g = [f EXCEPT !.phase = p, !.at = 1, !.again = FALSE] /\ h = [f EXCEPT !.at = n]
  BY <1>1 DEF Advisor!Goto, Advisor!Advance
<1>3. "phase" \in DOMAIN f /\ "buys" \in DOMAIN f
  BY DEF Deploying
<1>4. /\ DOMAIN g = DOMAIN f /\ g.phase = p /\ g.buys = f.buys
      /\ DOMAIN h = DOMAIN f /\ h.phase = f.phase /\ h.buys = f.buys
  BY <1>2, <1>3
<1> QED
  BY <1>1, <1>4 DEF Deploying

LEMMA PickedIs ==
  ASSUME NEW f, Deploying(f), NEW b, NEW n
  PROVE  Deploying(Advisor!Pick(f, b, n))
<1>1. PICK g, x, y, z :
        /\ g = Advisor!Pick(f, b, n)
        /\ x = [f.picks EXCEPT ![b.isin] = @ + n] /\ y = f.left - n * b.lot
        /\ z = IF f.picks[b.isin] = 0 THEN Append(f.order, b.isin) ELSE f.order
  OBVIOUS
<1>4. g = [f EXCEPT !.picks = x, !.left = y, !.order = z]
  BY <1>1 DEF Advisor!Pick
<1>2. "phase" \in DOMAIN f /\ "buys" \in DOMAIN f
  BY DEF Deploying
<1>3. DOMAIN g = DOMAIN f /\ g.phase = f.phase /\ g.buys = f.buys
  BY <1>2, <1>4
<1> QED
  BY <1>1, <1>3 DEF Deploying

\* One allocation more.
LEMMA SpentIs ==
  ASSUME NEW f, Deploying(f), NEW isin, NEW n, NEW x, NEW y, NEW g,
         g = [f EXCEPT !.spent = x, !.bought = y, !.buys = Advisor!Merge(f.buys, isin, n)]
  PROVE  Deploying(g)
<1>1. PICK m : m = Advisor!Merge(f.buys, isin, n)
  OBVIOUS
<1>2. Allocations(m)
  BY <1>1, MergeIs DEF Deploying
<1>3. "phase" \in DOMAIN f /\ "buys" \in DOMAIN f
  BY DEF Deploying
<1>4. DOMAIN g = DOMAIN f /\ g.phase = f.phase /\ g.buys = m
  BY <1>1, <1>3
<1> QED
  BY <1>2, <1>4 DEF Deploying

\* Each step of a deployment leaves a deployment under way.
LEMMA OpenGoes ==
  ASSUME NEW f, Deploying(f)
  PROVE  Deploying(Advisor!OpenStep(f))
<1>1. PICK g : g = Advisor!OpenStep(f)
  OBVIOUS
<1>2. \/ \E p \in Phases : g = Advisor!Goto(f, p)
      \/ g = Advisor!Advance(f)
      \/ \E b, n : g = Advisor!Advance(Advisor!Pick(f, b, n))
  <2>1. "topup" \in Phases /\ "target" \in Phases
    BY DEF Phases
  <2> QED
    BY <1>1, <2>1, Zenon DEF Advisor!OpenStep
<1>3. ASSUME NEW b, NEW n PROVE Deploying(Advisor!Advance(Advisor!Pick(f, b, n)))
  <2>1. PICK h : h = Advisor!Pick(f, b, n)
    OBVIOUS
  <2>2. Deploying(h) /\ "buy" \in Phases
    BY <2>1, PickedIs DEF Phases
  <2> QED
    BY <2>1, <2>2, MovedIs
<1>4. \A p \in Phases : Deploying(Advisor!Goto(f, p)) /\ Deploying(Advisor!Advance(f))
  BY MovedIs
<1> QED
  BY <1>1, <1>2, <1>3, <1>4 DEF Phases

LEMMA TopUpGoes ==
  ASSUME NEW f, Deploying(f)
  PROVE  Deploying(Advisor!TopUpStep(f))
<1>1. PICK g : g = Advisor!TopUpStep(f)
  OBVIOUS
<1>2. \/ \E p \in Phases : g = Advisor!Goto(f, p)
      \/ g = Advisor!Advance(f)
      \/ \E b, n : LET h == [Advisor!Pick(f, b, 1) EXCEPT !.again = TRUE]
                   IN g = [h EXCEPT !.at = n] \/ g = Advisor!Advance(h)
  <2>1. "topup" \in Phases /\ "fill" \in Phases
    BY DEF Phases
  <2> QED
    BY <1>1, <2>1, Zenon DEF Advisor!TopUpStep
<1>4. \A p \in Phases : Deploying(Advisor!Goto(f, p)) /\ Deploying(Advisor!Advance(f))
  BY MovedIs
<1>5. CASE \E b, n : LET h == [Advisor!Pick(f, b, 1) EXCEPT !.again = TRUE]
                     IN g = [h EXCEPT !.at = n] \/ g = Advisor!Advance(h)
  <2>1. PICK b, n : LET h == [Advisor!Pick(f, b, 1) EXCEPT !.again = TRUE]
                    IN g = [h EXCEPT !.at = n] \/ g = Advisor!Advance(h)
    BY <1>5
  <2>2. PICK k : k = Advisor!Pick(f, b, 1)
    OBVIOUS
  <2>3. PICK h : h = [k EXCEPT !.again = TRUE]
    OBVIOUS
  <2>4. g = [h EXCEPT !.at = n] \/ g = Advisor!Advance(h)
    BY <2>1, <2>2, <2>3
  <2>5. Deploying(k)
    BY <2>2, PickedIs
  <2>6. "phase" \in DOMAIN k /\ "buys" \in DOMAIN k
    BY <2>5 DEF Deploying
  <2>7. DOMAIN h = DOMAIN k /\ h.phase = k.phase /\ h.buys = k.buys
    BY <2>3, <2>6
  <2>8. Deploying(h) /\ "buy" \in Phases
    BY <2>5, <2>7 DEF Deploying, Phases
  <2>9. CASE g = [h EXCEPT !.at = n]
    <3>1. DOMAIN g = DOMAIN h /\ g.phase = h.phase /\ g.buys = h.buys
      BY <2>6, <2>7, <2>9
    <3> QED
      BY <1>1, <2>8, <3>1 DEF Deploying
  <2>10. CASE g = Advisor!Advance(h)
    BY <1>1, <2>8, <2>10, MovedIs
  <2> QED
    BY <2>4, <2>9, <2>10
<1>6. CASE g = Advisor!Advance(f) \/ \E p \in Phases : g = Advisor!Goto(f, p)
  BY <1>1, <1>4, <1>6 DEF Phases
<1> QED
  BY <1>2, <1>5, <1>6

LEMMA FillGoes ==
  ASSUME NEW f, Deploying(f)
  PROVE  Deploying(Advisor!FillStep(f))
<1>1. PICK g : g = Advisor!FillStep(f)
  OBVIOUS
<1>2. \/ \E p \in Phases : g = Advisor!Goto(f, p)
      \/ g = Advisor!Advance(f)
      \/ \E b, n : g = Advisor!Advance(Advisor!Pick(f, b, n))
  <2>1. "target" \in Phases
    BY DEF Phases
  <2> QED
    BY <1>1, <2>1, Zenon DEF Advisor!FillStep
<1>3. ASSUME NEW b, NEW n PROVE Deploying(Advisor!Advance(Advisor!Pick(f, b, n)))
  <2>1. PICK h : h = Advisor!Pick(f, b, n)
    OBVIOUS
  <2>2. Deploying(h) /\ "buy" \in Phases
    BY <2>1, PickedIs DEF Phases
  <2> QED
    BY <2>1, <2>2, MovedIs
<1>4. \A p \in Phases : Deploying(Advisor!Goto(f, p)) /\ Deploying(Advisor!Advance(f))
  BY MovedIs
<1> QED
  BY <1>1, <1>2, <1>3, <1>4 DEF Phases

LEMMA TargetGoes ==
  ASSUME NEW u, NEW f, Deploying(f)
  PROVE  Deploying(Advisor!TargetStep(u, f))
<1>1. PICK g : g = Advisor!TargetStep(u, f)
  OBVIOUS
<1>2. "sweep" \in Phases /\ "buy" \in Phases
  BY DEF Phases
<1>3. CASE f.at > Len(f.order)
  <2>1. g = Advisor!Goto(f, "sweep") \/ g = Advisor!Goto(f, "buy")
    BY <1>1, <1>3, Zenon DEF Advisor!TargetStep
  <2> QED
    BY <1>1, <1>2, <2>1, MovedIs
<1>4. CASE ~(f.at > Len(f.order))
  <2>1. PICK isin, lot, n, x, y :
          /\ isin = f.order[f.at] /\ lot = Advisor!BondOf(u, isin).lot
          /\ n = IF f.full
                 THEN Advisor!Most(0, Advisor!Least(f.picks[isin] - f.held[isin], (f.cash - f.spent) \div lot))
                 ELSE f.picks[isin]
          /\ x = f.spent + n * lot /\ y = [f.bought EXCEPT ![isin] = n]
    OBVIOUS
  <2>2. PICK h : h = [f EXCEPT !.spent = x, !.bought = y, !.buys = Advisor!Merge(f.buys, isin, n)]
    OBVIOUS
  <2>3. g = Advisor!Advance(f) \/ g = Advisor!Advance(h)
    <3>1. g = Advisor!Advance(IF n = 0 THEN f
                ELSE [f EXCEPT !.spent = @ + n * lot, !.bought[isin] = n,
                               !.buys = Advisor!Merge(@, isin, n)])
      BY <1>1, <1>4, <2>1 DEF Advisor!TargetStep
    <3>2. h = [f EXCEPT !.spent = @ + n * lot, !.bought[isin] = n,
                        !.buys = Advisor!Merge(@, isin, n)]
      BY <2>1, <2>2
    <3> QED
      BY <3>1, <3>2
  <2>4. Deploying(h)
    BY <2>2, SpentIs
  <2> QED
    BY <1>1, <1>2, <2>3, <2>4, MovedIs
<1> QED
  BY <1>3, <1>4

LEMMA SweepGoes ==
  ASSUME NEW u, NEW d, NEW f, Deploying(f)
  PROVE  Deploying(Advisor!SweepStep(u, d, f))
<1>1. PICK g : g = Advisor!SweepStep(u, d, f)
  OBVIOUS
<1>2. \/ g = Advisor!Goto(f, "buy")
      \/ \E b : g = [f EXCEPT !.spent = @ + b.lot, !.bought[b.isin] = @ + 1,
                             !.buys = Advisor!Merge(@, b.isin, 1)]
  BY <1>1, Zenon DEF Advisor!SweepStep
<1>3. ASSUME NEW b, g = [f EXCEPT !.spent = @ + b.lot, !.bought[b.isin] = @ + 1,
                                  !.buys = Advisor!Merge(@, b.isin, 1)]
      PROVE  Deploying(g)
  <2>1. PICK x, y : x = f.spent + b.lot /\ y = [f.bought EXCEPT ![b.isin] = @ + 1]
    OBVIOUS
  <2>2. g = [f EXCEPT !.spent = x, !.bought = y, !.buys = Advisor!Merge(f.buys, b.isin, 1)]
    BY <1>3, <2>1
  <2> QED
    BY <2>2, SpentIs
<1>4. Deploying(Advisor!Goto(f, "buy"))
  BY MovedIs DEF Phases
<1> QED
  BY <1>1, <1>2, <1>3, <1>4

LEMMA DeployGoes ==
  ASSUME NEW u, NEW d, NEW f, Deploying(f), f.phase # "buy"
  PROVE  Deploying(Advisor!DeployStep(u, d, f))
<1>1. CASE f.phase = "open"
  BY <1>1, OpenGoes DEF Advisor!DeployStep
<1>2. CASE f.phase = "topup"
  BY <1>2, TopUpGoes DEF Advisor!DeployStep
<1>3. CASE f.phase = "fill"
  BY <1>3, FillGoes DEF Advisor!DeployStep
<1>4. CASE f.phase = "target"
  BY <1>4, TargetGoes DEF Advisor!DeployStep
<1>5. CASE f.phase = "sweep"
  BY <1>5, SweepGoes DEF Advisor!DeployStep
<1> QED
  BY <1>1, <1>2, <1>3, <1>4, <1>5 DEF Deploying, Phases

LEMMA DeployStarts ==
  ASSUME NEW u, NEW d, NEW n, NEW had, NEW f, f = Advisor!Deploy(u, d, n, had, None)
  PROVE  Deploying(f)
<1>1. f = Advisor!Compose(u, d, n, had, <<>>)
  BY DEF Advisor!Deploy
<1>2. {"phase", "buys"} \subseteq DOMAIN f /\ f.phase = "open" /\ f.buys = <<>>
  BY <1>1 DEF Advisor!Compose
<1>3. IsSeq(<<>>) /\ DOMAIN <<>> = 1 .. 0
  BY DEF IsSeq
<1> QED
  BY <1>2, <1>3 DEF Deploying, Phases, Allocations

\* The deployment after n steps, up to m of them.
Begun == Advisor!Deploy(Advisor!Input, day, Advisor!Available, owned, None)
After(f) == IF f.phase = "buy" THEN f ELSE Advisor!DeployStep(Advisor!Input, day, f)

Frames(g, m) == g = [n \in 0 .. m |-> IF n = 0 THEN Begun ELSE After(g[n - 1])]

\* The recursion has a solution, and a deployment under way at every step of it.
LEMMA SomeFrames ==
  ASSUME NEW m \in Nat
  PROVE  \E g : Frames(g, m)
<1> DEFINE Bad == {n \in 1 .. m : ~\E g : Frames(g, n)}
<1>1. \E g : Frames(g, 0)
  <2>1. PICK g : g = [n \in 0 .. 0 |-> Begun]
    OBVIOUS
  <2>2. Frames(g, 0)
    BY <2>1 DEF Frames
  <2> QED
    BY <2>2
<1>2. Bad = {}
  <2> SUFFICES ASSUME Bad # {} PROVE FALSE
    OBVIOUS
  <2>1. PICK k \in Bad : \A n \in Bad : k <= n
    <3>1. \A i \in Bad : i \in 1 .. m
      OBVIOUS
    <3> HIDE DEF Bad
    <3> QED
      BY <3>1, SmallestNumber
  <2>2. PICK l \in Nat : l = k - 1
    OBVIOUS
  <2>3. \E g : Frames(g, l)
    <3>1. l = 0 \/ (l \in 1 .. m /\ ~(k <= l))
      BY <2>2
    <3> QED
      BY <1>1, <2>1, <3>1
  <2>4. PICK g : Frames(g, l)
    BY <2>3
  <2>5. PICK h : h = [n \in 0 .. k |-> IF n = k THEN After(g[l]) ELSE g[n]]
    OBVIOUS
  <2>6. Frames(h, k)
    <3>1. k \in 1 .. m /\ l = k - 1 /\ l \in Nat /\ k \in Nat
      BY <2>2
    <3>2. \A n \in 0 .. l : g[n] = IF n = 0 THEN Begun ELSE After(g[n - 1])
      BY <2>4 DEF Frames
    <3>3. \A n \in 0 .. k : h[n] = IF n = k THEN After(g[l]) ELSE g[n]
      BY <2>5
    <3>4. \A n \in 0 .. k : h[n] = IF n = 0 THEN Begun ELSE After(h[n - 1])
      <4> SUFFICES ASSUME NEW n \in 0 .. k
                   PROVE  h[n] = IF n = 0 THEN Begun ELSE After(h[n - 1])
        OBVIOUS
      <4>1. CASE n = 0
        BY <3>1, <3>2, <3>3, <4>1
      <4>2. CASE n = k
        <5>1. n # 0 /\ n - 1 = l /\ l \in 0 .. k /\ l # k
          BY <3>1, <4>2
        <5> QED
          BY <3>3, <4>2, <5>1
      <4>3. CASE n # 0 /\ n # k
        <5>1. n \in 0 .. l /\ n - 1 \in 0 .. k /\ n - 1 # k
          BY <3>1, <4>3
        <5>2. h[n] = g[n] /\ h[n - 1] = g[n - 1]
          BY <3>3, <4>3, <5>1
        <5> QED
          BY <3>2, <4>3, <5>1, <5>2
      <4> QED
        BY <4>1, <4>2, <4>3
    <3>5. h = [n \in 0 .. k |-> h[n]]
      BY <2>5
    <3> QED
      BY <3>4, <3>5 DEF Frames
  <2> QED
    BY <2>1, <2>6
<1> QED
  BY <1>1, <1>2

LEMMA FramesGo ==
  ASSUME NEW m \in Nat, NEW g, Frames(g, m)
  PROVE  \A n \in 0 .. m : Deploying(g[n])
<1> DEFINE Bad == {n \in 1 .. m : ~Deploying(g[n])}
<1>1. \A n \in 0 .. m : g[n] = IF n = 0 THEN Begun ELSE After(g[n - 1])
  BY DEF Frames
<1>2. Deploying(g[0])
  BY <1>1, DeployStarts DEF Begun
<1>3. Bad = {}
  <2> SUFFICES ASSUME Bad # {} PROVE FALSE
    OBVIOUS
  <2>1. PICK k \in Bad : \A n \in Bad : k <= n
    <3>1. \A i \in Bad : i \in 1 .. m
      OBVIOUS
    <3> HIDE DEF Bad
    <3> QED
      BY <3>1, SmallestNumber
  <2>2. k - 1 = 0 \/ (k - 1 \in 1 .. m /\ ~(k <= k - 1))
    OBVIOUS
  <2>3. PICK f : f = g[k - 1]
    OBVIOUS
  <2>4. Deploying(f)
    BY <1>2, <2>1, <2>2, <2>3
  <2>5. g[k] = After(f)
    BY <1>1, <2>3
  <2>6. Deploying(After(f))
    BY <2>4, DeployGoes DEF After
  <2> QED
    BY <2>1, <2>5, <2>6
<1> QED
  BY <1>2, <1>3

LEMMA DeployedIs == Deploying(Advisor!Deployed)
<1> DEFINE g == CHOOSE h : h = [n \in 0 .. Rounds |-> IF n = 0 THEN Begun ELSE After(h[n - 1])]
<1>1. Rounds \in Nat
  BY AdviceAssumption
<1>2. Frames(g, Rounds)
  <2>1. \E h : h = [n \in 0 .. Rounds |-> IF n = 0 THEN Begun ELSE After(h[n - 1])]
    BY <1>1, SomeFrames DEF Frames
  <2>2. g = [n \in 0 .. Rounds |-> IF n = 0 THEN Begun ELSE After(g[n - 1])]
    BY <2>1
  <2> QED
    BY <2>2 DEF Frames
<1>3. Advisor!Deployed = g[Rounds]
  BY DEF Advisor!Deployed, Begun, After
<1> HIDE DEF g
<1> QED
  BY <1>1, <1>2, <1>3, FramesGo

\* A list of suggestions; of two to buy with one kind and one key the position stands
\* twice in the plan.
Suggestions(s) == IsSeq(s) /\ \E n \in Nat : DOMAIN s = 1 .. n

ToBuyApart(s) ==
  /\ \A k \in DOMAIN s : s[k].kind \in ToBuy
  /\ \A j, k \in DOMAIN s :
       j # k /\ s[j].kind = s[k].kind /\ Advisor!ItemKey(s[j]) = Advisor!ItemKey(s[k]) =>
         Advisor!PlannedTwice(s[j].source)

\* A bond is bought once.
LEMMA BuysAre ==
  ASSUME NEW s, s = Advisor!BuySuggestions
  PROVE  /\ Suggestions(s)
         /\ \A k \in DOMAIN s : s[k].kind = "buy"
         /\ \A j, k \in DOMAIN s : s[j].isin = s[k].isin => j = k
<1>1. PICK f : f = Advisor!Deployed
  OBVIOUS
<1>2. s = Advisor!BuyOf(f) \/ s = <<>>
  BY <1>1, Zenon DEF Advisor!BuySuggestions
<1>3. CASE s = <<>>
  <2>1. IsSeq(s) /\ DOMAIN s = 1 .. 0
    BY <1>3 DEF IsSeq
  <2> QED
    BY <2>1 DEF Suggestions
<1>4. CASE s = Advisor!BuyOf(f)
  <2>1. PICK b : b = f.buys
    OBVIOUS
  <2>2. Allocations(b)
    BY <1>1, <2>1, DeployedIs DEF Deploying
  <2>3. s = [k \in DOMAIN b |->
               [kind |-> "buy", isin |-> b[k].isin, lots |-> b[k].lots,
                price |-> quote[b[k].isin], source |-> None, due |-> None]]
    BY <1>4, <2>1 DEF Advisor!BuyOf
  <2>4. DOMAIN s = DOMAIN b /\ \A k \in DOMAIN b : s[k].kind = "buy" /\ s[k].isin = b[k].isin
    BY <2>3
  <2>5. PICK n \in Nat : DOMAIN b = 1 .. n
    BY <2>2 DEF Allocations
  <2>6. IsSeq(s)
    <3>1. s = [k \in 1 .. n |-> s[k]]
      BY <2>3, <2>5
    <3> QED
      BY <3>1, FunctionIsSeq
  <2> QED
    BY <2>2, <2>4, <2>5, <2>6 DEF Suggestions, Allocations
<1> QED
  BY <1>2, <1>3, <1>4

\* The purchases have their bonds for keys, the reinvestments their sources.
LEMMA FreshIs ==
  ASSUME NEW budget, NEW s, s = Advisor!Fresh(budget)
  PROVE  Suggestions(s) /\ ToBuyApart(s)
<1>1. PICK b : b = Advisor!BuySuggestions
  OBVIOUS
<1>2. PICK r : r = Advisor!ReinvestSuggestions(budget)
  OBVIOUS
<1>3. s = b \o r
  BY <1>1, <1>2 DEF Advisor!Fresh
<1>4. /\ Suggestions(b)
      /\ \A k \in DOMAIN b : b[k].kind = "buy"
      /\ \A j, k \in DOMAIN b : b[j].isin = b[k].isin => j = k
  BY <1>1, BuysAre
<1>5. /\ Suggestions(r)
      /\ \A k \in DOMAIN r : r[k].kind = "reinvest"
      /\ \A j, k \in DOMAIN r : j # k /\ r[j].source = r[k].source => Advisor!PlannedTwice(r[j].source)
  BY <1>2, ReinvestedAre DEF Advisor!ReinvestSuggestions, Suggestions
<1>6. Suggestions(s)
  <2>1. IsSeq(b) /\ IsSeq(r)
    BY <1>4, <1>5 DEF Suggestions
  <2>2. IsSeq(s) /\ \E n \in Nat : DOMAIN s = 1 .. n
    BY <1>3, <2>1, Joined
  <2> QED
    BY <2>2 DEF Suggestions
<1>7. PICK m \in Nat : JoinedAt(s, b, r, m)
  BY <1>3, <1>4, <1>5, Joined DEF Suggestions
<1>8. \A k \in DOMAIN s : s[k].kind \in ToBuy
  BY <1>4, <1>5, <1>7 DEF JoinedAt, ToBuy
<1>9. ASSUME NEW j \in DOMAIN s, NEW k \in DOMAIN s, j # k, s[j].kind = s[k].kind,
             Advisor!ItemKey(s[j]) = Advisor!ItemKey(s[k])
      PROVE  Advisor!PlannedTwice(s[j].source)
  <2>1. \/ j \in DOMAIN b /\ s[j] = b[j]
        \/ j - m \in DOMAIN r /\ s[j] = r[j - m]
    BY <1>7 DEF JoinedAt
  <2>2. \/ k \in DOMAIN b /\ s[k] = b[k]
        \/ k - m \in DOMAIN r /\ s[k] = r[k - m]
    BY <1>7 DEF JoinedAt
  <2>3. CASE s[j].kind = "reinvest"
    <3>1. s[k].kind = "reinvest"
      BY <1>9, <2>3
    <3>2. j - m \in DOMAIN r /\ s[j] = r[j - m]
      BY <1>4, <2>1, <2>3
    <3>3. k - m \in DOMAIN r /\ s[k] = r[k - m]
      BY <1>4, <2>2, <3>1
    <3>4. s[j].source = s[k].source
      BY <1>9, <2>3, <3>1 DEF Advisor!ItemKey
    <3>5. j - m # k - m
      BY <1>6, <1>9 DEF Suggestions
    <3> QED
      BY <1>5, <3>2, <3>3, <3>4, <3>5
  <2>4. CASE s[j].kind # "reinvest"
    <3>1. s[k].kind # "reinvest"
      BY <1>9, <2>4
    <3>2. j \in DOMAIN b /\ s[j] = b[j] /\ k \in DOMAIN b /\ s[k] = b[k]
      BY <1>5, <2>1, <2>2, <2>4, <3>1
    <3>3. s[j].isin = s[k].isin
      BY <1>9, <2>4, <3>1 DEF Advisor!ItemKey
    <3> QED
      BY <1>4, <1>9, <3>2, <3>3
  <2> QED
    BY <2>3, <2>4
<1> QED
  BY <1>6, <1>8, <1>9 DEF ToBuyApart

\* The items of a session stand apart.
Apart(s) ==
  \A j, k \in DOMAIN s.items :
    s.items[j].id = s.items[k].id => j = k \/ Advisor!PlannedTwice(s.items[j].offer.source)

BuysOnly(s) == \A k \in DOMAIN s.items : s.items[k].offer.kind \in ToBuy

LEMMA BuiltIs ==
  ASSUME NEW s, s = Advisor!BuiltSession
  PROVE  IsSession(s) /\ BuysOnly(s) /\ Apart(s)
<1>1. PICK p : p = Advisor!Fresh(None)
  OBVIOUS
<1>2. Suggestions(p) /\ ToBuyApart(p)
  BY <1>1, FreshIs
<1>3. s = [status |-> "active",
           items |-> [k \in DOMAIN p |->
                        [offer |-> p[k], id |-> <<p[k].kind, Advisor!ItemKey(p[k])>>,
                         status |-> "pending", order |-> None]]]
  BY <1>1 DEF Advisor!BuiltSession, Advisor!SessionOf
<1>4. PICK e : e = [k \in DOMAIN p |->
                      [offer |-> p[k], id |-> <<p[k].kind, Advisor!ItemKey(p[k])>>,
                       status |-> "pending", order |-> None]]
  OBVIOUS
<1>5. s.items = e /\ {"status", "items"} \subseteq DOMAIN s
  BY <1>3, <1>4
<1>6. /\ DOMAIN e = DOMAIN p
      /\ \A k \in DOMAIN p : /\ e[k].offer = p[k] /\ ItemFields \subseteq DOMAIN e[k]
                             /\ e[k].id = <<p[k].kind, Advisor!ItemKey(p[k])>>
  BY <1>4 DEF ItemFields
<1>7. IsSession(s)
  BY <1>2, <1>5, <1>6 DEF IsSession, Suggestions
<1>8. BuysOnly(s)
  BY <1>2, <1>5, <1>6 DEF BuysOnly, ToBuyApart
<1>9. Apart(s)
  <2> SUFFICES ASSUME NEW j \in DOMAIN p, NEW k \in DOMAIN p, e[j].id = e[k].id, j # k
               PROVE  Advisor!PlannedTwice(e[j].offer.source)
    BY <1>5, <1>6 DEF Apart
  <2>1. p[j].kind = p[k].kind /\ Advisor!ItemKey(p[j]) = Advisor!ItemKey(p[k])
    BY <1>6
  <2> QED
    BY <1>2, <1>6, <2>1 DEF ToBuyApart
<1> QED
  BY <1>7, <1>8, <1>9

LEMMA SameStand ==
  ASSUME NEW s, NEW t, IsSession(s), SameItems(s, t), BuysOnly(s), Apart(s)
  PROVE  IsSession(t) /\ BuysOnly(t) /\ Apart(t) /\ (s.items # <<>> => t.items # <<>>)
BY DEF SameItems, BuysOnly, Apart

LEMMA RemindersAre == Suggestions(Advisor!Reminders)
<1>1. PICK all : all = Advisor!EffectivePositions
  OBVIOUS
<1>2. PICK due : due = {k \in DOMAIN all : Advisor!SubmitDue(all[k]) \/ Advisor!AwarenessDue(all[k])}
  OBVIOUS
<1>3. PICK told : told = Advisor!Among(all, due)
  OBVIOUS
<1>4. PICK r : r = Advisor!Reminders
  OBVIOUS
<1>5. r = [k \in DOMAIN told |-> Advisor!Reminder(told[k])]
  BY <1>1, <1>2, <1>3, <1>4, Zenon DEF Advisor!Reminders
<1>6. PICK n \in Nat : DOMAIN all = 1 .. n
  BY <1>1, PositionsAre
<1>7. \A i \in due : i \in 1 .. n
  BY <1>2, <1>6
<1>8. Chosen(told, all, due)
  BY <1>3, <1>7, ChosenIs
<1>9. PICK m \in Nat : DOMAIN told = 1 .. m
  BY <1>8 DEF Chosen
<1>10. r = [k \in 1 .. m |-> r[k]] /\ DOMAIN r = 1 .. m
  BY <1>5, <1>9
<1>11. IsSeq(r)
  BY <1>10, FunctionIsSeq
<1> QED
  BY <1>4, <1>10, <1>11 DEF Suggestions

AdviceInv ==
  /\ IsSession(session)
  /\ session = Advisor!NoSession \/ session.items # <<>>
  /\ BuysOnly(session) /\ Apart(session)

LEMMA AdviceBegins == Advisor!Init => AdviceInv
<1> SUFFICES ASSUME Advisor!Init PROVE AdviceInv
  OBVIOUS
<1>1. /\ session = Advisor!NoSession /\ session.items = <<>>
      /\ {"status", "items"} \subseteq DOMAIN session
  BY DEF Advisor!Init, Advisor!NoSession
<1>2. DOMAIN session.items = 1 .. 0
  BY <1>1
<1> QED
  BY <1>1, <1>2 DEF AdviceInv, IsSession, BuysOnly, Apart

\* A session with the items of one that stands, another status or none of theirs.
LEMMA SessionStands ==
  ASSUME AdviceInv, NEW t, SameItems(session, t), session = Advisor!NoSession => t = session,
         session' = t
  PROVE  AdviceInv'
<1>1. IsSession(t) /\ BuysOnly(t) /\ Apart(t) /\ (session.items # <<>> => t.items # <<>>)
  BY SameStand DEF AdviceInv
<1>2. t = Advisor!NoSession \/ t.items # <<>>
  BY <1>1 DEF AdviceInv
<1> QED
  BY <1>1, <1>2 DEF AdviceInv, IsSession, BuysOnly, Apart, Advisor!NoSession

LEMMA SessionOpens ==
  ASSUME NEW t, t = Advisor!BuiltSession, t.items # <<>>, session' = t
  PROVE  AdviceInv'
<1>1. IsSession(t) /\ BuysOnly(t) /\ Apart(t)
  BY BuiltIs
<1> QED
  BY <1>1 DEF AdviceInv, IsSession, BuysOnly, Apart

\* The steps of Advisor!Next that change the session.
LEMMA AdvisedStands ==
  ASSUME AdviceInv, Advisor!GetAdvice
  PROVE  AdviceInv'
<1>1. PICK q : q = Advisor!Refreshed(session)
  OBVIOUS
<1>2. PICK r : r = Advisor!Refreshed(q)
  OBVIOUS
<1>3. session' = q \/ session' = r
  BY <1>1, <1>2 DEF Advisor!GetAdvice, Advisor!Advised
<1>4. SameItems(session, q) /\ IsSession(q) /\ (q.status = session.status \/ q.status = "completed")
      /\ (~Advisor!IsActive(session) => q = session)
  BY <1>1, RefreshedIs DEF AdviceInv, SameItems
<1>5. SameItems(q, r) /\ (r.status = q.status \/ r.status = "completed")
      /\ (~Advisor!IsActive(q) => r = q)
  BY <1>2, <1>4, RefreshedIs
<1>6. SameItems(session, r)
  BY <1>4, <1>5, SameTwice
<1>7. session = Advisor!NoSession => q = session /\ r = session
  BY <1>4, <1>5 DEF Advisor!IsActive, Advisor!NoSession
<1> QED
  BY <1>3, <1>4, <1>6, <1>7, SessionStands

LEMMA CompletedStands ==
  ASSUME AdviceInv, session' = Advisor!CompleteIfNoPending(session)
  PROVE  AdviceInv'
<1>1. PICK t : t = Advisor!CompleteIfNoPending(session)
  OBVIOUS
<1>2. SameItems(session, t)
  BY <1>1, CompleteIs DEF AdviceInv
<1>3. t = session \/ session.status = "active"
  BY <1>1 DEF Advisor!CompleteIfNoPending, Advisor!IsActive
<1>4. session = Advisor!NoSession => t = session
  BY <1>3 DEF Advisor!NoSession
<1> QED
  BY <1>1, <1>2, <1>4, SessionStands

LEMMA ItemStands ==
  ASSUME AdviceInv, Advisor!IsActive(session), NEW j \in DOMAIN session.items,
         Advisor!SkipItem(session.items[j].id) \/ Advisor!PlaceOrder(session.items[j].id)
  PROVE  AdviceInv'
<1>1. PICK id : id = session.items[j].id
  OBVIOUS
<1>2. PICK k : k = Advisor!Found(session, id)
  OBVIOUS
<1>3. k \in DOMAIN session.items /\ session.items[k].id = id
  BY <1>1, <1>2, FoundIs DEF AdviceInv
<1>4. PICK old : old = session.items[k]
  OBVIOUS
<1>5. ItemFields \subseteq DOMAIN old
  BY <1>3, <1>4 DEF AdviceInv, IsSession
<1>6. PICK item :
        /\ item = [old EXCEPT !.status = "skipped"] \/ \E n : item = [old EXCEPT !.status = "placed", !.order = n]
        /\ session' = Advisor!WithItem(id, item)
  BY <1>1, <1>2, <1>4, Zenon DEF Advisor!SkipItem, Advisor!PlaceOrder
<1>7. DOMAIN item = DOMAIN old /\ item.id = old.id /\ item.offer = old.offer
  <2>1. ASSUME item = [old EXCEPT !.status = "skipped"]
        PROVE  DOMAIN item = DOMAIN old /\ item.id = old.id /\ item.offer = old.offer
    BY <1>5, <2>1 DEF ItemFields
  <2>2. ASSUME NEW n, item = [old EXCEPT !.status = "placed", !.order = n]
        PROVE  DOMAIN item = DOMAIN old /\ item.id = old.id /\ item.offer = old.offer
    BY <1>5, <2>2 DEF ItemFields
  <2> QED
    BY <1>6, <2>1, <2>2
<1>8. PICK t : t = Advisor!CompleteIfNoPending([session EXCEPT !.items[k] = item])
  OBVIOUS
<1>9. session' = t
  BY <1>2, <1>6, <1>8 DEF Advisor!WithItem
<1>10. SameItems(session, t)
  BY <1>3, <1>4, <1>5, <1>7, <1>8, ItemIs DEF AdviceInv
<1>11. session # Advisor!NoSession
  BY DEF Advisor!IsActive, Advisor!NoSession
<1> QED
  BY <1>9, <1>10, <1>11, SessionStands

LEMMA AdviceStep == AdviceInv /\ [Advisor!Next]_(Advisor!vars) => AdviceInv'
<1> SUFFICES ASSUME AdviceInv, [Advisor!Next]_(Advisor!vars) PROVE AdviceInv'
  OBVIOUS
<1>1. CASE UNCHANGED session
  BY <1>1 DEF AdviceInv, IsSession, BuysOnly, Apart
<1>2. CASE Advisor!GetAdvice
  BY <1>2, AdvisedStands
<1>3. CASE Advisor!CreateSession
  <2>1. PICK t : /\ t = Advisor!BuiltSession
                 /\ session' = IF t.items # <<>> THEN t ELSE Advisor!CompleteIfNoPending(session)
    BY <1>3 DEF Advisor!CreateSession
  <2>2. CASE t.items # <<>>
    BY <2>1, <2>2, SessionOpens
  <2>3. CASE t.items = <<>>
    BY <2>1, <2>3, CompletedStands
  <2> QED
    BY <2>2, <2>3
<1>4. CASE Advisor!RefreshSession
  <2>1. PICK t : t = Advisor!BuiltSession /\ t.items # <<>> /\ session' = t
    BY <1>4 DEF Advisor!RefreshSession
  <2> QED
    BY <2>1, SessionOpens
<1>5. CASE Advisor!CancelSession
  <2>1. session # Advisor!NoSession
    BY <1>5 DEF Advisor!CancelSession
  <2>2. PICK t : t = [session EXCEPT !.status = "cancelled"]
    OBVIOUS
  <2>3. session' = t
    BY <1>5, <2>2 DEF Advisor!CancelSession
  <2>4. PICK e : e = session.items
    OBVIOUS
  <2>5. t.items = e /\ DOMAIN t = DOMAIN session
    BY <2>2, <2>4 DEF AdviceInv, IsSession
  <2>6. SameItems(session, t)
    BY <2>4, <2>5 DEF SameItems, AdviceInv, IsSession
  <2> QED
    BY <2>1, <2>3, <2>6, SessionStands
<1>6. CASE Advisor!IsActive(session)
           /\ \E k \in DOMAIN session.items :
                Advisor!SkipItem(session.items[k].id) \/ Advisor!PlaceOrder(session.items[k].id)
  BY <1>6, ItemStands
<1>7. CASE \/ Advisor!NextDay
           \/ \E isin \in ISINs : Advisor!Move(isin)
           \/ \E k \in DOMAIN OfferedBonds : Advisor!Redeem(OfferedBonds[k])
           \/ \E o \in orders : Advisor!FillOrder(o) \/ Advisor!CancelOrder(o)
  BY <1>1, <1>7 DEF Advisor!NextDay, Advisor!Move, Advisor!Redeem, Advisor!FillOrder, Advisor!CancelOrder
<1> QED
  BY <1>1, <1>2, <1>3, <1>4, <1>5, <1>6, <1>7 DEF Advisor!Next, Advisor!vars

\* A session offers only what can be bought, has items unless there is none, and two of
\* its items share an id only if the plan has a bond twice.
THEOREM AdviceInvariant == Advisor!Spec => []AdviceInv
BY AdviceBegins, AdviceStep, PTL DEF Advisor!Spec

\* ItemsAreDistinct: an item is found by its id, whatever was refreshed, skipped,
\* ordered or redeemed before (itemKey, FindSessionItem).
THEOREM ItemsStayApart == Advisor!Spec => []ItemsAreDistinct
<1>1. AdviceInv => ItemsAreDistinct
  BY DEF AdviceInv, Apart, ItemsAreDistinct, Advisor!ItemsAreDistinct
<1> QED
  BY <1>1, AdviceInvariant, PTL

\* What an answer begins with.
LEMMA OfferedIs ==
  ASSUME AdviceInv, NEW budget, NEW s, s = Advisor!Offered(session, budget)
  PROVE  /\ IsSeq(s) /\ \A k \in DOMAIN s : s[k].kind \in ToBuy
         /\ s = <<>> => Advisor!Fresh(budget) = <<>>
<1>1. PICK q : q = Advisor!Refreshed(session)
  OBVIOUS
<1>2. PICK r : r = Advisor!Refreshed(q)
  OBVIOUS
<1>3. SameItems(session, q) /\ IsSession(q) /\ (~Advisor!IsActive(session) => q = session)
  BY <1>1, RefreshedIs DEF AdviceInv, SameItems
<1>4. SameItems(q, r) /\ (~Advisor!IsActive(q) => r = q)
  BY <1>2, <1>3, RefreshedIs
<1>5. SameItems(session, r)
  BY <1>3, <1>4, SameTwice
<1>6. IsSession(r) /\ BuysOnly(r)
  BY <1>5, SameStand DEF AdviceInv
<1>7. CASE ~Advisor!IsActive(r)
  <2>1. s = Advisor!Fresh(budget)
    BY <1>1, <1>2, <1>7 DEF Advisor!Offered
  <2> QED
    BY <2>1, FreshIs DEF Suggestions, ToBuyApart
<1>8. CASE Advisor!IsActive(r)
  <2>1. Advisor!Pending(r) # {}
    <3>1. session # Advisor!NoSession
      BY <1>3, <1>4, <1>8 DEF Advisor!IsActive, Advisor!NoSession
    <3>2. IsSession(session) /\ session.items # <<>>
      BY <3>1 DEF AdviceInv
    <3> QED
      BY <1>1, <1>2, <1>8, <3>2, ActiveOffers
  <2>2. PICK e, P : e = r.items /\ P = Advisor!Pending(r)
    OBVIOUS
  <2>3. PICK p : p = Advisor!Among(e, P)
    OBVIOUS
  <2>4. s = [k \in DOMAIN p |-> p[k].offer]
    BY <1>1, <1>2, <1>8, <2>2, <2>3 DEF Advisor!Offered
  <2>5. PICK n \in Nat : DOMAIN e = 1 .. n
    BY <1>6, <2>2 DEF IsSession
  <2>6. P \subseteq DOMAIN e
    BY <2>2 DEF Advisor!Pending
  <2>7. Chosen(p, e, P)
    <3>1. \A i \in P : i \in 1 .. n
      BY <2>5, <2>6
    <3> QED
      BY <2>3, <3>1, ChosenIs
  <2>8. PICK m \in Nat : DOMAIN p = 1 .. m
    BY <2>7 DEF Chosen
  <2>9. IsSeq(s)
    <3>1. s = [k \in 1 .. m |-> s[k]]
      BY <2>4, <2>8
    <3> QED
      BY <3>1, FunctionIsSeq
  <2>10. \A k \in DOMAIN s : s[k].kind \in ToBuy
    <3> SUFFICES ASSUME NEW k \in DOMAIN s PROVE s[k].kind \in ToBuy
      OBVIOUS
    <3>1. k \in DOMAIN p /\ s[k] = p[k].offer
      BY <2>4
    <3>2. PICK i \in P : p[k] = e[i]
      BY <2>7, <3>1 DEF Chosen
    <3>3. e[i].offer.kind \in ToBuy
      BY <1>6, <2>2, <2>6 DEF BuysOnly
    <3> QED
      BY <3>1, <3>2, <3>3
  <2>11. s # <<>>
    <3>1. 1 \in DOMAIN p
      BY <2>1, <2>2, <2>7 DEF Chosen
    <3>2. 1 \in DOMAIN s
      BY <2>4, <3>1
    <3> QED
      BY <3>2
  <2> QED
    BY <2>9, <2>10, <2>11
<1> QED
  BY <1>7, <1>8

\* What is offered, followed by anything, is empty or has something to buy.
LEMMA SomethingToBuy ==
  ASSUME NEW s, IsSeq(s), \A k \in DOMAIN s : s[k].kind \in ToBuy,
         NEW t, IsSeq(t), NEW all, all = s \o t, Advisor!Actionable(all) = {}
  PROVE  s = <<>>
<1>1. PICK m \in Nat : JoinedAt(all, s, t, m)
  BY Joined
<1>2. \A k \in DOMAIN s : k \in Advisor!Actionable(all)
  BY <1>1 DEF JoinedAt, Advisor!Actionable, ToBuy
<1>3. DOMAIN s = {}
  BY <1>2
<1>4. PICK S : s \in Seq(S)
  BY DEF IsSeq
<1>5. s \in Seq(S) /\ DOMAIN s = 1 .. Len(s) /\ Len(s) \in Nat
  BY <1>4
<1>6. Len(s) = 0
  BY <1>3, <1>5
<1> QED
  BY <1>5, <1>6

LEMMA AdviceStands ==
  ASSUME AdviceInv, Advisor!GetAdvice, Advisor!Actionable(shown') = {}
  PROVE  \E budget \in Budgets \cup {None} : Advisor!Fresh(budget) = <<>>
<1>1. PICK budget \in Budgets \cup {None} :
        shown' = Advisor!Offered(session, budget) \o Advisor!ReinvestWatches(budget) \o Advisor!Reminders
  BY DEF Advisor!GetAdvice
<1>2. PICK s, w, r : /\ s = Advisor!Offered(session, budget)
                     /\ w = Advisor!ReinvestWatches(budget)
                     /\ r = Advisor!Reminders
  OBVIOUS
<1>3. PICK all, more : all = s \o w \o r /\ more = s \o w
  OBVIOUS
<1>4. shown' = all /\ all = more \o r
  BY <1>1, <1>2, <1>3
<1>5. IsSeq(s) /\ (\A k \in DOMAIN s : s[k].kind \in ToBuy) /\ (s = <<>> => Advisor!Fresh(budget) = <<>>)
  BY <1>2, OfferedIs
<1>6. IsSeq(w)
  BY <1>2, ReinvestedAre DEF Advisor!ReinvestWatches
<1>7. IsSeq(r)
  BY <1>2, RemindersAre DEF Suggestions
<1>8. IsSeq(more)
  BY <1>3, <1>5, <1>6, Joined
<1>9. Advisor!Actionable(all) = {}
  BY <1>4 DEF Advisor!Actionable
<1>10. PICK m \in Nat : JoinedAt(all, more, r, m)
  BY <1>4, <1>7, <1>8, Joined
<1>11. Advisor!Actionable(more) = {}
  BY <1>9, <1>10 DEF JoinedAt, Advisor!Actionable
<1>12. s = <<>>
  BY <1>3, <1>5, <1>6, <1>11, SomethingToBuy
<1> QED
  BY <1>5, <1>12

\* AdviceIsNeverMuted: an answer without anything to buy is given only when nothing
\* computed afresh would be offered (Advise and SyncActiveSession).
THEOREM AdviceIsGiven == Advisor!Spec => AdviceIsNeverMuted
<1> DEFINE Given == shown' # None /\ Advisor!Actionable(shown') = {} =>
                      \E budget \in Budgets \cup {None} : Advisor!Fresh(budget) = <<>>
<1>1. AdviceInv /\ [Advisor!Next]_(Advisor!vars) => [Given]_(Advisor!vars)
  <2> SUFFICES ASSUME AdviceInv, Advisor!Next, shown' # None, Advisor!Actionable(shown') = {}
               PROVE  \E budget \in Budgets \cup {None} : Advisor!Fresh(budget) = <<>>
    OBVIOUS
  <2>1. Advisor!GetAdvice
    BY DEF Advisor!Next, Advisor!NextDay, Advisor!CreateSession, Advisor!RefreshSession,
           Advisor!CancelSession, Advisor!Turn, Advisor!Move, Advisor!Redeem, Advisor!SkipItem,
           Advisor!PlaceOrder, Advisor!FillOrder, Advisor!CancelOrder
  <2> QED
    BY <2>1, AdviceStands
<1> HIDE DEF Given
<1>2. Advisor!Spec => [][Given]_(Advisor!vars)
  BY <1>1, AdviceInvariant, PTL DEF Advisor!Spec
<1> QED
  BY <1>2 DEF AdviceIsNeverMuted, Advisor!AdviceIsNeverMuted, Given
=============================================================================
