---------------------------- MODULE SumTheorems ----------------------------
(* Sums of the values of a function over a finite set (SumFunctionOnSet of  *)
(* Functions), for the amounts, quantities and costs the other modules add  *)
(* up.  The provers cannot instantiate induction over sets, so each fact is *)
(* proved from a smallest set for which it would fail.                      *)
EXTENDS Integers, Functions, FiniteSetTheorems, TLAPS

\* A non-empty family of subsets of a finite set has a smallest member.
LEMMA SmallestSet ==
    ASSUME NEW S, IsFiniteSet(S), NEW B \in SUBSET SUBSET S, B # {}
    PROVE  \E m \in B : \A n \in B : n \subseteq m => n = m
<1>1. FiniteSubsetsOf(S) = SUBSET S
  BY FS_FiniteSubsetsOfFinite
<1>2. IsWellFoundedOn(StrictSubsetOrdering(S), SUBSET S)
  BY <1>1, FS_StrictSubsetOrderingWellFounded
<1>3. PICK m \in B : \A n \in B : <<n, m>> \notin StrictSubsetOrdering(S)
  BY <1>2, WFMin
<1>4. QED  BY <1>3 DEF StrictSubsetOrdering

-----------------------------------------------------------------------------
(* The recursive function behind the operator *)

Pick(s) == CHOOSE x \in s : TRUE

IsTable(f, S, g) ==
    g = [s \in SUBSET S |-> IF s = {} THEN 0 ELSE f[Pick(s)] + g[s \ {Pick(s)}]]

Table(f, S) == CHOOSE g : IsTable(f, S, g)

\* A sum is the last entry of the table of partial sums.
LEMMA SumIsTable ==
    ASSUME NEW f, NEW S
    PROVE  SumFunctionOnSet(f, S) = Table(f, S)[S]
BY DEF SumFunctionOnSet, FoldFunctionOnSet, MapThenFoldSet, IsTable, Table, Pick

\* What is picked is in the set.
LEMMA PickIn == ASSUME NEW s, s # {} PROVE Pick(s) \in s
BY DEF Pick

\* An entry adds the value picked to the entry of the rest.
LEMMA TableStep ==
    ASSUME NEW f, NEW S, NEW g, IsTable(f, S, g), NEW s \in SUBSET S
    PROVE  g[s] = IF s = {} THEN 0 ELSE f[Pick(s)] + g[s \ {Pick(s)}]
BY DEF IsTable

\* Two tables agree wherever both are defined.
LEMMA TablesAgree ==
    ASSUME NEW f, NEW S, IsFiniteSet(S), NEW T,
           NEW g, IsTable(f, S, g), NEW h, IsTable(f, T, h),
           NEW s, s \subseteq S, s \subseteq T
    PROVE  g[s] = h[s]
<1> DEFINE B == {u \in SUBSET S : u \subseteq T /\ g[u] # h[u]}
<1> SUFFICES ASSUME s \in B PROVE FALSE
  OBVIOUS
<1>1. PICK m \in B : \A n \in B : n \subseteq m => n = m
  <2>1. B \in SUBSET SUBSET S /\ B # {}
    OBVIOUS
  <2> HIDE DEF B
  <2>2. QED  BY <2>1, SmallestSet
<1>2. g[m] = IF m = {} THEN 0 ELSE f[Pick(m)] + g[m \ {Pick(m)}]
  BY TableStep
<1>3. h[m] = IF m = {} THEN 0 ELSE f[Pick(m)] + h[m \ {Pick(m)}]
  BY TableStep
<1>4. CASE m = {}
  BY <1>2, <1>3, <1>4
<1>5. CASE m # {}
  <2>1. Pick(m) \in m
    BY <1>5, PickIn
  <2>2. m \ {Pick(m)} \notin B
    BY <1>1, <2>1
  <2>3. g[m \ {Pick(m)}] = h[m \ {Pick(m)}]
    BY <2>2
  <2>4. QED  BY <1>2, <1>3, <2>3
<1>6. QED  BY <1>4, <1>5

\* Every finite set has a table.
LEMMA TableExists ==
    ASSUME NEW f, NEW S, IsFiniteSet(S)
    PROVE  IsTable(f, S, Table(f, S))
<1> DEFINE B == {u \in SUBSET S : ~IsTable(f, u, Table(f, u))}
<1> SUFFICES ASSUME S \in B PROVE FALSE
  OBVIOUS
<1>1. PICK m \in B : \A n \in B : n \subseteq m => n = m
  <2>1. B \in SUBSET SUBSET S /\ B # {}
    OBVIOUS
  <2> HIDE DEF B
  <2>2. QED  BY <2>1, SmallestSet
<1>2. IsFiniteSet(m)
  BY FS_Subset
<1>3. \A u \in SUBSET m : u # m => IsTable(f, u, Table(f, u))
  BY <1>1
<1> DEFINE g == [s \in SUBSET m |->
                    IF s = {} THEN 0 ELSE f[Pick(s)] + Table(f, s \ {Pick(s)})[s \ {Pick(s)}]]
<1>4. ASSUME NEW s \in SUBSET m, s # {}
      PROVE  g[s \ {Pick(s)}] = Table(f, s \ {Pick(s)})[s \ {Pick(s)}]
  <2> DEFINE u == s \ {Pick(s)}
  <2>1. u \in SUBSET m /\ u # m
    BY <1>4, PickIn
  <2>2. IsTable(f, u, Table(f, u)) /\ IsFiniteSet(u)
    BY <1>2, <1>3, <2>1, FS_Subset
  <2>3. Table(f, u)[u] = IF u = {} THEN 0 ELSE f[Pick(u)] + Table(f, u)[u \ {Pick(u)}]
    <3> HIDE DEF u
    <3>1. u \in SUBSET u
      OBVIOUS
    <3>2. QED  BY <2>2, <3>1, TableStep
  <2>4. g[u] = IF u = {} THEN 0 ELSE f[Pick(u)] + Table(f, u \ {Pick(u)})[u \ {Pick(u)}]
    BY <2>1
  <2>5. CASE u = {}
    BY <2>3, <2>4, <2>5
  <2>6. CASE u # {}
    <3> DEFINE v == u \ {Pick(u)}
    <3>1. v \in SUBSET m /\ v # m
      BY <2>1
    <3>2. IsTable(f, v, Table(f, v))
      BY <1>3, <3>1
    <3>3. Table(f, u)[v] = Table(f, v)[v]
      BY <2>2, <3>2, TablesAgree
    <3>4. QED  BY <2>3, <2>4, <2>6, <3>3
  <2>7. QED  BY <2>5, <2>6
<1>5. g = [s \in SUBSET m |-> IF s = {} THEN 0 ELSE f[Pick(s)] + g[s \ {Pick(s)}]]
  <2>1. \A s \in SUBSET m :
            g[s] = IF s = {} THEN 0 ELSE f[Pick(s)] + g[s \ {Pick(s)}]
    BY <1>4
  <2> HIDE DEF g
  <2>2. DOMAIN g = SUBSET m /\ g = [s \in SUBSET m |-> g[s]]
    BY DEF g
  <2>3. QED  BY <2>1, <2>2
<1>6. IsTable(f, m, g)
  <2> HIDE DEF g
  <2> QED  BY <1>5 DEF IsTable
<1>7. IsTable(f, m, Table(f, m))
  <2> HIDE DEF g
  <2> QED  BY <1>6 DEF Table
<1>8. QED  BY <1>1, <1>7

-----------------------------------------------------------------------------
(* Sums *)

\* Nothing adds up to nothing.
LEMMA SumEmpty == ASSUME NEW f PROVE SumFunctionOnSet(f, {}) = 0
<1>1. IsTable(f, {}, Table(f, {}))
  BY TableExists, FS_EmptySet
<1>2. Table(f, {})[{}] = 0
  BY <1>1, TableStep
<1>3. QED  BY <1>2, SumIsTable

\* A sum is one of the values and the sum of the rest.
LEMMA SumPick ==
    ASSUME NEW f, NEW S, IsFiniteSet(S), S # {}
    PROVE  SumFunctionOnSet(f, S) = f[Pick(S)] + SumFunctionOnSet(f, S \ {Pick(S)})
<1> DEFINE u == S \ {Pick(S)}
<1>1. IsFiniteSet(u) /\ u \subseteq S
  BY FS_RemoveElement
<1>2. IsTable(f, S, Table(f, S)) /\ IsTable(f, u, Table(f, u))
  BY <1>1, TableExists
<1>3. Table(f, S)[u] = Table(f, u)[u]
  BY <1>1, <1>2, TablesAgree
<1>4. Table(f, S)[S] = f[Pick(S)] + Table(f, S)[u]
  BY <1>2, TableStep
<1>5. QED  BY <1>3, <1>4, SumIsTable

\* Integers add up to an integer.
LEMMA SumInt ==
    ASSUME NEW f, NEW S, IsFiniteSet(S), \A x \in S : f[x] \in Int
    PROVE  SumFunctionOnSet(f, S) \in Int
<1> DEFINE B == {u \in SUBSET S : SumFunctionOnSet(f, u) \notin Int}
<1> SUFFICES ASSUME S \in B PROVE FALSE
  OBVIOUS
<1>1. PICK m \in B : \A n \in B : n \subseteq m => n = m
  <2>1. B \in SUBSET SUBSET S /\ B # {}
    OBVIOUS
  <2> HIDE DEF B
  <2>2. QED  BY <2>1, SmallestSet
<1>2. m # {}
  BY SumEmpty
<1>3. Pick(m) \in m /\ IsFiniteSet(m)
  BY <1>2, PickIn, FS_Subset
<1>4. SumFunctionOnSet(f, m \ {Pick(m)}) \in Int
  BY <1>1, <1>3
<1>5. f[Pick(m)] \in Int
  BY <1>3
<1>6. SumFunctionOnSet(f, m) = f[Pick(m)] + SumFunctionOnSet(f, m \ {Pick(m)})
  BY <1>2, <1>3, SumPick
<1>7. QED  BY <1>4, <1>5, <1>6

\* Any element can be taken out first.
LEMMA SumRemove ==
    ASSUME NEW f, NEW S, IsFiniteSet(S), \A x \in S : f[x] \in Int, NEW e \in S
    PROVE  SumFunctionOnSet(f, S) = f[e] + SumFunctionOnSet(f, S \ {e})
<1> DEFINE Holds(u, d) == SumFunctionOnSet(f, u) = f[d] + SumFunctionOnSet(f, u \ {d})
           B == {u \in SUBSET S : \E d \in u : ~Holds(u, d)}
<1> SUFFICES ASSUME S \in B PROVE FALSE
  OBVIOUS
<1>1. PICK m \in B : \A n \in B : n \subseteq m => n = m
  <2>1. B \in SUBSET SUBSET S /\ B # {}
    OBVIOUS
  <2> HIDE DEF B
  <2>2. QED  BY <2>1, SmallestSet
<1>2. PICK d \in m : ~Holds(m, d)
  OBVIOUS
<1> DEFINE p == Pick(m)
<1>3. p \in m /\ IsFiniteSet(m) /\ m \subseteq S
  BY PickIn, FS_Subset
<1>4. Holds(m, p)
  BY <1>3, SumPick
<1>5. p # d
  BY <1>2, <1>4
<1>6. Holds(m \ {p}, d) /\ Holds(m \ {d}, p)
  <2>1. m \ {p} \notin B /\ m \ {d} \notin B
    BY <1>1, <1>2, <1>3
  <2>2. m \ {p} \in SUBSET S /\ m \ {d} \in SUBSET S /\ d \in m \ {p} /\ p \in m \ {d}
    BY <1>2, <1>3, <1>5
  <2> HIDE DEF p, Holds
  <2>3. QED  BY <2>1, <2>2
<1>7. (m \ {d}) \ {p} = (m \ {p}) \ {d}
  OBVIOUS
<1>8. /\ f[p] \in Int /\ f[d] \in Int
      /\ SumFunctionOnSet(f, (m \ {p}) \ {d}) \in Int
  <2>1. IsFiniteSet((m \ {p}) \ {d})
    BY <1>3, FS_RemoveElement
  <2>2. QED  BY <1>2, <1>3, <2>1, SumInt
<1>9. Holds(m, d)
  <2> HIDE DEF p
  <2> DEFINE w == SumFunctionOnSet(f, (m \ {p}) \ {d})
  <2>1. SumFunctionOnSet(f, m \ {p}) = f[d] + w /\ SumFunctionOnSet(f, m \ {d}) = f[p] + w
    BY <1>6, <1>7, Zenon
  <2>2. SumFunctionOnSet(f, m) = f[p] + (f[d] + w)
    BY <1>4, <2>1, Zenon
  <2>3. f[p] + (f[d] + w) = f[d] + (f[p] + w)
    <3> HIDE DEF w
    <3>1. w \in Int
      BY <1>8 DEF w
    <3>2. QED  BY <1>8, <3>1
  <2>4. QED  BY <2>1, <2>2, <2>3, Zenon
<1>10. QED  BY <1>2, <1>9

\* What an element brings in.
LEMMA SumAdd ==
    ASSUME NEW f, NEW S, IsFiniteSet(S), NEW e, e \notin S,
           \A x \in S \cup {e} : f[x] \in Int
    PROVE  SumFunctionOnSet(f, S \cup {e}) = SumFunctionOnSet(f, S) + f[e]
<1>1. IsFiniteSet(S \cup {e}) /\ (S \cup {e}) \ {e} = S
  BY FS_AddElement
<1>2. SumFunctionOnSet(f, S) \in Int /\ f[e] \in Int
  BY SumInt
<1>3. SumFunctionOnSet(f, S \cup {e}) = f[e] + SumFunctionOnSet(f, (S \cup {e}) \ {e})
  BY <1>1, SumRemove
<1>4. f[e] + SumFunctionOnSet(f, S) = SumFunctionOnSet(f, S) + f[e]
  BY <1>2
<1>5. QED  BY <1>1, <1>3, <1>4, Zenon

\* A single value.
LEMMA SumSingleton ==
    ASSUME NEW f, NEW e, f[e] \in Int
    PROVE  SumFunctionOnSet(f, {e}) = f[e]
<1>1. {} \cup {e} = {e} /\ IsFiniteSet({})
  BY FS_EmptySet
<1>2. SumFunctionOnSet(f, {} \cup {e}) = SumFunctionOnSet(f, {}) + f[e]
  BY <1>1, SumAdd
<1>3. QED  BY <1>1, <1>2, SumEmpty

\* The sum of two sets that share nothing.
LEMMA SumDisjoint ==
    ASSUME NEW f, NEW S, IsFiniteSet(S), NEW T, IsFiniteSet(T), S \cap T = {},
           \A x \in S \cup T : f[x] \in Int
    PROVE  SumFunctionOnSet(f, S \cup T) = SumFunctionOnSet(f, S) + SumFunctionOnSet(f, T)
<1> DEFINE Holds(u) == SumFunctionOnSet(f, S \cup u)
                         = SumFunctionOnSet(f, S) + SumFunctionOnSet(f, u)
           B == {u \in SUBSET T : ~Holds(u)}
<1> SUFFICES ASSUME T \in B PROVE FALSE
  OBVIOUS
<1>1. PICK m \in B : \A n \in B : n \subseteq m => n = m
  <2>1. B \in SUBSET SUBSET T /\ B # {}
    OBVIOUS
  <2> HIDE DEF B
  <2>2. QED  BY <2>1, SmallestSet
<1>2. SumFunctionOnSet(f, S) \in Int
  BY SumInt
<1>3. m # {}
  <2>1. S \cup {} = S
    OBVIOUS
  <2>2. Holds({})
    BY <1>2, <2>1, SumEmpty
  <2>3. QED  BY <1>1, <2>2
<1>4. PICK e : e \in m
  BY <1>3
<1> DEFINE u == m \ {e}
<1>5. u \in SUBSET T /\ u # m /\ e \notin u /\ e \notin S /\ e \in T /\ u \cup {e} = m
  BY <1>4
<1>6. Holds(u)
  <2> HIDE DEF Holds, u
  <2>1. QED  BY <1>1, <1>5
<1>7. IsFiniteSet(u) /\ IsFiniteSet(S \cup u)
  BY <1>5, FS_Subset, FS_Union
<1>8. SumFunctionOnSet(f, u) \in Int /\ SumFunctionOnSet(f, S \cup u) \in Int /\ f[e] \in Int
  BY <1>5, <1>7, SumInt
<1>9. SumFunctionOnSet(f, u \cup {e}) = SumFunctionOnSet(f, u) + f[e]
  <2> HIDE DEF u
  <2>1. \A x \in u \cup {e} : f[x] \in Int
    BY <1>5
  <2>2. QED  BY <1>5, <1>7, <2>1, SumAdd
<1>10. SumFunctionOnSet(f, (S \cup u) \cup {e}) = SumFunctionOnSet(f, S \cup u) + f[e]
  <2> HIDE DEF u
  <2>1. \A x \in (S \cup u) \cup {e} : f[x] \in Int
    BY <1>5
  <2>2. e \notin S \cup u
    BY <1>5
  <2>3. QED  BY <1>7, <2>1, <2>2, SumAdd
<1>11. (S \cup u) \cup {e} = S \cup m
  BY <1>5
<1>12. Holds(m)
  <2>1. u \cup {e} = m
    BY <1>5
  <2> HIDE DEF u
  <2>2. SumFunctionOnSet(f, S \cup m)
          = (SumFunctionOnSet(f, S) + SumFunctionOnSet(f, u)) + f[e]
    BY <1>6, <1>10, <1>11, Zenon
  <2>3. SumFunctionOnSet(f, m) = SumFunctionOnSet(f, u) + f[e]
    BY <1>9, <2>1, Zenon
  <2>4. (SumFunctionOnSet(f, S) + SumFunctionOnSet(f, u)) + f[e]
          = SumFunctionOnSet(f, S) + (SumFunctionOnSet(f, u) + f[e])
    BY <1>2, <1>8
  <2>5. QED  BY <2>2, <2>3, <2>4, Zenon
<1>13. QED  BY <1>1, <1>12

\* Natural numbers add up to one.
LEMMA SumNat ==
    ASSUME NEW f, NEW S, IsFiniteSet(S), \A x \in S : f[x] \in Nat
    PROVE  SumFunctionOnSet(f, S) \in Nat
<1> DEFINE B == {u \in SUBSET S : SumFunctionOnSet(f, u) \notin Nat}
<1> SUFFICES ASSUME S \in B PROVE FALSE
  OBVIOUS
<1>1. PICK m \in B : \A n \in B : n \subseteq m => n = m
  <2>1. B \in SUBSET SUBSET S /\ B # {}
    OBVIOUS
  <2> HIDE DEF B
  <2>2. QED  BY <2>1, SmallestSet
<1>2. m # {}
  BY SumEmpty
<1>3. Pick(m) \in m /\ IsFiniteSet(m)
  BY <1>2, PickIn, FS_Subset
<1>4. SumFunctionOnSet(f, m \ {Pick(m)}) \in Nat
  BY <1>1, <1>3
<1>5. f[Pick(m)] \in Nat
  BY <1>3
<1>6. SumFunctionOnSet(f, m) = f[Pick(m)] + SumFunctionOnSet(f, m \ {Pick(m)})
  BY <1>2, <1>3, SumPick
<1>7. QED  BY <1>4, <1>5, <1>6

\* A sum of natural numbers grows with its set.
LEMMA SumMonotone ==
    ASSUME NEW f, NEW T, IsFiniteSet(T), NEW S \in SUBSET T, \A x \in T : f[x] \in Nat
    PROVE  SumFunctionOnSet(f, S) =< SumFunctionOnSet(f, T)
<1>1. IsFiniteSet(S) /\ IsFiniteSet(T \ S) /\ S \cap (T \ S) = {} /\ S \cup (T \ S) = T
  BY FS_Subset, FS_Difference
<1>2. SumFunctionOnSet(f, S) \in Nat /\ SumFunctionOnSet(f, T \ S) \in Nat
  BY <1>1, SumNat
<1>3. SumFunctionOnSet(f, S \cup (T \ S))
        = SumFunctionOnSet(f, S) + SumFunctionOnSet(f, T \ S)
  BY <1>1, SumDisjoint
<1>4. SumFunctionOnSet(f, S)
        =< SumFunctionOnSet(f, S) + SumFunctionOnSet(f, T \ S)
  BY <1>2
<1>5. QED  BY <1>1, <1>3, <1>4, Zenon

\* Functions that agree on the set have the same sum.
LEMMA SumSame ==
    ASSUME NEW f, NEW g, NEW S, IsFiniteSet(S), \A x \in S : f[x] = g[x]
    PROVE  SumFunctionOnSet(f, S) = SumFunctionOnSet(g, S)
<1> DEFINE B == {u \in SUBSET S : SumFunctionOnSet(f, u) # SumFunctionOnSet(g, u)}
<1> SUFFICES ASSUME S \in B PROVE FALSE
  OBVIOUS
<1>1. PICK m \in B : \A n \in B : n \subseteq m => n = m
  <2>1. B \in SUBSET SUBSET S /\ B # {}
    OBVIOUS
  <2> HIDE DEF B
  <2>2. QED  BY <2>1, SmallestSet
<1>2. m # {}
  BY SumEmpty
<1>3. Pick(m) \in m /\ IsFiniteSet(m)
  BY <1>2, PickIn, FS_Subset
<1>4. SumFunctionOnSet(f, m \ {Pick(m)}) = SumFunctionOnSet(g, m \ {Pick(m)})
  BY <1>1, <1>3
<1>5. f[Pick(m)] = g[Pick(m)]
  BY <1>3
<1>6. /\ SumFunctionOnSet(f, m) = f[Pick(m)] + SumFunctionOnSet(f, m \ {Pick(m)})
      /\ SumFunctionOnSet(g, m) = g[Pick(m)] + SumFunctionOnSet(g, m \ {Pick(m)})
  BY <1>2, <1>3, SumPick
<1>7. QED  BY <1>4, <1>5, <1>6

\* A function that is nowhere larger has no larger sum.
LEMMA SumOrdered ==
    ASSUME NEW f, NEW g, NEW S, IsFiniteSet(S),
           \A x \in S : f[x] \in Int /\ g[x] \in Int /\ f[x] =< g[x]
    PROVE  SumFunctionOnSet(f, S) =< SumFunctionOnSet(g, S)
<1> DEFINE B == {u \in SUBSET S : ~(SumFunctionOnSet(f, u) =< SumFunctionOnSet(g, u))}
<1> SUFFICES ASSUME S \in B PROVE FALSE
  OBVIOUS
<1>1. PICK m \in B : \A n \in B : n \subseteq m => n = m
  <2>1. B \in SUBSET SUBSET S /\ B # {}
    OBVIOUS
  <2> HIDE DEF B
  <2>2. QED  BY <2>1, SmallestSet
<1>2. m # {}
  <2>1. m = {} => SumFunctionOnSet(f, m) = 0 /\ SumFunctionOnSet(g, m) = 0
    BY SumEmpty
  <2>2. m = {} => SumFunctionOnSet(f, m) =< SumFunctionOnSet(g, m)
    BY <2>1
  <2>3. QED  BY <2>2
<1> DEFINE e == Pick(m)
           u == m \ {e}
<1>3. e \in m /\ IsFiniteSet(m) /\ IsFiniteSet(u)
  BY <1>2, PickIn, FS_Subset, FS_RemoveElement
<1>4. SumFunctionOnSet(f, u) =< SumFunctionOnSet(g, u)
  BY <1>1, <1>3
<1>5. SumFunctionOnSet(f, u) \in Int /\ SumFunctionOnSet(g, u) \in Int
  BY <1>3, SumInt
<1>6. f[e] \in Int /\ g[e] \in Int /\ f[e] =< g[e]
  BY <1>3
<1>7. /\ SumFunctionOnSet(f, m) = f[e] + SumFunctionOnSet(f, u)
      /\ SumFunctionOnSet(g, m) = g[e] + SumFunctionOnSet(g, u)
  BY <1>2, <1>3, SumPick
<1> HIDE DEF e, u
<1>8. SumFunctionOnSet(f, m) =< SumFunctionOnSet(g, m)
  BY <1>4, <1>5, <1>6, <1>7
<1>9. QED  BY <1>8

\* Nowhere larger and with a sum as large, it is the same everywhere.
LEMMA SumTight ==
    ASSUME NEW f, NEW g, NEW S, IsFiniteSet(S),
           \A x \in S : f[x] \in Int /\ g[x] \in Int /\ f[x] =< g[x],
           SumFunctionOnSet(f, S) >= SumFunctionOnSet(g, S), NEW e \in S
    PROVE  f[e] = g[e]
<1> DEFINE u == S \ {e}
<1>1. IsFiniteSet(u)
  BY FS_RemoveElement
<1>2. SumFunctionOnSet(f, u) \in Int /\ SumFunctionOnSet(g, u) \in Int
  BY <1>1, SumInt
<1>3. SumFunctionOnSet(f, u) =< SumFunctionOnSet(g, u)
  BY <1>1, SumOrdered
<1>4. /\ SumFunctionOnSet(f, S) = f[e] + SumFunctionOnSet(f, u)
      /\ SumFunctionOnSet(g, S) = g[e] + SumFunctionOnSet(g, u)
  BY SumRemove
<1> HIDE DEF u
<1>5. QED  BY <1>2, <1>3, <1>4
=============================================================================
