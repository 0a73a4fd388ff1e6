------------------------------ MODULE Counting ------------------------------
(***************************************************************************)
(* Two services check, await and save without a lock.  What the check of a *)
(* request has found missing may be saved meanwhile, so there may be too   *)
(* much of it; but whatever is saved was about to be saved by a request,   *)
(* and so what is saved (S) and the requests about to save (K) are never   *)
(* more than the requests there are.                                       *)
(***************************************************************************)
EXTENDS Integers, FiniteSets, FiniteSetTheorems, TLAPS

\* A request that saves its row moves it from one set to the other.
LEMMA MovedCount ==
    ASSUME NEW S, NEW K, NEW S2, NEW K2, NEW e, NEW q \in K,
           IsFiniteSet(S), IsFiniteSet(K), S2 \subseteq S \cup {e}, K2 \subseteq K \ {q}
    PROVE  Cardinality(S2) + Cardinality(K2) <= Cardinality(S) + Cardinality(K)
<1>1. /\ IsFiniteSet(S \cup {e})
      /\ Cardinality(S \cup {e}) \in Nat
      /\ Cardinality(S \cup {e}) <= Cardinality(S) + 1
      /\ Cardinality(S) \in Nat
  <2>1. IsFiniteSet(S \cup {e}) /\ Cardinality(S) \in Nat
      BY FS_AddElement, FS_CardinalityType
  <2>2. Cardinality(S \cup {e}) = IF e \in S THEN Cardinality(S) ELSE Cardinality(S) + 1
      BY FS_AddElement
  <2> QED
      BY <2>1, <2>2
<1>2. /\ IsFiniteSet(K \ {q})
      /\ Cardinality(K \ {q}) = Cardinality(K) - 1
      /\ Cardinality(K) \in Nat
    BY FS_RemoveElement, FS_CardinalityType
<1>3. Cardinality(S2) \in Nat /\ Cardinality(S2) <= Cardinality(S \cup {e})
    BY <1>1, FS_Subset, FS_CardinalityType
<1>4. Cardinality(K2) \in Nat /\ Cardinality(K2) <= Cardinality(K \ {q})
    BY <1>2, FS_Subset, FS_CardinalityType
<1> QED
    BY <1>1, <1>2, <1>3, <1>4

LEMMA ShrunkCount ==
    ASSUME NEW S, NEW K, NEW S2, NEW K2, IsFiniteSet(S), IsFiniteSet(K),
           S2 \subseteq S, K2 \subseteq K
    PROVE  Cardinality(S2) + Cardinality(K2) <= Cardinality(S) + Cardinality(K)
<1>1. Cardinality(S2) \in Nat /\ Cardinality(S) \in Nat /\ Cardinality(S2) <= Cardinality(S)
    BY FS_Subset, FS_CardinalityType
<1>2. Cardinality(K2) \in Nat /\ Cardinality(K) \in Nat /\ Cardinality(K2) <= Cardinality(K)
    BY FS_Subset, FS_CardinalityType
<1> QED
    BY <1>1, <1>2

\* The rows and those of All requests that are about to add one, of which nothing is known but
\* how they change: by a request that found no row, by one that saves, or down.
LEMMA BoundStays ==
    ASSUME NEW All, IsFiniteSet(All),
           NEW S, NEW K, NEW S2, NEW K2, IsFiniteSet(S), IsFiniteSet(K),
           K2 \subseteq All, Cardinality(S) + Cardinality(K) <= Cardinality(All),
           \/ S2 = {}
           \/ S2 \subseteq S /\ K2 \subseteq K
           \/ \E q \in K : \E e : S2 \subseteq S \cup {e} /\ K2 \subseteq K \ {q}
    PROVE  Cardinality(S2) + Cardinality(K2) <= Cardinality(All)
<1>1. /\ IsFiniteSet(All) /\ Cardinality(All) \in Nat
      /\ Cardinality(S) \in Nat /\ Cardinality(K) \in Nat
    BY FS_CardinalityType
<1>2. IsFiniteSet(K2) /\ Cardinality(K2) \in Nat /\ Cardinality(K2) <= Cardinality(All)
    BY <1>1, FS_Subset, FS_CardinalityType
<1>3. CASE S2 = {}
    BY <1>1, <1>2, <1>3, FS_EmptySet
<1>4. CASE S2 \subseteq S /\ K2 \subseteq K
  <2>1. IsFiniteSet(S2) /\ Cardinality(S2) \in Nat
      BY <1>4, FS_Subset, FS_CardinalityType
  <2>2. Cardinality(S2) + Cardinality(K2) <= Cardinality(S) + Cardinality(K)
      BY <1>4, ShrunkCount
  <2> QED
      BY <1>1, <1>2, <2>1, <2>2
<1>5. ASSUME NEW q \in K, NEW e, S2 \subseteq S \cup {e}, K2 \subseteq K \ {q}
      PROVE  Cardinality(S2) + Cardinality(K2) <= Cardinality(All)
  <2>1. IsFiniteSet(S2) /\ Cardinality(S2) \in Nat
      BY <1>5, FS_AddElement, FS_Subset, FS_CardinalityType
  <2>2. Cardinality(S2) + Cardinality(K2) <= Cardinality(S) + Cardinality(K)
      BY <1>5, MovedCount
  <2> QED
      BY <1>1, <1>2, <2>1, <2>2
<1> QED
    BY <1>3, <1>4, <1>5

\* Of at most one request, at most one row.
LEMMA AtMostOne ==
    ASSUME NEW All, NEW S, NEW K, IsFiniteSet(All), IsFiniteSet(S), IsFiniteSet(K),
           \A p, q \in All : p = q, Cardinality(S) + Cardinality(K) <= Cardinality(All)
    PROVE  \A d, e \in S : d = e
<1>1. Cardinality(S) \in Nat /\ Cardinality(K) \in Nat /\ Cardinality(All) \in Nat
    BY FS_CardinalityType
<1>2. Cardinality(All) <= 1
  <2>1. CASE All = {}
      BY <2>1, FS_EmptySet
  <2>2. ASSUME NEW p \in All PROVE Cardinality(All) = 1
    <3>1. All = {p}
        OBVIOUS
    <3> QED
        BY <3>1, FS_Singleton
  <2> QED
      BY <2>1, <2>2
<1>3. ASSUME NEW d \in S, NEW e \in S, d # e PROVE FALSE
  <2>1. /\ IsFiniteSet(S \ {d})
        /\ Cardinality(S \ {d}) = Cardinality(S) - 1
      BY FS_RemoveElement
  <2>2. Cardinality(S \ {d}) # 0
      BY <1>3, <2>1, FS_EmptySet
  <2>3. Cardinality(S \ {d}) \in Nat
      BY <2>1, FS_CardinalityType
  <2> QED
      BY <1>1, <1>2, <2>1, <2>2, <2>3
<1> QED
    BY <1>3
=============================================================================
