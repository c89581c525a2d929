---------------------- MODULE TransactionListing_Proofs ----------------------
(***************************************************************************)
(* The safety properties of TransactionListing for any ids, days, filters, *)
(* connections and page size, and any changes of the provider's data; and  *)
(* those of the figures of TransactionTotals, for any amounts, categories  *)
(* and instalments.                                                        *)
(***************************************************************************)
EXTENDS TransactionTotals, FiniteSetTheorems, WellFoundedInduction, TLAPS

(***************************************************************************)
(* The cursor test orders entries strictly, and in the order of the sort.  *)
(***************************************************************************)
LEMMA RankTypes ==
  ASSUME NEW e \in Entry
  PROVE  DayOf(e) \in Int /\ IdOf(e) \in Id
           /\ UnitRank[IdOf(e)] \in Int /\ LocaleRank[IdOf(e)] \in Int
  BY ListingAssumption DEF ListingAssumption, Entry, DayOf, IdOf

LEMMA Irreflexive ==
  ASSUME NEW e \in Entry PROVE ~IsAfter(e, e)
  BY RankTypes DEF IsAfter

LEMMA Asymmetric ==
  ASSUME NEW d \in Entry, NEW e \in Entry, IsAfter(d, e) PROVE ~IsAfter(e, d)
  BY RankTypes DEF IsAfter

LEMMA Transitive ==
  ASSUME NEW c \in Entry, NEW d \in Entry, NEW e \in Entry,
         IsAfter(c, d), IsAfter(d, e)
  PROVE  IsAfter(c, e)
  BY RankTypes DEF IsAfter

(* An entry that is not after the cursor comes before those that are:      *)
(* the test is a weak order.                                               *)
LEMMA NotAfterIsLater ==
  ASSUME NEW d \in Entry, NEW e \in Entry, NEW c \in Entry,
         IsAfter(d, c), ~IsAfter(e, c)
  PROVE  IsAfter(d, e)
  BY RankTypes DEF IsAfter

(* What the sort puts later is after the cursor: here the two orders of    *)
(* ids have to agree.                                                      *)
LEMMA PrecededIsAfter ==
  ASSUME NEW d \in Entry, NEW e \in Entry, Precedes(d, e) PROVE IsAfter(e, d)
  <1>1. CASE DayOf(e) < DayOf(d)
    BY <1>1 DEF IsAfter
  <1>2. CASE DayOf(e) = DayOf(d) /\ LocaleRank[IdOf(e)] < LocaleRank[IdOf(d)]
    <2>1. UnitRank[IdOf(e)] < UnitRank[IdOf(d)]
      BY <1>2, RankTypes, OrdersAgree DEF OrdersAgree
    <2> QED BY <1>2, <2>1 DEF IsAfter
  <1> QED BY <1>1, <1>2 DEF Precedes

(***************************************************************************)
(* The inductive invariant.  `Fits(e)`: e belongs to the walk.  Between    *)
(* two pages the cursor separates what was listed from what is to come.    *)
(***************************************************************************)
Fits(e) == OwnerOf[IdOf(e)] = walk.connection /\ e \in Matches[walk.filter]

Separated ==
  walk.state = "more" =>
    /\ walk.cursor \in Entry
    /\ \A e \in steady : Fits(e) /\ (e \in walk.listed \/ IsAfter(e, walk.cursor))
    /\ \A e \in walk.listed : ~IsAfter(e, walk.cursor)

Begun ==
  /\ walk.state = "idle" => walk.listed = {} /\ walk.repeated = {}
  /\ walk.state # "idle" => walk.filter \in Filter

WalkInv ==
  /\ TypeOK
  /\ Begun
  /\ Separated
  /\ SteadyRowsListed
  /\ NothingListedTwice
  /\ OneConnectionPerWalk

LEMMA InitWalkInv == Init => WalkInv
  BY DEF Init, Idle, WalkInv, TypeOK, Begun, Separated, SteadyRowsListed,
         NothingListedTwice, OneConnectionPerWalk

(* A page of rows that fit and were not listed keeps the invariant, when   *)
(* every steady entry is listed or among the rows.                         *)
LEMMA AnswerKeepsWalkInv ==
  ASSUME NEW filter \in Filter, NEW connection \in Connection \cup {None},
         NEW rows \in SUBSET Entry,
         WalkInv,
         stored' \subseteq Entry, scope' \in Connection \cup {None},
         steady' \subseteq stored',
         walk.state = "idle" \/ (walk.filter = filter /\ walk.connection = connection),
         \A e \in rows : OwnerOf[IdOf(e)] = connection /\ e \in Matches[filter],
         \A e \in steady' : OwnerOf[IdOf(e)] = connection /\ e \in Matches[filter],
         \A e \in steady' : e \in walk.listed \/ e \in rows,
         \A e \in walk.listed, d \in rows : IsAfter(d, e),
         Answer(filter, connection, rows)
  PROVE  WalkInv'
  <1>1. walk.listed \subseteq Entry /\ walk.repeated = {}
    BY DEF WalkInv, TypeOK, NothingListedTwice
  <1>2. walk.listed \cap rows = {}
    BY Irreflexive, <1>1
  <1>3. \A e \in walk.listed : OwnerOf[IdOf(e)] = connection /\ e \in Matches[filter]
    BY DEF WalkInv, Begun, OneConnectionPerWalk
  <1>4. CASE Receive("done", filter, connection, None, rows)
    <2>1. walk' = [state |-> "done", filter |-> filter, connection |-> connection,
                   cursor |-> None, listed |-> walk.listed \cup rows, repeated |-> {}]
      BY <1>4, <1>1, <1>2 DEF Receive
    <2> QED
      BY <2>1, <1>1, <1>3 DEF WalkInv, TypeOK, Begun, Separated, SteadyRowsListed,
         NothingListedTwice, OneConnectionPerWalk
  <1>5. CASE \E page \in SUBSET rows : \E last \in page :
               /\ page # rows
               /\ IsPage(page, rows)
               /\ IsLast(last, page)
               /\ Receive("more", filter, connection, last, page)
    <2>0. PICK page \in SUBSET rows : \E last \in page :
               /\ page # rows
               /\ IsPage(page, rows)
               /\ IsLast(last, page)
               /\ Receive("more", filter, connection, last, page)
      BY <1>5
    <2>1. PICK last \in page :
               /\ IsPage(page, rows)
               /\ IsLast(last, page)
               /\ Receive("more", filter, connection, last, page)
      BY <2>0
    <2>2. walk' = [state |-> "more", filter |-> filter, connection |-> connection,
                   cursor |-> last, listed |-> walk.listed \cup page, repeated |-> {}]
      BY <2>1, <1>1, <1>2 DEF Receive
    <2>3. last \in Entry /\ page \subseteq Entry
      OBVIOUS
    <2>4. \A e \in steady' : e \in walk.listed \cup page \/ IsAfter(e, last)
      <3>1. SUFFICES ASSUME NEW e \in steady', e \in rows, e \notin page
                     PROVE  IsAfter(e, last)
        OBVIOUS
      <3>2. Precedes(last, e)
        BY <2>1, <3>1 DEF IsPage
      <3> QED BY <3>1, <3>2, <2>3, PrecededIsAfter
    <2>5. \A e \in walk.listed \cup page : ~IsAfter(e, last)
      <3>1. ASSUME NEW e \in walk.listed PROVE ~IsAfter(e, last)
        <4>1. IsAfter(last, e) /\ e \in Entry
          BY <1>1
        <4> QED BY <4>1, <2>3, Asymmetric
      <3>2. ASSUME NEW e \in page PROVE ~IsAfter(e, last)
        <4>1. e = last \/ Precedes(e, last)
          BY <2>1 DEF IsLast
        <4>2. CASE e = last
          BY <4>2, <2>3, Irreflexive
        <4>3. CASE Precedes(e, last)
          <5>1. IsAfter(last, e)
            BY <4>3, <2>3, PrecededIsAfter
          <5> QED BY <5>1, <2>3, Asymmetric
        <4> QED BY <4>1, <4>2, <4>3
      <3> QED BY <3>1, <3>2
    <2> QED
      BY <2>2, <2>3, <2>4, <2>5, <1>1, <1>3 DEF WalkInv, TypeOK, Begun, Separated, Fits,
         SteadyRowsListed, NothingListedTwice, OneConnectionPerWalk
  <1> QED BY <1>4, <1>5 DEF Answer

(* Steps that leave the walk alone and take entries from `steady` at most. *)
LEMMA EnvironmentKeepsWalkInv ==
  ASSUME WalkInv, walk' = walk,
         stored' \subseteq Entry, scope' \in Connection \cup {None},
         steady' \subseteq steady, steady' \subseteq stored'
  PROVE  WalkInv'
  BY DEF WalkInv, TypeOK, Begun, Separated, Fits, SteadyRowsListed,
         NothingListedTwice, OneConnectionPerWalk

LEMMA NextWalkInv == WalkInv /\ [Next]_vars => WalkInv'
  <1> SUFFICES ASSUME WalkInv, [Next]_vars PROVE WalkInv'
    OBVIOUS
  <1>0. stored \subseteq Entry /\ scope \in Connection \cup {None} /\ steady \subseteq stored
    BY DEF WalkInv, TypeOK
  <1>1. ASSUME NEW f \in Filter, FirstPage(f) PROVE WalkInv'
    <2> DEFINE rows == Rows(scope, f)
    <2>1. walk.state = "idle" /\ walk.listed = {}
      BY <1>1 DEF FirstPage, WalkInv, Begun
    <2>2. rows \in SUBSET Entry /\ rows \subseteq stored
      BY <1>0 DEF Rows
    <2>3. \A e \in rows : OwnerOf[IdOf(e)] = scope /\ e \in Matches[f]
      BY DEF Rows
    <2>4. Answer(f, scope, rows) /\ steady' = rows /\ stored' = stored /\ scope' = scope
      BY <1>1 DEF FirstPage
    <2> HIDE DEF rows
    <2> QED BY <2>1, <2>2, <2>3, <2>4, <1>0, AnswerKeepsWalkInv
  <1>2. CASE NextPage
    <2> DEFINE rows == Remaining(Rows(scope, walk.filter), walk.cursor)
    <2>1. /\ walk.state = "more" /\ walk.connection = scope
          /\ Answer(walk.filter, walk.connection, rows)
          /\ stored' = stored /\ scope' = scope /\ steady' = steady
      BY <1>2 DEF NextPage, CursorFits
    <2>2. walk.filter \in Filter /\ walk.cursor \in Entry /\ walk.listed \subseteq Entry
      BY <2>1 DEF WalkInv, Begun, Separated, TypeOK
    <2>3. walk.cursor # None
      BY <2>2, ListingAssumption DEF ListingAssumption
    <2>4. rows = {e \in stored : /\ OwnerOf[IdOf(e)] = scope
                                 /\ e \in Matches[walk.filter]
                                 /\ IsAfter(e, walk.cursor)}
      BY <2>3 DEF Remaining, Rows
    <2> HIDE DEF rows
    <2>5. rows \in SUBSET Entry
      BY <2>4, <1>0
    <2>6. \A e \in steady :
            /\ OwnerOf[IdOf(e)] = walk.connection /\ e \in Matches[walk.filter]
            /\ e \in walk.listed \/ e \in rows
      BY <2>1, <2>4, <1>0 DEF WalkInv, Separated, Fits
    <2>7. \A e \in walk.listed, d \in rows : IsAfter(d, e)
      <3> SUFFICES ASSUME NEW e \in walk.listed, NEW d \in rows PROVE IsAfter(d, e)
        OBVIOUS
      <3>1. ~IsAfter(e, walk.cursor) /\ IsAfter(d, walk.cursor)
        BY <2>1, <2>4 DEF WalkInv, Separated
      <3>2. e \in Entry /\ d \in Entry
        BY <2>2, <2>5
      <3> QED BY <3>1, <3>2, <2>2, NotAfterIsLater
    <2>8. \A e \in rows : OwnerOf[IdOf(e)] = walk.connection /\ e \in Matches[walk.filter]
      BY <2>1, <2>4
    <2>9. walk.connection \in Connection \cup {None}
      BY <2>1, <1>0
    <2> QED BY <2>1, <2>2, <2>5, <2>6, <2>7, <2>8, <2>9, <1>0, AnswerKeepsWalkInv
  <1>3. CASE RefusePage
    BY <1>3, <1>0 DEF RefusePage, WalkInv, TypeOK, Begun, Separated, SteadyRowsListed,
       NothingListedTwice, OneConnectionPerWalk
  <1>4. CASE StartOver
    BY <1>4, <1>0 DEF StartOver, Idle, WalkInv, TypeOK, Begun, Separated, SteadyRowsListed,
       NothingListedTwice, OneConnectionPerWalk
  <1>5. ASSUME NEW e \in Entry \ stored, Report(e) PROVE WalkInv'
    BY <1>5, <1>0, EnvironmentKeepsWalkInv DEF Report
  <1>6. ASSUME NEW e \in stored, Withdraw(e) PROVE WalkInv'
    BY <1>6, <1>0, EnvironmentKeepsWalkInv DEF Withdraw
  <1>7. ASSUME NEW c \in (Connection \cup {None}) \ {scope}, Select(c) PROVE WalkInv'
    BY <1>7, <1>0, EnvironmentKeepsWalkInv DEF Select
  <1>8. CASE UNCHANGED vars
    BY <1>8, <1>0, EnvironmentKeepsWalkInv DEF vars
  <1> QED BY <1>1, <1>2, <1>3, <1>4, <1>5, <1>6, <1>7, <1>8 DEF Next

LEMMA WalkInvHolds == Spec => []WalkInv
  BY InitWalkInv, NextWalkInv, PTL DEF Spec

(***************************************************************************)
(* The theorems.                                                           *)
(***************************************************************************)

(* Every reachable state of a walk is well typed. *)
THEOREM ListingTypeCorrect == Spec => []TypeOK
  <1>1. WalkInv => TypeOK
    BY DEF WalkInv
  <1> QED BY WalkInvHolds, <1>1, PTL

(* A walk that ends has shown every transaction that was there throughout, *)
(* whatever else came and went between its pages.                          *)
THEOREM SteadyRowsAreListed == Spec => []SteadyRowsListed
  <1>1. WalkInv => SteadyRowsListed
    BY DEF WalkInv
  <1> QED BY WalkInvHolds, <1>1, PTL

(* No page repeats a row of an earlier page of its walk. *)
THEOREM NothingIsListedTwice == Spec => []NothingListedTwice
  <1>1. WalkInv => NothingListedTwice
    BY DEF WalkInv
  <1> QED BY WalkInvHolds, <1>1, PTL

(* Pages of one walk never mix connections or filters. *)
THEOREM WalksKeepTheirConnection == Spec => []OneConnectionPerWalk
  <1>1. WalkInv => OneConnectionPerWalk
    BY DEF WalkInv
  <1> QED BY WalkInvHolds, <1>1, PTL

-----------------------------------------------------------------------------
(***************************************************************************)
(* Sums over finite sets.  The library defines a sum by recursion on the   *)
(* subsets of its set: that a function satisfies the recursion, and that   *)
(* the order of the terms does not matter, is by induction on their number *)
(* or for a smallest set without the property.                             *)
(***************************************************************************)

(* A set of numbers has a least one.                                       *)
LEMMA LeastNumber ==
  ASSUME NEW S, S \subseteq Nat, S # {} PROVE \E x \in S : \A y \in S : x <= y
<1>1. IsWellFoundedOn(OpToRel(<, Nat), Nat)
  BY NatLessThanWellFounded
<1>2. PICK x \in S : \A y \in S : ~(<<y, x>> \in OpToRel(<, Nat))
  BY <1>1, WFMin
<1>3. \A y \in S : ~(y < x)
  BY <1>2, Zenon DEF OpToRel
<1>4. \A y \in S : y \in Nat /\ x \in Nat
  OBVIOUS
<1> QED BY <1>3

(* Induction over a finite set, as a minimal counterexample: a family of   *)
(* its subsets that is not empty has a member that leaves the family       *)
(* whichever element is taken out.                                         *)
LEMMA MinimalSubset ==
  ASSUME NEW S, IsFiniteSet(S), NEW B, B \subseteq SUBSET S, B # {}
  PROVE  \E T \in B : IsFiniteSet(T) /\ \A x \in T : T \ {x} \notin B
<1> DEFINE sizes == {Cardinality(T) : T \in B}
<1>1. ASSUME NEW T \in B PROVE IsFiniteSet(T) /\ Cardinality(T) \in Nat
  BY FS_Subset, FS_CardinalityType
<1>2. sizes \subseteq Nat /\ sizes # {}
  BY <1>1
<1>3. PICK n \in sizes : \A m \in sizes : n <= m
  BY <1>2, LeastNumber
<1>4. PICK T \in B : n = Cardinality(T)
  OBVIOUS
<1>5. ASSUME NEW x \in T PROVE T \ {x} \notin B
  <2>1. Cardinality(T \ {x}) = Cardinality(T) - 1 /\ Cardinality(T) \in Nat
    BY <1>1, FS_RemoveElement
  <2>2. ~(Cardinality(T) <= Cardinality(T \ {x}))
    BY <2>1
  <2> QED BY <1>3, <1>4, <2>2
<1> QED BY <1>1, <1>5

Sum(f, S) == SumFunctionOnSet(f, S)

Some(s) == CHOOSE x \in s : TRUE

SumStep(f, g, s) == IF s = {} THEN 0 ELSE f[Some(s)] + g[s \ {Some(s)}]

SumsOf(f, S) == CHOOSE g : g = [s \in SUBSET S |-> SumStep(f, g, s)]

(* A sum is the value of that recursion at the whole set.                  *)
LEMMA SumIs == ASSUME NEW f, NEW S PROVE Sum(f, S) = SumsOf(f, S)[S]
BY DEF Sum, SumFunctionOnSet, FoldFunctionOnSet, MapThenFoldSet, SumsOf, SumStep, Some

(* Some function satisfies it.                                             *)
LEMMA SumsExist ==
  ASSUME NEW f, NEW S, IsFiniteSet(S)
  PROVE  \E g : g = [s \in SUBSET S |-> SumStep(f, g, s)]
<1> DEFINE upTo(k) == \E g : /\ g = [s \in SUBSET S |-> g[s]]
                             /\ \A s \in SUBSET S : Cardinality(s) <= k => g[s] = SumStep(f, g, s)
           without == {k \in Nat : ~upTo(k)}
<1>1. ASSUME NEW s \in SUBSET S
      PROVE  /\ IsFiniteSet(s) /\ Cardinality(s) \in Nat /\ (Cardinality(s) = 0 <=> s = {})
             /\ s # {} => /\ Some(s) \in s /\ s \ {Some(s)} \in SUBSET S
                          /\ Cardinality(s \ {Some(s)}) = Cardinality(s) - 1
  <2>1. IsFiniteSet(s)
    BY FS_Subset
  <2>2. Cardinality(s) \in Nat /\ (Cardinality(s) = 0 <=> s = {})
    BY <2>1, FS_CardinalityType, FS_EmptySet
  <2>3. s # {} => Some(s) \in s
    BY DEF Some
  <2> QED BY <2>1, <2>2, <2>3, FS_RemoveElement
<1>2. upTo(0)
  <2> DEFINE g == [s \in SUBSET S |-> 0]
  <2>1. ASSUME NEW s \in SUBSET S, Cardinality(s) <= 0 PROVE g[s] = SumStep(f, g, s)
    <3>1. Cardinality(s) \in Nat /\ (Cardinality(s) = 0 => s = {})
      BY <1>1
    <3>2. s = {}
      BY <2>1, <3>1
    <3> QED BY <3>2 DEF SumStep
  <2>2. g = [s \in SUBSET S |-> g[s]]
    OBVIOUS
  <2> QED BY <2>1, <2>2
<1>3. ASSUME NEW k \in Nat, upTo(k) PROVE upTo(k + 1)
  <2>1. PICK g : /\ g = [s \in SUBSET S |-> g[s]]
                 /\ \A s \in SUBSET S : Cardinality(s) <= k => g[s] = SumStep(f, g, s)
    BY <1>3
  <2> DEFINE h == [s \in SUBSET S |-> IF Cardinality(s) <= k THEN g[s] ELSE SumStep(f, g, s)]
  <2>2. ASSUME NEW s \in SUBSET S, Cardinality(s) <= k + 1 PROVE h[s] = SumStep(f, h, s)
    <3>1. h[s] = SumStep(f, g, s)
      BY <2>1
    <3>2. s # {} => h[s \ {Some(s)}] = g[s \ {Some(s)}]
      BY <1>1, <2>2
    <3> HIDE DEF h
    <3> QED BY <3>1, <3>2 DEF SumStep
  <2>3. h = [s \in SUBSET S |-> h[s]]
    OBVIOUS
  <2> HIDE DEF h
  <2> QED BY <2>2, <2>3
<1> HIDE DEF upTo
<1>4. \A k \in Nat : upTo(k)
  <2> SUFFICES ASSUME without # {} PROVE FALSE
    OBVIOUS
  <2>1. PICK k \in without : \A j \in without : k <= j
    BY LeastNumber
  <2>2. k # 0 /\ k \in Nat
    BY <1>2
  <2>3. k - 1 \in Nat /\ ~(k <= k - 1)
    BY <2>2
  <2>4. upTo(k - 1)
    BY <2>1, <2>3
  <2>5. upTo(k - 1 + 1)
    BY <1>3, <2>3, <2>4
  <2> QED BY <2>2, <2>5
<1>5. PICK g : /\ g = [s \in SUBSET S |-> g[s]]
               /\ \A s \in SUBSET S : Cardinality(s) <= Cardinality(S) => g[s] = SumStep(f, g, s)
  BY <1>1, <1>4 DEF upTo
<1>6. \A s \in SUBSET S : g[s] = SumStep(f, g, s)
  BY <1>5, FS_Subset
<1>7. g = [s \in SUBSET S |-> SumStep(f, g, s)]
  BY <1>5, <1>6
<1> QED BY <1>7

(* So the one that is chosen does.                                         *)
LEMMA SumsOfIs ==
  ASSUME NEW f, NEW S, IsFiniteSet(S)
  PROVE  \A s \in SUBSET S : SumsOf(f, S)[s] = SumStep(f, SumsOf(f, S), s)
<1>1. SumsOf(f, S) = [s \in SUBSET S |-> SumStep(f, SumsOf(f, S), s)]
  <2> DEFINE g == SumsOf(f, S)
  <2>1. g = CHOOSE h : h = [s \in SUBSET S |-> SumStep(f, h, s)]
    BY DEF SumsOf
  <2> HIDE DEF g
  <2>2. g = [s \in SUBSET S |-> SumStep(f, g, s)]
    BY <2>1, SumsExist
  <2> QED BY <2>2 DEF g
<1> QED BY <1>1

(* A sum over S does not depend on the set it was computed within, and on  *)
(* f only within S.                                                        *)
LEMMA SumsAgree ==
  ASSUME NEW f, NEW g, NEW S, IsFiniteSet(S), NEW T, IsFiniteSet(T), NEW U,
         U \subseteq S, U \subseteq T, \A x \in U : f[x] = g[x]
  PROVE  SumsOf(f, S)[U] = SumsOf(g, T)[U]
<1> DEFINE B == {s \in SUBSET U : SumsOf(f, S)[s] # SumsOf(g, T)[s]}
<1> SUFFICES ASSUME B # {} PROVE FALSE
  OBVIOUS
<1>1. PICK s \in B : \A x \in s : s \ {x} \notin B
  <2>1. IsFiniteSet(U)
    BY FS_Subset
  <2> QED BY <2>1, MinimalSubset
<1>2. SumsOf(f, S)[s] = SumStep(f, SumsOf(f, S), s) /\ SumsOf(g, T)[s] = SumStep(g, SumsOf(g, T), s)
  BY SumsOfIs
<1>3. s # {} => /\ Some(s) \in s /\ f[Some(s)] = g[Some(s)]
                /\ SumsOf(f, S)[s \ {Some(s)}] = SumsOf(g, T)[s \ {Some(s)}]
  <2>1. s # {} => Some(s) \in s
    BY DEF Some
  <2> QED BY <1>1, <2>1
<1> QED BY <1>2, <1>3 DEF SumStep

(* A sum depends on the values at its terms only.                          *)
LEMMA SumAgrees ==
  ASSUME NEW f, NEW g, NEW S, IsFiniteSet(S), \A x \in S : f[x] = g[x]
  PROVE  Sum(f, S) = Sum(g, S)
BY SumIs, SumsAgree

(* A sum is its chosen term and the sum of the others.                     *)
LEMMA SumSome ==
  ASSUME NEW f, NEW S, IsFiniteSet(S)
  PROVE  /\ S = {} => Sum(f, S) = 0
         /\ S # {} => Some(S) \in S /\ Sum(f, S) = f[Some(S)] + Sum(f, S \ {Some(S)})
<1>1. SumsOf(f, S)[S] = SumStep(f, SumsOf(f, S), S)
  BY SumsOfIs
<1>2. S # {} => Some(S) \in S
  BY DEF Some
<1>3. SumsOf(f, S)[S \ {Some(S)}] = SumsOf(f, S \ {Some(S)})[S \ {Some(S)}]
  BY SumsAgree, FS_Subset
<1> QED BY <1>1, <1>2, <1>3, SumIs DEF SumStep

(* A sum of integers is an integer.                                        *)
LEMMA SumInt ==
  ASSUME NEW f, NEW S, IsFiniteSet(S), \A x \in S : f[x] \in Int
  PROVE  Sum(f, S) \in Int
<1> DEFINE B == {s \in SUBSET S : Sum(f, s) \notin Int}
<1> SUFFICES ASSUME B # {} PROVE FALSE
  OBVIOUS
<1>1. PICK s \in B : IsFiniteSet(s) /\ \A x \in s : s \ {x} \notin B
  BY MinimalSubset
<1>2. s # {} => Some(s) \in s /\ Sum(f, s \ {Some(s)}) \in Int
  BY <1>1, SumSome
<1>3. CASE s = {}
  <2>1. Sum(f, s) = 0
    BY <1>1, <1>3, SumSome
  <2> QED BY <2>1
<1>4. CASE s # {}
  <2>1. Sum(f, s) = f[Some(s)] + Sum(f, s \ {Some(s)}) /\ f[Some(s)] \in Int
    BY <1>1, <1>2, <1>4, SumSome
  <2> QED BY <1>2, <1>4, <2>1
<1> QED BY <1>3, <1>4

(* Any element may be taken out.                                           *)
LEMMA SumTakeOut ==
  ASSUME NEW f, NEW S, IsFiniteSet(S), \A y \in S : f[y] \in Int, NEW x \in S
  PROVE  Sum(f, S) = f[x] + Sum(f, S \ {x})
<1> DEFINE B == {s \in SUBSET S : \E y \in s : Sum(f, s) # f[y] + Sum(f, s \ {y})}
<1> SUFFICES ASSUME B # {} PROVE FALSE
  OBVIOUS
<1>1. PICK s \in B : IsFiniteSet(s) /\ \A y \in s : s \ {y} \notin B
  BY MinimalSubset
<1>2. PICK y \in s : Sum(f, s) # f[y] + Sum(f, s \ {y})
  OBVIOUS
<1> DEFINE z == Some(s)
<1>3. z \in s /\ Sum(f, s) = f[z] + Sum(f, s \ {z})
  BY <1>1, SumSome
<1>4. z # y
  BY <1>2, <1>3
<1> HIDE DEF z
<1>5. Sum(f, s \ {z}) = f[y] + Sum(f, (s \ {z}) \ {y})
  BY <1>1, <1>3, <1>4
<1>7. Sum(f, s \ {y}) = f[z] + Sum(f, (s \ {y}) \ {z})
  BY <1>1, <1>3, <1>4
<1>8. (s \ {z}) \ {y} = (s \ {y}) \ {z}
  OBVIOUS
<1>9. Sum(f, (s \ {y}) \ {z}) \in Int
  <2>1. IsFiniteSet((s \ {y}) \ {z})
    BY <1>1, FS_Subset
  <2> QED BY <1>3, <2>1, SumInt
<1>10. f[y] \in Int /\ f[z] \in Int
  BY <1>3
<1>11. Sum(f, s) = f[z] + (f[y] + Sum(f, (s \ {y}) \ {z}))
  BY <1>3, <1>5, <1>8
<1>12. Sum(f, s) = f[y] + (f[z] + Sum(f, (s \ {y}) \ {z}))
  BY <1>9, <1>10, <1>11
<1> QED BY <1>2, <1>7, <1>12

(* The sum of two parts.                                                   *)
LEMMA SumJoined ==
  ASSUME NEW f, NEW S, IsFiniteSet(S), NEW T, IsFiniteSet(T), S \cap T = {},
         \A x \in S \cup T : f[x] \in Int
  PROVE  Sum(f, S \cup T) = Sum(f, S) + Sum(f, T)
<1> DEFINE B == {t \in SUBSET T : Sum(f, S \cup t) # Sum(f, S) + Sum(f, t)}
<1> SUFFICES ASSUME B # {} PROVE FALSE
  OBVIOUS
<1>1. PICK t \in B : IsFiniteSet(t) /\ \A y \in t : t \ {y} \notin B
  BY MinimalSubset
<1>2. Sum(f, S) \in Int
  BY SumInt
<1>3. t # {}
  <2> SUFFICES ASSUME t = {} PROVE FALSE
    OBVIOUS
  <2>1. S \cup t = S /\ Sum(f, t) = 0
    BY <1>1, SumSome
  <2> QED BY <1>2, <2>1
<1>4. PICK y \in t : TRUE
  BY <1>3
<1>5. Sum(f, S \cup (t \ {y})) = Sum(f, S) + Sum(f, t \ {y})
  BY <1>1, <1>4
<1>6. Sum(f, t) = f[y] + Sum(f, t \ {y})
  BY <1>1, <1>4, SumTakeOut
<1>7. Sum(f, S \cup t) = f[y] + Sum(f, S \cup (t \ {y}))
  <2>1. (S \cup t) \ {y} = S \cup (t \ {y})
    BY <1>4
  <2>2. IsFiniteSet(S \cup t)
    BY <1>1, FS_Union
  <2>3. \A x \in S \cup t : f[x] \in Int
    OBVIOUS
  <2> QED BY <1>4, <2>1, <2>2, <2>3, SumTakeOut
<1>8. Sum(f, t \ {y}) \in Int
  <2>1. IsFiniteSet(t \ {y})
    BY <1>1, FS_Subset
  <2> QED BY <2>1, SumInt
<1>9. f[y] \in Int
  BY <1>4
<1>10. Sum(f, S \cup t) = Sum(f, S) + Sum(f, t)
  BY <1>2, <1>5, <1>6, <1>7, <1>8, <1>9
<1> QED BY <1>10

(* Terms that are zero add nothing.                                        *)
LEMMA SumOfZeros ==
  ASSUME NEW f, NEW S, IsFiniteSet(S), \A x \in S : f[x] = 0
  PROVE  Sum(f, S) = 0
<1> DEFINE B == {s \in SUBSET S : Sum(f, s) # 0}
<1> SUFFICES ASSUME B # {} PROVE FALSE
  OBVIOUS
<1>1. PICK s \in B : IsFiniteSet(s) /\ \A x \in s : s \ {x} \notin B
  BY MinimalSubset
<1>2. s # {}
  BY <1>1, SumSome
<1>3. Some(s) \in s /\ Sum(f, s) = f[Some(s)] + Sum(f, s \ {Some(s)})
  BY <1>1, <1>2, SumSome
<1>4. f[Some(s)] = 0 /\ Sum(f, s \ {Some(s)}) = 0
  BY <1>1, <1>3
<1>5. Sum(f, s) = 0
  BY <1>3, <1>4
<1> QED BY <1>5

(* A set has as many elements as ones add up to.                           *)
LEMMA SumOfOnes ==
  ASSUME NEW f, NEW S, IsFiniteSet(S), \A x \in S : f[x] = 1
  PROVE  Sum(f, S) = Cardinality(S)
<1> DEFINE B == {s \in SUBSET S : Sum(f, s) # Cardinality(s)}
<1> SUFFICES ASSUME B # {} PROVE FALSE
  OBVIOUS
<1>1. PICK s \in B : IsFiniteSet(s) /\ \A x \in s : s \ {x} \notin B
  BY MinimalSubset
<1>2. s # {}
  BY <1>1, SumSome, FS_EmptySet
<1>3. Some(s) \in s /\ Sum(f, s) = f[Some(s)] + Sum(f, s \ {Some(s)})
  BY <1>1, <1>2, SumSome
<1>4. f[Some(s)] = 1 /\ Sum(f, s \ {Some(s)}) = Cardinality(s \ {Some(s)})
  BY <1>1, <1>3
<1>5. Cardinality(s) \in Nat /\ Cardinality(s \ {Some(s)}) = Cardinality(s) - 1
  BY <1>1, <1>3, FS_CardinalityType, FS_RemoveElement
<1>6. Sum(f, s) = Cardinality(s)
  BY <1>3, <1>4, <1>5
<1> QED BY <1>6

(* The sum of the opposites is the opposite of the sum.                    *)
LEMMA SumNegated ==
  ASSUME NEW f, NEW g, NEW S, IsFiniteSet(S), \A x \in S : f[x] \in Int /\ g[x] = -f[x]
  PROVE  Sum(g, S) = -Sum(f, S)
<1> DEFINE B == {s \in SUBSET S : Sum(g, s) # -Sum(f, s)}
<1> SUFFICES ASSUME B # {} PROVE FALSE
  OBVIOUS
<1>1. PICK s \in B : IsFiniteSet(s) /\ \A x \in s : s \ {x} \notin B
  BY MinimalSubset
<1>2. s # {}
  <2> SUFFICES ASSUME s = {} PROVE FALSE
    OBVIOUS
  <2>1. Sum(f, s) = 0 /\ Sum(g, s) = 0
    BY <1>1, SumSome
  <2> QED BY <2>1
<1>3. /\ Some(s) \in s /\ Sum(f, s) = f[Some(s)] + Sum(f, s \ {Some(s)})
      /\ Sum(g, s) = g[Some(s)] + Sum(g, s \ {Some(s)})
  BY <1>1, <1>2, SumSome
<1>4. /\ f[Some(s)] \in Int /\ g[Some(s)] = -f[Some(s)]
      /\ Sum(g, s \ {Some(s)}) = -Sum(f, s \ {Some(s)})
  BY <1>1, <1>3
<1>5. Sum(f, s \ {Some(s)}) \in Int
  <2>1. IsFiniteSet(s \ {Some(s)})
    BY <1>1, FS_Subset
  <2> QED BY <2>1, SumInt
<1>6. Sum(g, s) = -Sum(f, s)
  BY <1>3, <1>4, <1>5
<1> QED BY <1>6

(* The sums of the parts of a partition add up to the sum of the whole.    *)
LEMMA SumByKey ==
  ASSUME NEW f, NEW S, IsFiniteSet(S), \A x \in S : f[x] \in Int,
         NEW key, NEW D, IsFiniteSet(D), \A x \in S : key[x] \in D,
         NEW part, \A d \in D : part[d] \subseteq S /\ \A x \in S : x \in part[d] <=> key[x] = d,
         NEW h, \A d \in D : h[d] = Sum(f, part[d])
  PROVE  Sum(h, D) = Sum(f, S)
<1> DEFINE Within(C) == {x \in S : key[x] \in C}
           B == {C \in SUBSET D : Sum(h, C) # Sum(f, Within(C))}
<1>1. ASSUME B # {} PROVE FALSE
  <2>1. PICK C \in B : IsFiniteSet(C) /\ \A d \in C : C \ {d} \notin B
    BY <1>1, MinimalSubset
  <2>2. \A s \in SUBSET S : IsFiniteSet(s) /\ Sum(f, s) \in Int
    BY SumInt, FS_Subset
  <2>3. C # {}
    <3> SUFFICES ASSUME C = {} PROVE FALSE
      OBVIOUS
    <3>1. Within(C) = {} /\ IsFiniteSet({})
      BY FS_EmptySet
    <3>2. Sum(h, C) = 0 /\ Sum(f, Within(C)) = 0
      BY <2>1, <3>1, SumSome
    <3> QED BY <3>2
  <2>4. PICK d \in C : TRUE
    BY <2>3
  <2>5. Sum(h, C \ {d}) = Sum(f, Within(C \ {d}))
    BY <2>1, <2>4
  <2>6. Sum(h, C) = h[d] + Sum(h, C \ {d})
    <3>1. \A c \in C : h[c] \in Int
      BY <2>2
    <3> QED BY <2>1, <2>4, <3>1, SumTakeOut
  <2>7. h[d] = Sum(f, part[d])
    BY <2>4
  <2>8. Sum(f, Within(C)) = Sum(f, part[d]) + Sum(f, Within(C \ {d}))
    <3>1. Within(C) = part[d] \cup Within(C \ {d}) /\ part[d] \cap Within(C \ {d}) = {}
      BY <2>4
    <3>2. part[d] \in SUBSET S /\ Within(C \ {d}) \in SUBSET S
      OBVIOUS
    <3> HIDE DEF Within
    <3>3. IsFiniteSet(part[d]) /\ IsFiniteSet(Within(C \ {d}))
      BY <2>2, <3>2
    <3>4. \A x \in part[d] \cup Within(C \ {d}) : f[x] \in Int
      BY <3>2
    <3> DEFINE one == part[d]
               others == Within(C \ {d})
    <3> HIDE DEF B, one, others
    <3>5. Sum(f, one \cup others) = Sum(f, one) + Sum(f, others)
      <4>1. /\ IsFiniteSet(one) /\ IsFiniteSet(others) /\ one \cap others = {}
            /\ \A x \in one \cup others : f[x] \in Int
        BY <3>1, <3>3, <3>4 DEF one, others
      <4> QED BY <4>1, SumJoined
    <3> QED BY <3>1, <3>5 DEF one, others
  <2> HIDE DEF Within
  <2> QED BY <2>1, <2>5, <2>6, <2>7, <2>8
<1>2. Within(D) = S
  OBVIOUS
<1>3. D \notin B
  BY <1>1
<1> QED BY <1>2, <1>3

(* A sum does not change when its terms are renamed one to one.            *)
LEMMA SumRenamed ==
  ASSUME NEW f, NEW S, IsFiniteSet(S), \A x \in S : f[x] \in Int,
         NEW T, NEW g, NEW name,
         \A x \in S : name[x] \in T /\ g[name[x]] = f[x],
         \A x, y \in S : name[x] = name[y] => x = y,
         \A t \in T : \E x \in S : t = name[x]
  PROVE  IsFiniteSet(T) /\ Sum(g, T) = Sum(f, S)
<1>1. IsFiniteSet(T)
  <2> DEFINE m == [x \in S |-> name[x]]
  <2>1. m \in Surjection(S, T)
    BY DEF Surjection
  <2> QED BY <2>1, FS_Surjection
<1> DEFINE part == [t \in T |-> {x \in S : name[x] = t}]
<1>2. ASSUME NEW t \in T PROVE g[t] = Sum(f, part[t])
  <2>1. PICK x \in S : t = name[x]
    OBVIOUS
  <2>2. part[t] = {x}
    BY <2>1
  <2>3. IsFiniteSet({x}) /\ IsFiniteSet({x} \ {x}) /\ {x} \ {x} = {}
    BY FS_Singleton, FS_EmptySet
  <2>4. Sum(f, {x}) = f[x] + Sum(f, {x} \ {x}) /\ Sum(f, {x} \ {x}) = 0
    BY <2>3, SumTakeOut, SumSome
  <2> HIDE DEF part
  <2> QED BY <2>1, <2>2, <2>4
<1>3. \A t \in T : part[t] \subseteq S /\ \A x \in S : x \in part[t] <=> name[x] = t
  OBVIOUS
<1>4. Sum(g, T) = Sum(f, S)
  <2> HIDE DEF part
  <2> QED BY <1>1, <1>2, <1>3, SumByKey
<1> QED BY <1>1, <1>4

-----------------------------------------------------------------------------
(***************************************************************************)
(* The figures of a period.  `stored` holds finitely many entries in every *)
(* reachable state; everything else about the figures holds for any finite *)
(* set of entries.                                                         *)
(***************************************************************************)

StoredIsFinite == stored \in SUBSET Entry /\ IsFiniteSet(stored)

(* A step adds at most one entry.                                          *)
LEMMA StoredStaysFinite == Spec => []StoredIsFinite
<1>1. Init => StoredIsFinite
  BY DEF Init, StoredIsFinite
<1>2. StoredIsFinite /\ [Next]_vars => StoredIsFinite'
  <2> SUFFICES ASSUME StoredIsFinite, [Next]_vars PROVE StoredIsFinite'
    OBVIOUS
  <2>1. CASE stored' = stored
    BY <2>1 DEF StoredIsFinite
  <2>2. ASSUME NEW e \in Entry \ stored, Report(e) PROVE StoredIsFinite'
    <3> DEFINE others == {s \in stored : IdOf(s) # IdOf(e)}
    <3>1. stored' = others \cup {e} /\ others \in SUBSET stored
      BY <2>2 DEF Report
    <3> HIDE DEF others
    <3>2. IsFiniteSet(others)
      BY <3>1, FS_Subset DEF StoredIsFinite
    <3> QED BY <3>1, <3>2, FS_AddElement DEF StoredIsFinite
  <2>3. ASSUME NEW e \in stored, Withdraw(e) PROVE StoredIsFinite'
    BY <2>3, FS_Subset DEF Withdraw, StoredIsFinite
  <2>4. CASE NextPage \/ RefusePage \/ StartOver \/ (\E f \in Filter : FirstPage(f))
             \/ (\E c \in (Connection \cup {None}) \ {scope} : Select(c))
    BY <2>1, <2>4 DEF NextPage, RefusePage, StartOver, FirstPage, Select
  <2> QED BY <2>1, <2>2, <2>3, <2>4 DEF Next, vars
<1> QED BY <1>1, <1>2, PTL DEF Spec

(* The amounts are integers, spending is the opposite of the amount.       *)
LEMMA AmountTypes ==
  /\ Cents \in [Id -> Int] /\ Spending \in [Id -> Int] /\ Magnitude \in [Id -> Int]
  /\ \A i \in Id : Spending[i] = -Cents[i] /\ Magnitude[i] >= 0
BY TotalsAssumption DEF Spending, Magnitude

(* Every figure is a sum of one function over some of the rows.            *)
AmountIn(rows, amount) == [e \in rows |-> amount[IdOf(e)]]

(* A figure over some of the rows is a sum of that function.               *)
LEMMA SumOfIs ==
  ASSUME NEW rows \in SUBSET Entry, IsFiniteSet(rows), NEW some \in SUBSET rows,
         NEW amount \in [Id -> Int]
  PROVE  /\ SumOf(some, amount) = Sum(AmountIn(rows, amount), some)
         /\ SumOf(some, amount) \in Int /\ IsFiniteSet(some)
         /\ \A e \in rows : AmountIn(rows, amount)[e] = amount[IdOf(e)] /\ amount[IdOf(e)] \in Int
<1> DEFINE f == [e \in some |-> amount[IdOf(e)]]
<1>1. IsFiniteSet(some)
  BY FS_Subset
<1>2. \A e \in rows : AmountIn(rows, amount)[e] = amount[IdOf(e)] /\ amount[IdOf(e)] \in Int
  BY RankTypes DEF AmountIn
<1>3. SumOf(some, amount) = Sum(f, some)
  BY DEF SumOf, SumFunction, Sum
<1>4. Sum(f, some) = Sum(AmountIn(rows, amount), some)
  <2>1. \A e \in some : f[e] = AmountIn(rows, amount)[e]
    BY <1>2
  <2> HIDE DEF f
  <2> QED BY <1>1, <2>1, SumAgrees
<1>5. Sum(AmountIn(rows, amount), some) \in Int
  <2>1. \A e \in some : AmountIn(rows, amount)[e] \in Int
    BY <1>2
  <2> QED BY <1>1, <2>1, SumInt
<1> HIDE DEF f
<1> QED BY <1>1, <1>2, <1>3, <1>4, <1>5

(* What the days add up to.                                                *)
LEMMA DaysAddUp ==
  ASSUME NEW rows \in SUBSET Entry, IsFiniteSet(rows), NEW some \in SUBSET rows,
         NEW f, \A e \in some : f[e] \in Int,
         NEW h, \A d \in {DayOf(e) : e \in rows} : h[d] = Sum(f, {e \in some : DayOf(e) = d})
  PROVE  Sum(h, {DayOf(e) : e \in rows}) = Sum(f, some)
<1> DEFINE days == {DayOf(e) : e \in rows}
           key == [e \in rows |-> DayOf(e)]
           part == [d \in days |-> {e \in some : DayOf(e) = d}]
<1>1. IsFiniteSet(some)
  BY FS_Subset
<1>2. IsFiniteSet(days)
  <2>1. key \in Surjection(rows, days)
    BY DEF Surjection
  <2> QED BY <2>1, FS_Surjection
<1>3. \A e \in some : key[e] \in days
  OBVIOUS
<1>4. \A d \in days : part[d] \subseteq some /\ \A e \in some : e \in part[d] <=> key[e] = d
  OBVIOUS
<1>5. \A d \in days : h[d] = Sum(f, part[d])
  OBVIOUS
<1> HIDE DEF days, key, part
<1>6. Sum(h, days) = Sum(f, some)
  BY <1>1, <1>2, <1>3, <1>4, <1>5, SumByKey
<1> QED BY <1>6 DEF days

(* The days and the period are the same rows, cut in two ways.             *)
LEMMA FiguresReconcile ==
  ASSUME stored \in SUBSET Entry, IsFiniteSet(stored) PROVE TotalsReconcile
<1> DEFINE current == Current(stored)
           days == Days(stored)
           dates == {DayOf(e) : e \in current}
           of(figure) == [d \in DOMAIN days |-> days[d][figure]]
           On(d) == {e \in current : DayOf(e) = d}
<1>1. current \in SUBSET stored /\ current \in SUBSET Entry /\ IsFiniteSet(current)
  BY FS_Subset DEF Current
<1>2. DOMAIN days = dates
  BY DEF Days
<1>3. ASSUME NEW d \in dates
      PROVE  /\ of("spent")[d] = SumOf(Outgoing(On(d)), Spending)
             /\ of("received")[d] = SumOf(Incoming(On(d)), Cents)
             /\ of("count")[d] = Cardinality(On(d))
  BY <1>2 DEF Days
<1>4. ASSUME NEW figure PROVE SumFunction(of(figure)) = Sum(of(figure), dates)
  BY <1>2 DEF SumFunction, Sum
<1> HIDE DEF current, days, of
<1>5. SumFunction(of("spent")) = SumOf(Outgoing(current), Spending)
  <2> DEFINE f == AmountIn(current, Spending)
  <2>1. Outgoing(current) \in SUBSET current
    BY DEF Outgoing
  <2>2. SumOf(Outgoing(current), Spending) = Sum(f, Outgoing(current))
    BY <1>1, <2>1, SumOfIs, AmountTypes
  <2>3. \A e \in Outgoing(current) : f[e] \in Int
    BY <1>1, <2>1, SumOfIs, AmountTypes
  <2>4. ASSUME NEW d \in dates
        PROVE  of("spent")[d] = Sum(f, {e \in Outgoing(current) : DayOf(e) = d})
    <3>1. /\ Outgoing(On(d)) = {e \in Outgoing(current) : DayOf(e) = d}
          /\ Outgoing(On(d)) \in SUBSET current
      BY DEF Outgoing
    <3>2. SumOf(Outgoing(On(d)), Spending) = Sum(f, Outgoing(On(d)))
      BY <1>1, <3>1, SumOfIs, AmountTypes
    <3> QED BY <1>3, <3>1, <3>2
  <2> HIDE DEF f
  <2>5. Sum(of("spent"), dates) = Sum(f, Outgoing(current))
    BY <1>1, <2>1, <2>3, <2>4, DaysAddUp
  <2> QED BY <1>4, <2>2, <2>5
<1>6. SumFunction(of("received")) = SumOf(Incoming(current), Cents)
  <2> DEFINE f == AmountIn(current, Cents)
  <2>1. Incoming(current) \in SUBSET current
    BY DEF Incoming
  <2>2. SumOf(Incoming(current), Cents) = Sum(f, Incoming(current))
    BY <1>1, <2>1, SumOfIs, AmountTypes
  <2>3. \A e \in Incoming(current) : f[e] \in Int
    BY <1>1, <2>1, SumOfIs, AmountTypes
  <2>4. ASSUME NEW d \in dates
        PROVE  of("received")[d] = Sum(f, {e \in Incoming(current) : DayOf(e) = d})
    <3>1. /\ Incoming(On(d)) = {e \in Incoming(current) : DayOf(e) = d}
          /\ Incoming(On(d)) \in SUBSET current
      BY DEF Incoming
    <3>2. SumOf(Incoming(On(d)), Cents) = Sum(f, Incoming(On(d)))
      BY <1>1, <3>1, SumOfIs, AmountTypes
    <3> QED BY <1>3, <3>1, <3>2
  <2> HIDE DEF f
  <2>5. Sum(of("received"), dates) = Sum(f, Incoming(current))
    BY <1>1, <2>1, <2>3, <2>4, DaysAddUp
  <2> QED BY <1>4, <2>2, <2>5
<1>7. SumFunction(of("count")) + Cardinality(Upcoming(stored)) = Cardinality(stored)
  <2> DEFINE one == [e \in stored |-> 1]
  <2>1. ASSUME NEW some \in SUBSET stored
        PROVE  IsFiniteSet(some) /\ Sum(one, some) = Cardinality(some)
    <3>1. IsFiniteSet(some) /\ \A e \in some : one[e] = 1
      BY FS_Subset
    <3> HIDE DEF one
    <3> QED BY <3>1, SumOfOnes
  <2>2. \A e \in stored : one[e] \in Int
    OBVIOUS
  <2> HIDE DEF one
  <2>3. ASSUME NEW d \in dates PROVE of("count")[d] = Sum(one, {e \in current : DayOf(e) = d})
    <3>1. On(d) \in SUBSET stored
      BY <1>1
    <3> QED BY <1>3, <2>1, <3>1
  <2>4. Sum(of("count"), dates) = Sum(one, current)
    BY <1>1, <2>2, <2>3, DaysAddUp
  <2>5. stored = current \cup Upcoming(stored) /\ current \cap Upcoming(stored) = {}
    BY <1>1 DEF Upcoming, current
  <2>6. Upcoming(stored) \in SUBSET stored
    BY DEF Upcoming
  <2>7. Sum(one, current \cup Upcoming(stored)) = Sum(one, current) + Sum(one, Upcoming(stored))
    BY <1>1, <2>1, <2>2, <2>5, <2>6, SumJoined
  <2> QED BY <1>1, <1>4, <2>1, <2>4, <2>5, <2>6, <2>7
<1>8. SumOf(Incoming(current), Cents) - SumOf(Outgoing(current), Spending)
        = Groups(stored)[FALSE] - SumOf(Upcoming(stored) \ Moved(stored), Cents)
  <2> DEFINE f == AmountIn(stored, Cents)
             g == AmountIn(stored, Spending)
             late == Upcoming(stored) \ Moved(stored)
             still == {e \in current : Cents[IdOf(e)] = 0 /\ IdOf(e) \notin Transfers}
             listed == {e \in stored : (IdOf(e) \in Transfers) = FALSE}
  <2>1. /\ Incoming(current) \in SUBSET stored /\ Outgoing(current) \in SUBSET stored
        /\ late \in SUBSET stored /\ still \in SUBSET stored /\ listed \in SUBSET stored
    BY <1>1 DEF Incoming, Outgoing, Upcoming
  <2>2. \A some \in SUBSET stored : IsFiniteSet(some) /\ Sum(f, some) \in Int
                                    /\ SumOf(some, Cents) = Sum(f, some)
                                    /\ SumOf(some, Spending) = Sum(g, some)
    BY SumOfIs, AmountTypes
  <2>3. \A e \in stored : f[e] = Cents[IdOf(e)] /\ f[e] \in Int /\ g[e] = -f[e]
    BY SumOfIs, AmountTypes, RankTypes
  <2>4. Groups(stored)[FALSE] = SumOf(listed, Cents)
    BY DEF Groups
  <2>5. /\ listed = ((Incoming(current) \cup Outgoing(current)) \cup still) \cup late
        /\ Incoming(current) \cap Outgoing(current) = {}
        /\ (Incoming(current) \cup Outgoing(current)) \cap still = {}
        /\ ((Incoming(current) \cup Outgoing(current)) \cup still) \cap late = {}
    BY <1>1, <2>3 DEF Incoming, Outgoing, Upcoming, Moved, current
  <2>6. \A e \in still : f[e] = 0
    BY <2>1, <2>3
  <2> HIDE DEF f, g, late, still, listed
  <2>7. Sum(f, still) = 0
    BY <2>1, <2>2, <2>6, SumOfZeros
  <2>8. Sum(g, Outgoing(current)) = -Sum(f, Outgoing(current))
    BY <2>1, <2>2, <2>3, SumNegated
  <2>9. ASSUME NEW S \in SUBSET stored, NEW T \in SUBSET stored, S \cap T = {}
        PROVE  Sum(f, S \cup T) = Sum(f, S) + Sum(f, T)
    <3>1. IsFiniteSet(S) /\ IsFiniteSet(T) /\ \A x \in S \cup T : f[x] \in Int
      BY <2>2, <2>3
    <3> QED BY <2>9, <3>1, SumJoined
  <2>10. Sum(f, Incoming(current) \cup Outgoing(current))
           = Sum(f, Incoming(current)) + Sum(f, Outgoing(current))
    BY <2>1, <2>5, <2>9
  <2>11. Sum(f, (Incoming(current) \cup Outgoing(current)) \cup still)
           = Sum(f, Incoming(current) \cup Outgoing(current)) + Sum(f, still)
    BY <2>1, <2>5, <2>9
  <2>12. Sum(f, listed)
           = Sum(f, (Incoming(current) \cup Outgoing(current)) \cup still) + Sum(f, late)
    BY <2>1, <2>5, <2>9
  <2>13. /\ Sum(f, Incoming(current)) \in Int /\ Sum(f, Outgoing(current)) \in Int
         /\ Sum(f, late) \in Int
    BY <2>1, <2>2
  <2>14. Sum(f, Incoming(current)) - Sum(g, Outgoing(current)) = Sum(f, listed) - Sum(f, late)
    BY <2>7, <2>8, <2>10, <2>11, <2>12, <2>13
  <2> QED BY <2>1, <2>2, <2>4, <2>14 DEF late
<1>9. /\ Summary(stored).spent = SumOf(Outgoing(current), Spending)
      /\ Summary(stored).received = SumOf(Incoming(current), Cents)
  BY DEF Summary, current
<1> QED BY <1>5, <1>6, <1>7, <1>8, <1>9 DEF TotalsReconcile, of, days

(* Instalments of a group are in a strict order, so one is the latest.     *)
Later(e, d) ==
  \/ Number[IdOf(d)] < Number[IdOf(e)]
  \/ Number[IdOf(d)] = Number[IdOf(e)] /\ Precedes(e, d)

(* Two instalments are always in that order, and it is transitive.         *)
LEMMA LaterIsOrder ==
  ASSUME NEW c \in Entry, NEW d \in Entry, NEW e \in Entry
  PROVE  /\ d = e \/ Later(d, e) \/ Later(e, d)
         /\ Later(c, d) /\ Later(d, e) => Later(c, e)
<1>1. \A r \in Entry : /\ r = <<IdOf(r), DayOf(r)>> /\ IdOf(r) \in Id /\ DayOf(r) \in Int
                       /\ LocaleRank[IdOf(r)] \in Int /\ Number[IdOf(r)] \in Nat
  <2>1. ASSUME NEW r \in Entry PROVE r = <<IdOf(r), DayOf(r)>> /\ IdOf(r) \in Id /\ DayOf(r) \in Day
    BY DEF Entry, IdOf, DayOf
  <2>2. /\ \A i \in Id : LocaleRank[i] \in Int /\ Number[i] \in Nat
        /\ \A day \in Day : day \in Int
    BY ListingAssumption, TotalsAssumption DEF ListingAssumption
  <2> QED BY <2>1, <2>2
<1>2. \A i, j \in Id : LocaleRank[i] = LocaleRank[j] => i = j
  BY ListingAssumption DEF ListingAssumption
<1>3. d = e \/ Later(d, e) \/ Later(e, d)
  <2>1. IdOf(d) = IdOf(e) /\ DayOf(d) = DayOf(e) => d = e
    BY <1>1
  <2>2. LocaleRank[IdOf(d)] = LocaleRank[IdOf(e)] => IdOf(d) = IdOf(e)
    BY <1>1, <1>2
  <2> QED BY <1>1, <2>1, <2>2 DEF Later, Precedes
<1>4. Later(c, d) /\ Later(d, e) => Later(c, e)
  BY <1>1 DEF Later, Precedes
<1> QED BY <1>3, <1>4

(* The one that is chosen has the greatest number of its group.            *)
LEMMA LatestIs ==
  ASSUME NEW group \in SUBSET Entry, IsFiniteSet(group), group # {}
  PROVE  /\ Latest(group) \in group
         /\ \A d \in group : Number[IdOf(d)] <= Number[IdOf(Latest(group))]
<1> DEFINE Ends(s, e) == \A d \in s \ {e} : Later(e, d)
           B == {s \in SUBSET group : s # {} /\ ~\E e \in s : Ends(s, e)}
<1>1. ASSUME B # {} PROVE FALSE
  <2>1. PICK s \in B : \A x \in s : s \ {x} \notin B
    BY <1>1, MinimalSubset
  <2>2. PICK x \in s : TRUE
    OBVIOUS
  <2>3. s \ {x} # {}
    <3> SUFFICES ASSUME s \ {x} = {} PROVE FALSE
      OBVIOUS
    <3>1. Ends(s, x)
      OBVIOUS
    <3> QED BY <3>1
  <2>4. PICK e \in s \ {x} : Ends(s \ {x}, e)
    BY <2>1, <2>2, <2>3
  <2>5. e \in Entry /\ x \in Entry /\ \A d \in s : d \in Entry
    OBVIOUS
  <2>6. CASE Later(e, x)
    <3>1. Ends(s, e)
      BY <2>4, <2>6
    <3> QED BY <3>1
  <2>7. CASE Later(x, e)
    <3>1. ASSUME NEW d \in s \ {x} PROVE Later(x, d)
      <4>1. d = e \/ Later(e, d)
        BY <2>4
      <4> QED BY <2>5, <2>7, <4>1, LaterIsOrder
    <3>2. Ends(s, x)
      BY <3>1
    <3> QED BY <2>2, <3>2
  <2> QED BY <2>5, <2>6, <2>7, LaterIsOrder
<1>2. \E e \in group : Ends(group, e)
  BY <1>1
<1>3. Latest(group) = CHOOSE e \in group : Ends(group, e)
  BY DEF Latest, Later
<1>4. Latest(group) \in group /\ Ends(group, Latest(group))
  BY <1>2, <1>3
<1>5. \A d \in group : Number[IdOf(d)] \in Nat
  BY RankTypes, TotalsAssumption
<1>6. ASSUME NEW d \in group PROVE Number[IdOf(d)] <= Number[IdOf(Latest(group))]
  <2>1. d = Latest(group) \/ Later(Latest(group), d)
    BY <1>4
  <2> QED BY <1>4, <1>5, <2>1 DEF Later
<1> QED BY <1>4, <1>6

(* What a group leaves to pay is a number of cents, none when it is        *)
(* settled.                                                                *)
LEMMA RemainingOfOne ==
  ASSUME NEW i \in Id
  PROVE  /\ Paid(i) \in Nat /\ Total[i] \in Nat /\ Number[i] \in Nat /\ Total[i] - Paid(i) \in Nat
         /\ Magnitude[i] * (Total[i] - Paid(i)) \in Int
         /\ ~(Total[i] - Paid(i) > 0) => Magnitude[i] * (Total[i] - Paid(i)) = 0
         /\ Magnitude[i] * (Total[i] - Paid(i))
              = IF Number[i] < Total[i] THEN Magnitude[i] * (Total[i] - Number[i]) ELSE 0
<1>1. Total[i] \in Nat /\ Number[i] \in Nat /\ Magnitude[i] \in Int
  BY TotalsAssumption, AmountTypes
<1>2. Paid(i) \in Nat /\ Paid(i) <= Total[i]
  BY <1>1 DEF Paid
<1>3. Total[i] - Paid(i) \in Nat
  BY <1>1, <1>2
<1>4. Magnitude[i] * (Total[i] - Paid(i)) \in Int
  BY <1>1, <1>3
<1>5. Magnitude[i] * 0 = 0
  BY <1>1
<1>6. ~(Total[i] - Paid(i) > 0) => Total[i] - Paid(i) = 0
  BY <1>3
<1>7. ~(Number[i] < Total[i]) => Total[i] - Paid(i) = 0
  BY <1>1 DEF Paid
<1>8. Number[i] < Total[i] => Paid(i) = Number[i]
  BY DEF Paid
<1> QED BY <1>1, <1>2, <1>3, <1>4, <1>5, <1>6, <1>7, <1>8

(* The groups are finitely many sets of instalments, none of them empty.   *)
LEMMA GroupsAre ==
  ASSUME NEW rows \in SUBSET Entry, IsFiniteSet(rows)
  PROVE  /\ IsFiniteSet(InstalmentGroups(rows))
         /\ \A g \in InstalmentGroups(rows) :
              /\ g \in SUBSET Instalments(rows) /\ Latest(g) \in g /\ IdOf(Latest(g)) \in Id
              /\ \A d \in g : Number[IdOf(d)] <= Number[IdOf(Latest(g))]
<1> DEFINE inst == Instalments(rows)
           group == [d \in inst |-> {e \in inst : InstalmentKey(e) = InstalmentKey(d)}]
<1>1. inst \in SUBSET rows /\ IsFiniteSet(inst)
  BY FS_Subset DEF Instalments
<1>2. InstalmentGroups(rows) = {group[d] : d \in inst}
  BY DEF InstalmentGroups
<1>3. group \in Surjection(inst, InstalmentGroups(rows))
  BY <1>2 DEF Surjection
<1>4. ASSUME NEW g \in InstalmentGroups(rows) PROVE g \in SUBSET inst /\ g # {}
  BY <1>2
<1> HIDE DEF inst, group
<1>5. IsFiniteSet(InstalmentGroups(rows))
  BY <1>1, <1>3, FS_Surjection
<1>6. ASSUME NEW g \in InstalmentGroups(rows)
      PROVE  /\ Latest(g) \in g /\ IdOf(Latest(g)) \in Id
             /\ \A d \in g : Number[IdOf(d)] <= Number[IdOf(Latest(g))]
  <2>1. g \in SUBSET Entry /\ IsFiniteSet(g)
    BY <1>1, <1>4, FS_Subset
  <2>2. /\ Latest(g) \in g
        /\ \A d \in g : Number[IdOf(d)] <= Number[IdOf(Latest(g))]
    BY <1>4, <2>1, LatestIs
  <2> QED BY <2>1, <2>2, RankTypes
<1> QED BY <1>4, <1>5, <1>6 DEF inst

(* The plans that are not open owe nothing.                                *)
LEMMA PlansAddUp ==
  ASSUME NEW rows \in SUBSET Entry, IsFiniteSet(rows)
  PROVE  RemainingTotal(rows) = SumFunction([p \in OpenPlans(rows) |-> p.remainingTotal])
<1> DEFINE groups == InstalmentGroups(rows)
           cents == [g \in groups |-> RemainingCents(g)]
           plan == [g \in groups |-> Plan(g)]
           open == {g \in groups : Plan(g).remaining > 0}
           owed == [p \in OpenPlans(rows) |-> p.remainingTotal]
<1>1. IsFiniteSet(groups) /\ \A g \in groups : IdOf(Latest(g)) \in Id
  BY GroupsAre
<1>2. ASSUME NEW g \in groups
      PROVE  /\ cents[g] = RemainingCents(g) /\ plan[g] = Plan(g) /\ cents[g] \in Int
             /\ Plan(g).remainingTotal = cents[g] /\ Plan(g).of = g
             /\ g \notin open => cents[g] = 0
  <2>1. IdOf(Latest(g)) \in Id
    BY <1>1
  <2> QED BY <2>1, RemainingOfOne DEF RemainingCents, Plan
<1>3. RemainingTotal(rows) = Sum(cents, groups)
  BY DEF RemainingTotal, SumFunction, Sum
<1>4. SumFunction(owed) = Sum(owed, OpenPlans(rows))
  BY DEF SumFunction, Sum
<1>5. /\ \A g \in open : plan[g] \in OpenPlans(rows)
      /\ \A p \in OpenPlans(rows) : \E g \in open : p = plan[g]
  BY DEF OpenPlans
<1>6. \A g \in open : owed[plan[g]] = cents[g]
  BY <1>2, <1>5
<1>7. open \in SUBSET groups
  OBVIOUS
<1> HIDE DEF groups, cents, plan, open, owed
<1>8. \A g, k \in open : plan[g] = plan[k] => g = k
  BY <1>2, <1>7
<1>9. IsFiniteSet(open) /\ IsFiniteSet(groups \ open) /\ groups = open \cup (groups \ open)
  BY <1>1, <1>7, FS_Subset
<1>10. Sum(cents, open \cup (groups \ open)) = Sum(cents, open) + Sum(cents, groups \ open)
  <2>1. \A g \in open \cup (groups \ open) : cents[g] \in Int
    BY <1>2, <1>7
  <2>2. open \cap (groups \ open) = {}
    OBVIOUS
  <2> QED BY <1>9, <2>1, <2>2, SumJoined
<1>11. Sum(cents, groups \ open) = 0
  <2>1. \A g \in groups \ open : cents[g] = 0
    BY <1>2
  <2> QED BY <1>9, <2>1, SumOfZeros
<1>12. \A g \in open : cents[g] \in Int
  BY <1>2, <1>7
<1>13. Sum(cents, open) \in Int
  BY <1>9, <1>12, SumInt
<1>14. Sum(owed, OpenPlans(rows)) = Sum(cents, open)
  BY <1>5, <1>6, <1>8, <1>9, <1>12, SumRenamed
<1>15. Sum(cents, groups) = Sum(cents, open)
  <2>1. Sum(cents, groups) = Sum(cents, open) + Sum(cents, groups \ open)
    BY <1>9, <1>10, Zenon
  <2> QED BY <1>11, <1>13, <2>1
<1> QED BY <1>3, <1>4, <1>14, <1>15 DEF owed

(* One group for each purchase owes what its furthest instalment leaves.   *)
LEMMA RemainingReconciles ==
  ASSUME stored \in SUBSET Entry, IsFiniteSet(stored) PROVE RemainingIsOwed
<1> DEFINE rows == Instalments(stored)
           Unpaid(p) == {e \in rows : Purchase[IdOf(e)] = p}
           Furthest(p) == CHOOSE e \in Unpaid(p) :
             \A d \in Unpaid(p) : Number[IdOf(d)] <= Number[IdOf(e)]
           Owed(p) ==
             LET i == IdOf(Furthest(p)) IN
             IF Number[i] < Total[i] THEN Magnitude[i] * (Total[i] - Number[i]) ELSE 0
           OnePerKey == \A d, e \in rows :
             InstalmentKey(d) = InstalmentKey(e) <=> Purchase[IdOf(d)] = Purchase[IdOf(e)]
           CopiesAgree == \A d, e \in rows :
             /\ Purchase[IdOf(d)] = Purchase[IdOf(e)] /\ Number[IdOf(d)] = Number[IdOf(e)]
             => Total[IdOf(d)] = Total[IdOf(e)] /\ Magnitude[IdOf(d)] = Magnitude[IdOf(e)]
           purchases == {Purchase[IdOf(e)] : e \in rows}
           owed == [p \in purchases |-> Owed(p)]
           groups == InstalmentGroups(stored)
           cents == [g \in groups |-> RemainingCents(g)]
           name == [g \in groups |-> Purchase[IdOf(Latest(g))]]
<1>1. ASSUME OnePerKey, CopiesAgree PROVE RemainingTotal(stored) = SumFunction(owed)
  <2>1. /\ IsFiniteSet(groups)
        /\ \A g \in groups : /\ g \in SUBSET rows /\ Latest(g) \in g /\ IdOf(Latest(g)) \in Id
                             /\ \A d \in g : Number[IdOf(d)] <= Number[IdOf(Latest(g))]
    BY GroupsAre
  <2>2. \A e \in rows : e \in Entry /\ IdOf(e) \in Id /\ Number[IdOf(e)] \in Nat
    BY RankTypes, TotalsAssumption DEF Instalments
  <2>3. ASSUME NEW d \in rows PROVE Unpaid(Purchase[IdOf(d)]) \in groups
    <3>1. Unpaid(Purchase[IdOf(d)]) = {e \in rows : InstalmentKey(e) = InstalmentKey(d)}
      BY <1>1
    <3> QED BY <3>1 DEF InstalmentGroups
  <2>4. ASSUME NEW g \in groups PROVE name[g] \in purchases /\ g = Unpaid(name[g])
    <3>1. PICK d \in rows : g = {e \in rows : InstalmentKey(e) = InstalmentKey(d)}
      BY DEF InstalmentGroups
    <3>2. g = Unpaid(Purchase[IdOf(d)])
      BY <1>1, <3>1
    <3>3. Purchase[IdOf(Latest(g))] = Purchase[IdOf(d)]
      BY <2>1, <3>2
    <3> QED BY <3>2, <3>3
  <2>5. ASSUME NEW g \in groups PROVE owed[name[g]] = cents[g] /\ cents[g] \in Int
    <3> DEFINE p == name[g]
               i == IdOf(Latest(g))
               j == IdOf(Furthest(p))
    <3>1. p \in purchases /\ g = Unpaid(p) /\ Latest(g) \in g /\ g \in SUBSET rows
      BY <2>1, <2>4
    <3>2. Furthest(p) \in Unpaid(p) /\ \A d \in Unpaid(p) : Number[IdOf(d)] <= Number[j]
      <4>1. \E e \in Unpaid(p) : \A d \in Unpaid(p) : Number[IdOf(d)] <= Number[IdOf(e)]
        BY <2>1, <3>1
      <4> HIDE DEF p
      <4> QED BY <4>1
    <3>3. Furthest(p) \in rows /\ Latest(g) \in rows
      BY <3>1, <3>2
    <3>4. i \in Id /\ j \in Id /\ Number[i] \in Nat /\ Number[j] \in Nat
      BY <2>2, <3>3
    <3>5. Number[i] <= Number[j] /\ Number[j] <= Number[i]
      BY <2>1, <3>1, <3>2
    <3>6. Number[i] = Number[j]
      BY <3>4, <3>5
    <3>7. Purchase[i] = p /\ Purchase[j] = p
      BY <3>1, <3>2
    <3>8. Total[i] = Total[j] /\ Magnitude[i] = Magnitude[j]
      BY <1>1, <3>3, <3>6, <3>7
    <3>9. cents[g] = Magnitude[i] * (Total[i] - Paid(i)) /\ cents[g] \in Int
      BY <3>4, RemainingOfOne DEF RemainingCents
    <3>10. cents[g] = IF Number[i] < Total[i] THEN Magnitude[i] * (Total[i] - Number[i]) ELSE 0
      BY <3>4, <3>9, RemainingOfOne
    <3>11. owed[p] = IF Number[j] < Total[j] THEN Magnitude[j] * (Total[j] - Number[j]) ELSE 0
      BY <3>1
    <3> QED BY <3>6, <3>8, <3>9, <3>10, <3>11
  <2>6. \A p \in purchases : \E g \in groups : p = name[g]
    <3> SUFFICES ASSUME NEW d \in rows PROVE \E g \in groups : Purchase[IdOf(d)] = name[g]
      OBVIOUS
    <3> DEFINE g == Unpaid(Purchase[IdOf(d)])
    <3>1. g \in groups
      BY <2>3
    <3>2. Latest(g) \in g
      BY <2>1, <3>1
    <3>3. name[g] = Purchase[IdOf(d)]
      BY <3>1, <3>2
    <3> QED BY <3>1, <3>3
  <2>7. \A g, k \in groups : name[g] = name[k] => g = k
    BY <2>4
  <2>8. RemainingTotal(stored) = Sum(cents, groups) /\ SumFunction(owed) = Sum(owed, purchases)
    BY DEF RemainingTotal, SumFunction, Sum
  <2> HIDE DEF rows, Unpaid, OnePerKey, CopiesAgree, purchases, owed, groups, cents, name
  <2>9. Sum(owed, purchases) = Sum(cents, groups)
    BY <2>1, <2>4, <2>5, <2>6, <2>7, SumRenamed
  <2> QED BY <2>8, <2>9
<1>2. RemainingTotal(stored) = SumFunction([p \in OpenPlans(stored) |-> p.remainingTotal])
  BY PlansAddUp
<1> QED BY <1>1, <1>2 DEF RemainingIsOwed

(* A total, the days and the groups of one answer are sums over the same   *)
(* rows that split them differently, and agree in cents, for any amounts,  *)
(* transfers and dates (getTransactions, service.ts 202-259).              *)
THEOREM FiguresAgree == Spec => []TotalsReconcile
<1>1. StoredIsFinite => TotalsReconcile
  BY FiguresReconcile DEF StoredIsFinite
<1> QED BY <1>1, StoredStaysFinite, PTL

(* What listInstalmentPlans says remains to be paid is what the open plans *)
(* add up to, and where purchases can be told apart what is owed on each   *)
(* of them, once, by its latest instalment (service.ts 428-493, 793-801).  *)
THEOREM RemainingIsWhatIsOwed == Spec => []RemainingIsOwed
<1>1. StoredIsFinite => RemainingIsOwed
  BY RemainingReconciles DEF StoredIsFinite
<1> QED BY <1>1, StoredStaysFinite, PTL

=============================================================================
