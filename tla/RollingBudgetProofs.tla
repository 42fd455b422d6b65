--------------------------- MODULE RollingBudgetProofs ---------------------------
(***************************************************************************)
(* What holds of the reservations of a rolling budget for every number of  *)
(* runs, executions and calls, and whatever the policies allow.  There are *)
(* two invariants: what each call and its owner say of each other, and     *)
(* what the amounts in the window add up to.                               *)
(***************************************************************************)
EXTENDS RollingBudget, FiniteSets, TLAPS, FiniteSetTheorems, WellFoundedInduction

(***************************************************************************)
(* Sums over finite sets.  Induction is over the subsets of a finite set.  *)
(***************************************************************************)
(* A nonempty set of natural numbers has a least element.                  *)
LEMMA LeastOf ==
  ASSUME NEW S \in SUBSET Nat, S # {}
  PROVE  \E n \in S : \A m \in S : n <= m
<1> DEFINE R == OpToRel(<, Nat)
<1>1. IsWellFoundedOn(R, Nat)
  BY NatLessThanWellFounded, Zenon
<1> HIDE DEF R
<1>2. PICK n \in S : \A m \in S : ~(<<m, n>> \in R)
  BY <1>1, WFMin
<1>3. ASSUME NEW m \in S PROVE n <= m
  <2>1. ~(<<m, n>> \in R)
    BY <1>2
  <2>2. ~(m < n)
    BY <2>1 DEF R, OpToRel
  <2> QED
    BY <2>2
<1> QED
  BY <1>3

(* Induction over the subsets of a finite set: a collection that contains  *)
(* a set as soon as it contains the sets with one element less.            *)
LEMMA SubsetInduction ==
  ASSUME NEW U, IsFiniteSet(U), NEW Good,
         \A s \in SUBSET U : (\A x \in s : s \ {x} \in Good) => s \in Good
  PROVE  \A s \in SUBSET U : s \in Good
<1> DEFINE Bad == {s \in SUBSET U : s \notin Good}
           Sizes == {Cardinality(s) : s \in Bad}
<1> SUFFICES ASSUME Bad # {} PROVE FALSE
  OBVIOUS
<1>1. \A s \in Bad : IsFiniteSet(s) /\ Cardinality(s) \in Nat
  BY FS_Subset, FS_CardinalityType
<1>2. Sizes \in SUBSET Nat /\ Sizes # {}
  BY <1>1
<1>3. PICK n \in Sizes : \A m \in Sizes : n <= m
  <2> HIDE DEF Sizes
  <2> QED
    BY <1>2, LeastOf
<1>4. PICK s \in Bad : Cardinality(s) = n
  BY <1>3
<1>5. \A x \in s : s \ {x} \in Good
  <2> SUFFICES ASSUME NEW x \in s, s \ {x} \notin Good PROVE FALSE
    OBVIOUS
  <2>1. s \ {x} \in Bad
    BY <1>4
  <2>2. Cardinality(s \ {x}) = Cardinality(s) - 1
    BY <1>1, <1>4, FS_RemoveElement
  <2>3. n <= Cardinality(s \ {x})
    BY <1>3, <2>1
  <2> QED
    BY <1>1, <1>4, <2>2, <2>3
<1> QED
  BY <1>4, <1>5

---------------------------------------------------------------------------
AnyOf(s) == CHOOSE x \in s : TRUE

(* F is the function the sum over S is defined with.                       *)
SumsUp(g, S, F) == F = [s \in SUBSET S |->
    IF s = {} THEN 0 ELSE g[AnyOf(s)] + F[s \ {AnyOf(s)}]]

LEMMA SumIs == ASSUME NEW g, NEW S PROVE SumFunctionOnSet(g, S) = (CHOOSE F : SumsUp(g, S, F))[S]
BY DEF SumFunctionOnSet, FoldFunctionOnSet, MapThenFoldSet, SumsUp, AnyOf

LEMMA AnyOfIs == ASSUME NEW s, s # {} PROVE AnyOf(s) \in s
BY DEF AnyOf

(* The equation of the recursion                                           *)
SumEquation(g, s) ==
    SumFunctionOnSet(g, s) = IF s = {} THEN 0 ELSE g[AnyOf(s)] + SumFunctionOnSet(g, s \ {AnyOf(s)})

LEMMA SumRecursion ==
  ASSUME NEW U, IsFiniteSet(U), NEW g
  PROVE  \A S \in SUBSET U : SumEquation(g, S)
<1> DEFINE Good == {S \in SUBSET U : \A s \in SUBSET S : SumEquation(g, s)}
<1>1. ASSUME NEW S \in SUBSET U, \A x \in S : S \ {x} \in Good
      PROVE  S \in Good
  <2> DEFINE F == [s \in SUBSET S |->
               IF s = {} THEN 0 ELSE g[AnyOf(s)] + SumFunctionOnSet(g, s \ {AnyOf(s)})]
             H == CHOOSE G : SumsUp(g, S, G)
  <2>1. \A s \in SUBSET S : s # S => SumEquation(g, s)
    <3> SUFFICES ASSUME NEW s \in SUBSET S, s # S PROVE SumEquation(g, s)
      OBVIOUS
    <3>1. PICK x \in S : x \notin s
      OBVIOUS
    <3>2. s \in SUBSET (S \ {x})
      BY <3>1
    <3> QED
      BY <1>1, <3>2
  <2>2. \A s \in SUBSET S : s # {} =>
           AnyOf(s) \in s /\ s \ {AnyOf(s)} \in SUBSET S /\ s \ {AnyOf(s)} # S
    BY AnyOfIs
  <2>3. \A s \in SUBSET S : s # S => F[s] = SumFunctionOnSet(g, s)
    BY <2>1 DEF SumEquation
  <2>4. SumsUp(g, S, F)
    <3>1. \A s \in SUBSET S :
            F[s] = IF s = {} THEN 0 ELSE g[AnyOf(s)] + F[s \ {AnyOf(s)}]
      <4> SUFFICES ASSUME NEW s \in SUBSET S
                   PROVE F[s] = IF s = {} THEN 0 ELSE g[AnyOf(s)] + F[s \ {AnyOf(s)}]
        OBVIOUS
      <4>1. F[s] = IF s = {} THEN 0 ELSE g[AnyOf(s)] + SumFunctionOnSet(g, s \ {AnyOf(s)})
        OBVIOUS
      <4> HIDE DEF F
      <4> QED
        BY <4>1, <2>2, <2>3
    <3> QED
      BY <3>1 DEF SumsUp
  <2>5. SumsUp(g, S, H)
    <3> HIDE DEF F
    <3> QED
      BY <2>4
  <2> HIDE DEF H, F
  <2>6. \A s \in SUBSET S :
          /\ H[s] = IF s = {} THEN 0 ELSE g[AnyOf(s)] + H[s \ {AnyOf(s)}]
          /\ F[s] = IF s = {} THEN 0 ELSE g[AnyOf(s)] + F[s \ {AnyOf(s)}]
    <3> DEFINE Ex(G) == [s \in SUBSET S |->
                 IF s = {} THEN 0 ELSE g[AnyOf(s)] + G[s \ {AnyOf(s)}]]
    <3>1. H = Ex(H) /\ F = Ex(F)
      BY <2>4, <2>5 DEF SumsUp
    <3>2. ASSUME NEW s \in SUBSET S, NEW G
          PROVE Ex(G)[s] = IF s = {} THEN 0 ELSE g[AnyOf(s)] + G[s \ {AnyOf(s)}]
      OBVIOUS
    <3> HIDE DEF Ex
    <3> QED
      BY <3>1, <3>2
  <2>7. \A s \in SUBSET S : H[s] = F[s]
    <3> DEFINE Same == {s \in SUBSET S : H[s] = F[s]}
    <3>1. ASSUME NEW s \in SUBSET S, \A x \in s : s \ {x} \in Same PROVE s \in Same
      <4>1. CASE s = {}
        BY <2>6, <4>1
      <4>2. CASE s # {}
        BY <2>2, <2>6, <3>1, <4>2
      <4> QED
        BY <4>1, <4>2
    <3>2. IsFiniteSet(S)
      BY FS_Subset
    <3>3. \A s \in SUBSET S : s \in Same
      <4> HIDE DEF Same
      <4> QED
        BY <3>1, <3>2, SubsetInduction
    <3> QED
      BY <3>3
  <2>8. SumFunctionOnSet(g, S) = H[S]
    BY SumIs DEF H
  <2>9. SumEquation(g, S)
    <3>1. CASE S = {}
      BY <2>6, <2>8, <3>1 DEF SumEquation
    <3>2. CASE S # {}
      BY <2>2, <2>3, <2>6, <2>7, <2>8, <3>2 DEF SumEquation
    <3> QED
      BY <3>1, <3>2
  <2> QED
    BY <2>1, <2>9
<1>2. \A S \in SUBSET U : S \in Good
  <2> HIDE DEF Good
  <2> QED
    BY <1>1, SubsetInduction
<1> QED
  BY <1>2

LEMMA SumEmpty == ASSUME NEW g PROVE SumFunctionOnSet(g, {}) = 0
BY SumRecursion, FS_EmptySet DEF SumEquation

LEMMA SumNat ==
  ASSUME NEW S, IsFiniteSet(S), NEW g, \A k \in S : g[k] \in Nat
  PROVE  \A s \in SUBSET S : SumFunctionOnSet(g, s) \in Nat
<1> DEFINE Good == {s \in SUBSET S : SumFunctionOnSet(g, s) \in Nat}
<1>1. ASSUME NEW s \in SUBSET S, \A x \in s : s \ {x} \in Good PROVE s \in Good
  <2>1. CASE s = {}
    BY <2>1, SumEmpty
  <2>2. CASE s # {}
    <3>1. SumFunctionOnSet(g, s) = g[AnyOf(s)] + SumFunctionOnSet(g, s \ {AnyOf(s)})
      BY <2>2, SumRecursion DEF SumEquation
    <3> QED
      BY <1>1, <2>2, <3>1, AnyOfIs
  <2> QED
    BY <2>1, <2>2
<1>2. \A s \in SUBSET S : s \in Good
  <2> HIDE DEF Good
  <2> QED
    BY <1>1, SubsetInduction
<1> QED
  BY <1>2

(* Any element may be taken out of the sum.                                *)
LEMMA SumWithout ==
  ASSUME NEW S, IsFiniteSet(S), NEW g, \A k \in S : g[k] \in Nat, NEW x \in S
  PROVE  SumFunctionOnSet(g, S) = g[x] + SumFunctionOnSet(g, S \ {x})
<1> DEFINE Splits(s) == \A y \in s : SumFunctionOnSet(g, s) = g[y] + SumFunctionOnSet(g, s \ {y})
           Good == {s \in SUBSET S : Splits(s)}
<1>1. ASSUME NEW s \in SUBSET S, \A y \in s : s \ {y} \in Good PROVE s \in Good
  <2> SUFFICES ASSUME NEW y \in s PROVE SumFunctionOnSet(g, s) = g[y] + SumFunctionOnSet(g, s \ {y})
    OBVIOUS
  <2> DEFINE c == AnyOf(s)
  <2>1. c \in s
    BY AnyOfIs
  <2>2. SumFunctionOnSet(g, s) = g[c] + SumFunctionOnSet(g, s \ {c})
    BY SumRecursion DEF SumEquation
  <2> HIDE DEF c
  <2>3. CASE y = c
    BY <2>2, <2>3
  <2>4. CASE y # c
    <3>1. SumFunctionOnSet(g, s \ {c}) = g[y] + SumFunctionOnSet(g, (s \ {c}) \ {y})
      BY <1>1, <2>1, <2>4
    <3>2. SumFunctionOnSet(g, s \ {y}) = g[c] + SumFunctionOnSet(g, (s \ {y}) \ {c})
      BY <1>1, <2>1, <2>4
    <3>3. (s \ {c}) \ {y} = (s \ {y}) \ {c}
      OBVIOUS
    <3>4. g[c] \in Nat /\ g[y] \in Nat /\ SumFunctionOnSet(g, (s \ {c}) \ {y}) \in Nat
      BY <2>1, SumNat
    <3> QED
      BY <2>2, <3>1, <3>2, <3>3, <3>4
  <2> QED
    BY <2>3, <2>4
<1>2. \A s \in SUBSET S : s \in Good
  <2> HIDE DEF Good
  <2> QED
    BY <1>1, SubsetInduction
<1> QED
  BY <1>2

(* More elements or larger values do not make a sum smaller.               *)
LEMMA SumMonotone ==
  ASSUME NEW T, IsFiniteSet(T), NEW S \in SUBSET T, NEW f, NEW g,
         \A k \in T : f[k] \in Nat /\ g[k] \in Nat, \A k \in S : f[k] <= g[k]
  PROVE  SumFunctionOnSet(f, S) <= SumFunctionOnSet(g, T)
<1> DEFINE Less(t) == SumFunctionOnSet(f, S \cap t) <= SumFunctionOnSet(g, t)
           Good == {t \in SUBSET T : Less(t)}
<1>1. ASSUME NEW t \in SUBSET T, \A x \in t : t \ {x} \in Good PROVE t \in Good
  <2>1. CASE t = {}
    BY <2>1, SumEmpty
  <2>2. CASE t # {}
    <3>1. PICK x \in t : TRUE
      BY <2>2
    <3>2. IsFiniteSet(t) /\ IsFiniteSet(S \cap t)
      BY FS_Subset
    <3>3. SumFunctionOnSet(g, t) = g[x] + SumFunctionOnSet(g, t \ {x})
      BY <3>2, SumWithout
    <3>4. SumFunctionOnSet(f, S \cap (t \ {x})) <= SumFunctionOnSet(g, t \ {x})
      BY <1>1
    <3>5. /\ SumFunctionOnSet(f, S \cap (t \ {x})) \in Nat /\ SumFunctionOnSet(g, t \ {x}) \in Nat
          /\ f[x] \in Nat /\ g[x] \in Nat
      <4>1. S \cap (t \ {x}) \in SUBSET T /\ t \ {x} \in SUBSET T
        OBVIOUS
      <4> QED
        BY <4>1, SumNat
    <3>6. CASE x \in S
      <4>1. (S \cap t) \ {x} = S \cap (t \ {x})
        OBVIOUS
      <4>2. SumFunctionOnSet(f, S \cap t) = f[x] + SumFunctionOnSet(f, (S \cap t) \ {x})
        BY <3>2, <3>6, SumWithout
      <4> QED
        BY <3>3, <3>4, <3>5, <3>6, <4>1, <4>2
    <3>7. CASE x \notin S
      <4>1. S \cap t = S \cap (t \ {x})
        BY <3>7
      <4>2. SumFunctionOnSet(f, S \cap t) = SumFunctionOnSet(f, S \cap (t \ {x}))
        BY <4>1
      <4> QED
        BY <3>3, <3>4, <3>5, <4>2
    <3> QED
      BY <3>6, <3>7
  <2> QED
    BY <2>1, <2>2
<1>2. T \in Good
  <2> HIDE DEF Good
  <2> QED
    BY <1>1, SubsetInduction
<1>3. S \cap T = S
  OBVIOUS
<1> QED
  BY <1>2, <1>3

(***************************************************************************)
(* The reservations                                                        *)
(***************************************************************************)
AtCall(o) == pc[o] \in {"calling", "performed", "failing"}

(* Calls and executions are numbered as they come.                         *)
Numbered ==
    /\ \A k \in Calls : k[2] > calls[k[1]] => status[k] = "none" /\ spent[k] = 0
    /\ \A o \in Owners : o[2] > fence[o[1]] => calls[o] = 0 /\ pc[o] = "stopped"
    /\ \A o \in Owners : AtCall(o) => calls[o] > 0

(* What is not performed yet costs nothing, and a billable action fails    *)
(* before it is performed only.                                            *)
Unspent == \A o \in Owners :
    pc[o] = "calling" \/ (pc[o] = "failing" /\ kind = "billable_action") =>
        spent[Current(o)] = 0

(* OnlyLosersUncounted, also for the call that its owner is about to make  *)
Lost == \A k \in Calls :
    /\ status[k] = "released" /\ kind = "billable_action"
    /\ spent[k] > 0 \/ (k = Current(k[1]) /\ pc[k[1]] = "calling")
    => ~LiveFenced(k[1])

Inv == TypeOK /\ Numbered /\ Unspent /\ Lost

USE DeploymentsAssumption, AmountsAssumption, KindsAssumption, BoundsAssumption, CallsAssumption

---------------------------------------------------------------------------
LEMMA OwnerShape ==
  ASSUME NEW o \in Owners PROVE o[1] \in Runs /\ o[2] \in Nat \ {0} /\ o = <<o[1], o[2]>>
BY DEF Owners

LEMMA CallShape ==
  ASSUME NEW k \in Calls
  PROVE  /\ k[1] \in Owners /\ k[2] \in Nat \ {0} /\ k = <<k[1], k[2]>>
         /\ k[1][1] \in Runs /\ k[1][2] \in Nat
BY OwnerShape DEF Calls

LEMMA CurrentShape ==
  ASSUME TypeOK, NEW o \in Owners
  PROVE  /\ calls[o] \in Nat
         /\ calls[o] > 0 => Current(o) \in Calls
         /\ calls[o] < MaxCalls[o] => Following(o) \in Calls
         /\ Current(o)[1] = o /\ Current(o)[2] = calls[o]
         /\ Following(o)[1] = o /\ Following(o)[2] = calls[o] + 1
BY DEF TypeOK, Current, Following, Calls

LEMMA InitInv == Init => Inv
<1> SUFFICES ASSUME Init PROVE Inv
  OBVIOUS
<1>1. TypeOK
  BY DEF Init, TypeOK, PCs
<1>2. Numbered /\ Unspent /\ Lost
  BY CallShape DEF Init, Numbered, AtCall, Unspent, Lost
<1> QED
  BY <1>1, <1>2 DEF Inv

---------------------------------------------------------------------------
(* Reconciliation releases what is abandoned, and nothing else.            *)
LEMMA ReconciledIs ==
  ASSUME TypeOK
  PROVE  /\ Reconciled \in [Calls -> {"none", "reserved", "settled", "released"}]
         /\ \A k \in Calls :
              \/ Reconciled[k] = status[k]
              \/ /\ status[k] = "reserved" /\ Reconciled[k] = "released"
                 /\ ~LiveFenced(k[1])
BY DEF TypeOK, Reconciled, Abandoned, LiveFenced

LEMMA ReconciledInv ==
  ASSUME Inv, status' = Reconciled, UNCHANGED <<kind, now, runVars, calls, amountVars,
         historyVars>>,
         pc' = pc \/ \E o \in Owners : pc[o] = "idle" /\ pc' = [pc EXCEPT ![o] = "denied"]
  PROVE  Inv'
<1>1. /\ kind' = kind /\ now' = now /\ ended' = ended /\ fence' = fence /\ live' = live
      /\ calls' = calls /\ reservedAmount' = reservedAmount
      /\ settledAmount' = settledAmount /\ settledAt' = settledAt /\ spent' = spent
      /\ spentAt' = spentAt
  BY DEF runVars, amountVars, historyVars
<1>2. /\ status' \in [Calls -> {"none", "reserved", "settled", "released"}]
      /\ \A k \in Calls : \/ status'[k] = status[k]
                          \/ /\ status[k] = "reserved" /\ status'[k] = "released"
                             /\ ~LiveFenced(k[1])
  BY ReconciledIs DEF Inv
<1>3. /\ pc' \in [Owners -> PCs]
      /\ \A o \in Owners : pc'[o] = pc[o] \/ (pc[o] = "idle" /\ pc'[o] = "denied")
  BY DEF Inv, TypeOK, PCs
<1>4. TypeOK'
  BY <1>1, <1>2, <1>3 DEF Inv, TypeOK
<1>5. Numbered'
  BY <1>1, <1>2, <1>3, CallShape DEF Inv, Numbered, AtCall
<1>6. Unspent'
  BY <1>1, <1>3 DEF Inv, Unspent, Current
<1>7. Lost'
  <2> SUFFICES ASSUME NEW k \in Calls, status'[k] = "released", kind = "billable_action",
                      spent[k] > 0 \/ (k = Current(k[1]) /\ pc'[k[1]] = "calling")
               PROVE  ~LiveFenced(k[1])
    BY <1>1 DEF Lost, LiveFenced, Current
  <2>1. k[1] \in Owners
    BY CallShape
  <2>2. CASE status[k] = "released"
    BY <1>3, <2>1, <2>2 DEF Inv, Lost
  <2>3. CASE status[k] # "released"
    BY <1>2, <2>3
  <2> QED
    BY <2>2, <2>3
<1> QED
  BY <1>4, <1>5, <1>6, <1>7 DEF Inv

LEMMA ReserveInv == ASSUME Inv, NEW o \in Owners, Reserve(o) PROVE Inv'
<1> DEFINE f == Following(o)
<1>1. PICK amount \in ReservableAmounts :
        /\ status' = [Reconciled EXCEPT ![f] = "reserved"]
        /\ reservedAmount' = [reservedAmount EXCEPT ![f] = amount]
  BY DEF Reserve
<1>2. /\ kind' = kind /\ now' = now /\ ended' = ended /\ fence' = fence /\ live' = live
      /\ calls' = [calls EXCEPT ![o] = @ + 1] /\ pc' = [pc EXCEPT ![o] = "calling"]
      /\ settledAmount' = settledAmount /\ settledAt' = settledAt
      /\ spent' = spent /\ spentAt' = spentAt
      /\ pc[o] = "idle" /\ LiveFenced(o) /\ calls[o] < MaxCalls[o] /\ calls[o] \in Nat
      /\ MaxCalls[o] \in Nat
  BY DEF Reserve, Goto, MayCall, runVars, historyVars, Inv, TypeOK
<1>3. /\ f \in Calls /\ f[1] = o /\ f[2] = calls[o] + 1 /\ amount \in Nat
      /\ Current(o)' = f
  <2>1. amount \in Nat
    BY DEF ReservableAmounts
  <2>2. calls'[o] = calls[o] + 1
    BY <1>2 DEF Inv, TypeOK
  <2> QED
    BY <1>2, <2>1, <2>2, CurrentShape DEF Inv, Current, Following
<1>4. /\ status' \in [Calls -> {"none", "reserved", "settled", "released"}]
      /\ status'[f] = "reserved"
      /\ \A k \in Calls : k # f => \/ status'[k] = status[k]
                                   \/ /\ status[k] = "reserved" /\ status'[k] = "released"
                                      /\ ~LiveFenced(k[1])
  BY <1>1, <1>3, ReconciledIs DEF Inv
<1>5. /\ pc' \in [Owners -> PCs] /\ calls' \in [Owners -> Nat]
      /\ reservedAmount' \in [Calls -> Nat]
      /\ pc'[o] = "calling" /\ calls'[o] = calls[o] + 1
      /\ \A p \in Owners : p # o => pc'[p] = pc[p] /\ calls'[p] = calls[p]
  BY <1>1, <1>2, <1>3 DEF Inv, TypeOK, PCs
<1>6. spent[f] = 0
  BY <1>2, <1>3 DEF Inv, Numbered
<1>7. TypeOK'
  <2>1. \A p \in Owners : calls'[p] <= MaxCalls[p]
    BY <1>2, <1>5 DEF Inv, TypeOK
  <2> QED
    BY <1>2, <1>4, <1>5, <2>1 DEF Inv, TypeOK
<1>8. Numbered'
  <2>1. \A k \in Calls : k[2] > calls'[k[1]] => status'[k] = "none" /\ spent[k] = 0
    <3> SUFFICES ASSUME NEW k \in Calls, k[2] > calls'[k[1]]
                 PROVE  status'[k] = "none" /\ spent[k] = 0
      OBVIOUS
    <3>1. k # f /\ k[2] > calls[k[1]]
      BY <1>2, <1>3, <1>5, CallShape, CurrentShape DEF Inv
    <3> QED
      BY <1>4, <3>1 DEF Inv, Numbered
  <2>2. \A p \in Owners : p[2] > fence[p[1]] => calls'[p] = 0 /\ pc'[p] = "stopped"
    <3>1. ~(o[2] > fence[o[1]])
      BY <1>2 DEF Inv, Numbered
    <3> QED
      BY <1>5, <3>1 DEF Inv, Numbered
  <2>3. \A p \in Owners : AtCall(p)' => calls'[p] > 0
    BY <1>2, <1>5 DEF Inv, Numbered, AtCall
  <2> QED
    BY <1>2, <2>1, <2>2, <2>3 DEF Numbered
<1>9. Unspent'
  BY <1>2, <1>3, <1>5, <1>6 DEF Inv, Unspent, Current
<1>10. Lost'
  <2> SUFFICES ASSUME NEW k \in Calls, status'[k] = "released", kind = "billable_action",
                      spent[k] > 0 \/ (k = Current(k[1])' /\ pc'[k[1]] = "calling")
               PROVE  ~LiveFenced(k[1])
    BY <1>2 DEF Lost, LiveFenced, Current
  <2>1. k # f /\ k[1] \in Owners
    BY <1>4, CallShape
  <2>2. CASE status[k] = "released"
    <3>1. k = Current(k[1])' => k[1] # o
      BY <1>3, <2>1
    <3>2. k[1] # o => Current(k[1])' = Current(k[1]) /\ pc'[k[1]] = pc[k[1]]
      BY <1>5, <2>1 DEF Current
    <3> QED
      BY <2>2, <3>1, <3>2 DEF Inv, Lost
  <2>3. CASE status[k] # "released"
    BY <1>4, <2>1, <2>3
  <2> QED
    BY <2>2, <2>3
<1> QED
  BY <1>7, <1>8, <1>9, <1>10 DEF Inv

---------------------------------------------------------------------------
(* An execution goes on without touching the records.                      *)
LEMMA GoesOn ==
  ASSUME Inv, NEW o \in Owners, NEW l \in PCs, Goto(o, l),
         UNCHANGED <<kind, fence, calls, recordVars, historyVars>>,
         now' \in Nat, ended' \in [Runs -> BOOLEAN], live' \in [Runs -> BOOLEAN],
         \A r \in Runs : (ended[r] => ended'[r]) /\ (live'[r] => live[r]),
         pc[o] # "stopped",
         \/ l \in {"denied", "stopped"}
         \/ l = "failing" /\ MayFail(o)
         \/ l = "idle" /\ AtCall(o),
         l = "denied" => pc[o] = "idle"
  PROVE  Inv'
<1>1. /\ kind' = kind /\ fence' = fence /\ calls' = calls /\ status' = status
      /\ reservedAmount' = reservedAmount
      /\ settledAmount' = settledAmount /\ settledAt' = settledAt
      /\ spent' = spent /\ spentAt' = spentAt
  BY DEF recordVars, amountVars, historyVars
<1>2. /\ pc' \in [Owners -> PCs] /\ pc'[o] = l
      /\ \A p \in Owners : p # o => pc'[p] = pc[p]
  BY DEF Goto, Inv, TypeOK
<1>3. TypeOK'
  BY <1>1, <1>2 DEF Inv, TypeOK
<1>4. Numbered'
  BY <1>1, <1>2, CallShape DEF Inv, Numbered, AtCall, MayFail
<1>5. Unspent'
  BY <1>1, <1>2 DEF Inv, Unspent, Current, MayFail
<1>6. Lost'
  <2> SUFFICES ASSUME NEW k \in Calls, status[k] = "released", kind = "billable_action",
                      spent[k] > 0 \/ (k = Current(k[1]) /\ pc'[k[1]] = "calling")
               PROVE  ~LiveFenced(k[1])'
    BY <1>1 DEF Lost, Current
  <2>1. k[1] \in Owners /\ k[1][1] \in Runs
    BY CallShape
  <2>2. pc'[k[1]] = "calling" => pc[k[1]] = "calling"
    BY <1>2, <2>1
  <2>3. ~LiveFenced(k[1])
    BY <2>2 DEF Inv, Lost
  <2> QED
    BY <1>1, <2>1, <2>3 DEF LiveFenced
<1> QED
  BY <1>3, <1>4, <1>5, <1>6 DEF Inv

LEMMA OwnerGoesOnInv ==
  ASSUME Inv, NEW o \in Owners,
         StaleFence(o) \/ Exhaust(o) \/ CallFails(o) \/ Crash(o) \/ OutcomeUnwritten(o)
  PROVE  Inv'
<1>1. o[1] \in Runs
  BY OwnerShape
<1>2. CASE StaleFence(o) \/ CallFails(o) \/ Crash(o) \/ OutcomeUnwritten(o)
  <2>1. UNCHANGED <<kind, now, ended, fence, live, calls, recordVars, historyVars>>
    BY <1>2 DEF StaleFence, CallFails, Crash, OutcomeUnwritten, runVars
  <2>2. PICK l \in {"stopped", "failing", "idle"} :
          /\ Goto(o, l) /\ (l = "failing" => MayFail(o)) /\ (l = "idle" => AtCall(o))
          /\ pc[o] # "stopped"
    BY <1>2 DEF StaleFence, CallFails, Crash, OutcomeUnwritten, MayFail, AtCall
  <2> QED
    BY <2>1, <2>2, GoesOn DEF Inv, TypeOK, PCs
<1>3. CASE Exhaust(o)
  <2>1. /\ UNCHANGED <<kind, now, fence, calls, recordVars, historyVars>>
        /\ Goto(o, "stopped") /\ pc[o] = "denied"
    BY <1>3 DEF Exhaust
  <2>2. /\ ended' \in [Runs -> BOOLEAN] /\ live' \in [Runs -> BOOLEAN]
        /\ \A r \in Runs : (ended[r] => ended'[r]) /\ (live'[r] => live[r])
    BY <1>1, <1>3 DEF Exhaust, Inv, TypeOK
  <2> QED
    BY <2>1, <2>2, GoesOn DEF Inv, TypeOK, PCs
<1> QED
  BY <1>2, <1>3

LEMMA PerformInv == ASSUME Inv, NEW o \in Owners, Perform(o) PROVE Inv'
<1> DEFINE c == Current(o)
<1>1. /\ c \in Calls /\ c[1] = o /\ c[2] = calls[o] /\ calls[o] > 0
      /\ \A k \in Calls : k # c => k[1] # o \/ k # Current(k[1])
  BY CurrentShape DEF Inv, Numbered, AtCall, Perform, Current
<1>2. PICK cost \in Nat : spent' = [spent EXCEPT ![c] = cost]
  <2>1. o[1] \in Runs
    BY OwnerShape
  <2> QED
    BY <2>1 DEF Perform
<1>3. /\ kind' = kind /\ now' = now /\ ended' = ended /\ fence' = fence /\ live' = live
      /\ calls' = calls /\ status' = status /\ reservedAmount' = reservedAmount
      /\ settledAmount' = settledAmount /\ settledAt' = settledAt
      /\ spentAt' = [spentAt EXCEPT ![c] = now] /\ pc' = [pc EXCEPT ![o] = "performed"]
      /\ pc[o] = "calling"
  BY DEF Perform, Goto, runVars, recordVars, amountVars
<1>4. /\ pc'[o] = "performed" /\ \A p \in Owners : p # o => pc'[p] = pc[p]
      /\ \A k \in Calls : k # c => spent'[k] = spent[k]
  BY <1>1, <1>2, <1>3 DEF Inv, TypeOK
<1>5. TypeOK'
  BY <1>1, <1>2, <1>3 DEF Inv, TypeOK, PCs
<1>6. Numbered'
  BY <1>1, <1>3, <1>4, CallShape DEF Inv, Numbered, AtCall
<1>7. Unspent'
  <2> SUFFICES ASSUME NEW p \in Owners,
                      pc'[p] = "calling" \/ (pc'[p] = "failing" /\ kind = "billable_action")
               PROVE  spent'[Current(p)] = 0
    BY <1>3 DEF Unspent, Current
  <2>1. p # o
    BY <1>4
  <2>2. Current(p) \in Calls /\ Current(p) # c
    BY <1>1, <1>4, <2>1, CurrentShape DEF Inv, Numbered, AtCall
  <2> QED
    BY <1>4, <2>1, <2>2 DEF Inv, Unspent
<1>8. Lost'
  <2> SUFFICES ASSUME NEW k \in Calls, status[k] = "released", kind = "billable_action",
                      spent'[k] > 0 \/ (k = Current(k[1]) /\ pc'[k[1]] = "calling")
               PROVE  ~LiveFenced(k[1])
    BY <1>3 DEF Lost, LiveFenced, Current
  <2>1. spent[k] > 0 \/ (k = Current(k[1]) /\ pc[k[1]] = "calling")
    BY <1>1, <1>3, <1>4, CallShape
  <2> QED
    BY <2>1 DEF Inv, Lost
<1> QED
  BY <1>5, <1>6, <1>7, <1>8 DEF Inv

(* A call that is over: its reservation is settled or released, or was     *)
(* released before.                                                        *)
LEMMA SettleOrReleaseInv ==
  ASSUME Inv, NEW o \in Owners, Settle(o) \/ Release(o) PROVE Inv'
<1> DEFINE c == Current(o)
<1>1. /\ kind' = kind /\ now' = now /\ ended' = ended /\ fence' = fence /\ live' = live
      /\ calls' = calls /\ spent' = spent /\ spentAt' = spentAt
      /\ AtCall(o) /\ pc[o] # "calling"
  BY DEF Settle, Release, AtCall, runVars, historyVars
<1>2. c \in Calls /\ c[1] = o /\ c[2] = calls[o]
  BY <1>1, CurrentShape DEF Inv, Numbered
<1>3. PICK l \in {"idle", "stopped"} : pc' = [pc EXCEPT ![o] = l]
  BY DEF Settle, Release, Goto
<1>4. /\ status' \in [Calls -> {"none", "reserved", "settled", "released"}]
      /\ reservedAmount' = reservedAmount
      /\ settledAmount' \in [Calls -> Nat] /\ settledAt' \in [Calls -> Nat]
      /\ \A k \in Calls : k # c => status'[k] = status[k]
      /\ status[c] # "reserved" => status'[c] = status[c]
      /\ status[c] = "reserved" => status'[c] \in {"settled", "released"}
      /\ status[c] = "reserved" /\ status'[c] = "released" => pc[o] = "failing"
  <2>1. CASE Settle(o)
    <3>1. CASE status[c] = "reserved"
      <4>1. /\ status' = [status EXCEPT ![c] = "settled"]
            /\ settledAmount' = [settledAmount EXCEPT ![c] = spent[c]]
            /\ settledAt' = [settledAt EXCEPT ![c] = now]
            /\ reservedAmount' = reservedAmount
        BY <2>1, <3>1 DEF Settle, SettleRecord
      <4>2. spent[c] \in Nat /\ now \in Nat
        BY <1>2 DEF Inv, TypeOK
      <4> QED
        BY <1>2, <3>1, <4>1, <4>2 DEF Inv, TypeOK
    <3>2. CASE status[c] # "reserved"
      BY <2>1, <3>2 DEF Settle, SettleRecord, recordVars, amountVars, Inv, TypeOK
    <3> QED
      BY <3>1, <3>2
  <2>2. CASE Release(o)
    BY <1>2, <2>2 DEF Release, amountVars, Inv, TypeOK
  <2> QED
    BY <2>1, <2>2
<1>5. /\ pc' \in [Owners -> PCs] /\ pc'[o] = l /\ \A p \in Owners : p # o => pc'[p] = pc[p]
  BY <1>3 DEF Inv, TypeOK, PCs
<1>6. TypeOK'
  BY <1>1, <1>4, <1>5 DEF Inv, TypeOK
<1>7. Numbered'
  <2>1. calls[o] > 0 /\ ~(o[2] > fence[o[1]])
    BY <1>1 DEF Inv, Numbered, AtCall
  <2>2. ~(c[2] > calls[c[1]])
    BY <1>2, CurrentShape DEF Inv
  <2>3. ASSUME NEW k \in Calls, k[2] > calls'[k[1]]
        PROVE  status'[k] = "none" /\ spent'[k] = 0
    BY <1>1, <1>4, <2>2, <2>3, CallShape DEF Inv, Numbered
  <2>4. ASSUME NEW p \in Owners, p[2] > fence'[p[1]]
        PROVE  calls'[p] = 0 /\ pc'[p] = "stopped"
    BY <1>1, <1>5, <2>1, <2>4 DEF Inv, Numbered
  <2>5. ASSUME NEW p \in Owners, AtCall(p)'
        PROVE  calls'[p] > 0
    BY <1>1, <1>5, <2>1, <2>5 DEF Inv, Numbered, AtCall
  <2> QED
    BY <2>3, <2>4, <2>5 DEF Numbered
<1>8. Unspent'
  BY <1>1, <1>5 DEF Inv, Unspent, Current
<1>9. Lost'
  <2> SUFFICES ASSUME NEW k \in Calls, status'[k] = "released", kind = "billable_action",
                      spent[k] > 0 \/ (k = Current(k[1]) /\ pc'[k[1]] = "calling")
               PROVE  ~LiveFenced(k[1])
    BY <1>1 DEF Lost, LiveFenced, Current
  <2>1. CASE k = c /\ status[c] = "reserved"
    <3>1. pc[o] = "failing" /\ spent[c] = 0
      BY <1>4, <2>1 DEF Inv, Unspent
    <3> QED
      BY <1>2, <1>5, <2>1, <3>1
  <2>2. CASE ~(k = c /\ status[c] = "reserved")
    <3>1. status[k] = "released"
      BY <1>4, <2>2
    <3>2. pc'[k[1]] = "calling" => pc[k[1]] = "calling"
      BY <1>5, CallShape
    <3> QED
      BY <3>1, <3>2 DEF Inv, Lost
  <2> QED
    BY <2>1, <2>2
<1> QED
  BY <1>6, <1>7, <1>8, <1>9 DEF Inv

---------------------------------------------------------------------------
LEMMA AcquireInv == ASSUME Inv, NEW r \in Runs, Acquire(r) PROVE Inv'
<1> DEFINE n == <<r, fence[r] + 1>>
<1>1. /\ kind' = kind /\ now' = now /\ ended' = ended /\ fence' = [fence EXCEPT ![r] = @ + 1]
      /\ live' = [live EXCEPT ![r] = TRUE] /\ pc' = [pc EXCEPT ![n] = "idle"]
      /\ calls' = calls /\ status' = status /\ reservedAmount' = reservedAmount
      /\ settledAmount' = settledAmount /\ settledAt' = settledAt
      /\ spent' = spent /\ spentAt' = spentAt /\ ~live[r]
      /\ fence[r] \in Nat /\ fence[r] + 1 <= MaxFence[r]
  BY DEF Acquire, Goto, recordVars, amountVars, historyVars, Inv, TypeOK
<1>2. n \in Owners /\ n[1] = r /\ n[2] = fence[r] + 1
  BY <1>1 DEF Owners
<1>3. /\ calls[n] = 0 /\ fence'[r] = fence[r] + 1 /\ live'[r] = TRUE /\ pc'[n] = "idle"
      /\ \A p \in Owners : p # n => pc'[p] = pc[p]
      /\ \A z \in Runs : z # r => fence'[z] = fence[z] /\ live'[z] = live[z]
  BY <1>1, <1>2 DEF Inv, TypeOK, Numbered
<1>4. TypeOK'
  BY <1>1, <1>2 DEF Inv, TypeOK, PCs
<1>5. Numbered'
  <2>1. \A o \in Owners : o[2] > fence'[o[1]] => calls[o] = 0 /\ pc'[o] = "stopped"
    <3> SUFFICES ASSUME NEW o \in Owners, o[2] > fence'[o[1]]
                 PROVE  calls[o] = 0 /\ pc'[o] = "stopped"
      OBVIOUS
    <3>1. o[1] \in Runs /\ o[2] \in Nat /\ fence[o[1]] \in Nat
      BY OwnerShape DEF Inv, TypeOK
    <3>2. o # n /\ o[2] > fence[o[1]]
      BY <1>1, <1>2, <1>3, <3>1
    <3> QED
      BY <1>3, <3>2 DEF Inv, Numbered
  <2> QED
    BY <1>1, <1>3, <2>1 DEF Inv, Numbered, AtCall
<1>6. Unspent'
  BY <1>1, <1>3 DEF Inv, Unspent, Current
<1>7. Lost'
  <2> SUFFICES ASSUME NEW k \in Calls, status[k] = "released", kind = "billable_action",
                      spent[k] > 0 \/ (k = Current(k[1]) /\ pc'[k[1]] = "calling")
               PROVE  ~LiveFenced(k[1])'
    BY <1>1 DEF Lost, Current
  <2>1. k[1] \in Owners /\ k[1][1] \in Runs /\ k[1][2] \in Nat /\ calls[k[1]] \in Nat
    BY CallShape DEF Inv, TypeOK
  <2>2. k[1] # n
    <3>1. k[2] > 0
      BY CallShape
    <3> QED
      BY <1>3, <3>1 DEF Inv, Numbered
  <2>3. ~LiveFenced(k[1])
    BY <1>3, <2>1, <2>2 DEF Inv, Lost
  <2>4. ~(k[1][2] > fence[k[1][1]])
    <3>1. k[2] > 0
      BY CallShape
    <3> QED
      BY <2>1, <3>1 DEF Inv, Numbered
  <2>5. CASE k[1][1] # r
    BY <1>1, <1>3, <2>1, <2>3, <2>5 DEF LiveFenced
  <2>6. CASE k[1][1] = r
    BY <1>1, <1>3, <2>1, <2>4, <2>6 DEF LiveFenced
  <2> QED
    BY <2>5, <2>6
<1> QED
  BY <1>4, <1>5, <1>6, <1>7 DEF Inv

(* Runs end, leases expire and time passes.                                *)
LEMMA LosesInv ==
  ASSUME Inv, UNCHANGED <<kind, fence, ownerVars, recordVars, historyVars>>,
         now' \in Nat, ended' \in [Runs -> BOOLEAN], live' \in [Runs -> BOOLEAN],
         \A r \in Runs : (ended[r] => ended'[r]) /\ (live'[r] => live[r])
  PROVE  Inv'
<1>1. /\ kind' = kind /\ fence' = fence /\ pc' = pc /\ calls' = calls /\ status' = status
      /\ reservedAmount' = reservedAmount
      /\ settledAmount' = settledAmount /\ settledAt' = settledAt
      /\ spent' = spent /\ spentAt' = spentAt
  BY DEF ownerVars, recordVars, amountVars, historyVars
<1>2. TypeOK' /\ Numbered' /\ Unspent'
  BY <1>1 DEF Inv, TypeOK, Numbered, AtCall, Unspent, Current
<1>3. Lost'
  BY <1>1, CallShape DEF Inv, Lost, LiveFenced, Current
<1> QED
  BY <1>2, <1>3 DEF Inv

LEMMA RunStepInv == ASSUME Inv, NEW r \in Runs, ExpireLease(r) \/ EndRun(r) PROVE Inv'
<1>1. /\ UNCHANGED <<kind, now, fence, ownerVars, recordVars, historyVars>>
      /\ ended' \in [Runs -> BOOLEAN] /\ live' \in [Runs -> BOOLEAN]
      /\ \A z \in Runs : (ended[z] => ended'[z]) /\ (live'[z] => live[z])
  BY DEF ExpireLease, EndRun, Inv, TypeOK
<1> QED
  BY <1>1, LosesInv DEF Inv, TypeOK

LEMMA TickInv == ASSUME Inv, Tick \/ UNCHANGED vars PROVE Inv'
<1>1. /\ UNCHANGED <<kind, ended, live, fence, ownerVars, recordVars, historyVars>>
      /\ now' \in Nat
  BY DEF Tick, runVars, vars, Inv, TypeOK
<1> QED
  BY <1>1, LosesInv DEF Inv, TypeOK

LEMMA NextInv == Inv /\ [Next]_vars => Inv'
<1> SUFFICES ASSUME Inv, [Next]_vars PROVE Inv'
  OBVIOUS
<1>1. ASSUME NEW o \in Owners, Reserve(o) PROVE Inv'
  BY <1>1, ReserveInv
<1>2. ASSUME NEW o \in Owners, Denied(o) PROVE Inv'
  BY <1>2, ReconciledInv DEF Denied, MayCall, Goto
<1>3. ASSUME NEW o \in Owners,
             StaleFence(o) \/ Exhaust(o) \/ CallFails(o) \/ Crash(o) \/ OutcomeUnwritten(o)
      PROVE  Inv'
  BY <1>3, OwnerGoesOnInv
<1>4. ASSUME NEW o \in Owners, Perform(o) PROVE Inv'
  BY <1>4, PerformInv
<1>5. ASSUME NEW o \in Owners, Settle(o) \/ Release(o) PROVE Inv'
  BY <1>5, SettleOrReleaseInv
<1>6. ASSUME NEW r \in Runs, Acquire(r) PROVE Inv'
  BY <1>6, AcquireInv
<1>7. ASSUME NEW r \in Runs, ExpireLease(r) \/ EndRun(r) PROVE Inv'
  BY <1>7, RunStepInv
<1>8. CASE Reconcile
  BY <1>8, ReconciledInv DEF Reconcile, ownerVars
<1>9. CASE Tick \/ UNCHANGED vars
  BY <1>9, TickInv
<1> QED
  BY <1>1, <1>2, <1>3, <1>4, <1>5, <1>6, <1>7, <1>8, <1>9 DEF Next, OwnerStep, CallStep

(* The inductive invariant holds in every reachable state.                 *)
THEOREM Invariance == Spec => []Inv
BY InitInv, NextInv, PTL DEF Spec

LEMMA InvImplies == Inv => TypeOK /\ OnlyLosersUncounted
BY DEF Inv, Lost, OnlyLosersUncounted

(* Type correctness                                                        *)
THEOREM TypeCorrect == Spec => []TypeOK
BY Invariance, InvImplies, PTL

(* A billable action that was performed is counted unless its owner lost   *)
(* the run.                                                                *)
THEOREM Counted == Spec => []OnlyLosersUncounted
BY Invariance, InvImplies, PTL

(* What was settled or released is final.                                  *)
THEOREM Final == Spec => FinalStays
<1> DEFINE Stays == \A k \in Calls :
             status[k] \in {"settled", "released"} =>
                 /\ status'[k] = status[k] /\ reservedAmount'[k] = reservedAmount[k]
                 /\ settledAmount'[k] = settledAmount[k] /\ settledAt'[k] = settledAt[k]
<1>1. ASSUME Inv, [Next]_vars PROVE Stays
  <2> USE <1>1
  <2>1. ASSUME NEW o \in Owners, Reserve(o) PROVE Stays
    <3>1. Following(o) \in Calls /\ status[Following(o)] = "none"
      BY <2>1, CurrentShape DEF Reserve, MayCall, Inv, Numbered
    <3> QED
      BY <2>1, <3>1, ReconciledIs DEF Reserve, Inv, TypeOK
  <2>2. ASSUME NEW o \in Owners, Settle(o) PROVE Stays
    BY <2>2 DEF Settle, SettleRecord, recordVars, amountVars, Inv, TypeOK
  <2>3. ASSUME NEW o \in Owners, Release(o) PROVE Stays
    BY <2>3 DEF Release, amountVars, Inv, TypeOK
  <2>4. ASSUME status' = Reconciled, UNCHANGED amountVars PROVE Stays
    BY <2>4, ReconciledIs DEF Inv, amountVars
  <2>5. CASE UNCHANGED recordVars
    BY <2>5 DEF recordVars, amountVars
  <2>6. \/ UNCHANGED recordVars
        \/ status' = Reconciled /\ UNCHANGED amountVars
        \/ \E o \in Owners : Reserve(o) \/ Settle(o) \/ Release(o)
    BY DEF Next, OwnerStep, CallStep, Denied, StaleFence, Exhaust, Perform, CallFails, Crash,
       OutcomeUnwritten, Acquire, ExpireLease, EndRun, Tick, Reconcile, recordVars, vars
  <2> QED
    BY <2>1, <2>2, <2>3, <2>4, <2>5, <2>6
<1>2. Inv /\ [Next]_vars => [Stays]_vars
  BY <1>1
<1> QED
  BY <1>2, Invariance, PTL DEF Spec, FinalStays

---------------------------------------------------------------------------
(* Calls that were ever reserved                                           *)
Started == {k \in Calls : status[k] # "none"}

(* What is settled is what the call cost, not dated before it; a call in   *)
(* progress is not settled.                                                *)
Accounted ==
    /\ \A k \in Calls :
         /\ spent[k] > 0 => status[k] # "none"
         /\ status[k] = "settled" => settledAmount[k] = spent[k] /\ spentAt[k] <= settledAt[k]
         /\ spentAt[k] <= now
    /\ \A o \in Owners : pc[o] = "calling" => status[Current(o)] \in {"reserved", "released"}

(* What is charged in the window, up to what was reserved                  *)
covered == [k \in Calls |-> IF charge[k] <= reservedAmount[k] THEN charge[k] ELSE reservedAmount[k]]
Covered(S) == SumFunctionOnSet(covered, {k \in S : ChargedInWindow(status, k)})

CoveredWithinLimits ==
    /\ \E d \in Deployments : Covered(Calls) <= Limit(d).workspace
    /\ \A d \in Deployments : Covered(CallsOf(d)) <= Limit(d).deployment

Money == IsFiniteSet(Started) /\ Accounted /\ CoveredWithinLimits

LEMMA ChargeIs ==
  ASSUME TypeOK, NEW k \in Calls
  PROVE  /\ charge[k] = IF status[k] = "settled" THEN settledAmount[k] ELSE reservedAmount[k]
         /\ charge[k] \in Nat /\ reservedAmount[k] \in Nat /\ settledAmount[k] \in Nat
         /\ covered[k] = IF charge[k] <= reservedAmount[k] THEN charge[k] ELSE reservedAmount[k]
         /\ covered[k] \in Nat /\ covered[k] <= charge[k]
<1>1. /\ charge[k] = IF status[k] = "settled" THEN settledAmount[k] ELSE reservedAmount[k]
      /\ covered[k] = IF charge[k] <= reservedAmount[k] THEN charge[k] ELSE reservedAmount[k]
  BY DEF charge, covered
<1>2. reservedAmount[k] \in Nat /\ settledAmount[k] \in Nat
  BY DEF TypeOK
<1> QED
  BY <1>1, <1>2

LEMMA ChargeIsNext ==
  ASSUME TypeOK', NEW k \in Calls
  PROVE  /\ charge'[k] = IF status'[k] = "settled" THEN settledAmount'[k] ELSE reservedAmount'[k]
         /\ charge'[k] \in Nat /\ reservedAmount'[k] \in Nat /\ settledAmount'[k] \in Nat
         /\ covered'[k] = IF charge'[k] <= reservedAmount'[k] THEN charge'[k] ELSE reservedAmount'[k]
         /\ covered'[k] \in Nat /\ covered'[k] <= charge'[k]
<1>1. /\ charge'[k] = IF status'[k] = "settled" THEN settledAmount'[k] ELSE reservedAmount'[k]
      /\ covered'[k] = IF charge'[k] <= reservedAmount'[k] THEN charge'[k] ELSE reservedAmount'[k]
  BY DEF charge, covered
<1>2. reservedAmount'[k] \in Nat /\ settledAmount'[k] \in Nat
  BY DEF TypeOK
<1> QED
  BY <1>1, <1>2

LEMMA ChargedFinite ==
  ASSUME IsFiniteSet(Started), NEW st, NEW S \in SUBSET Calls,
         \A k \in Calls : st[k] \in {"reserved", "settled"} => status[k] # "none"
  PROVE  IsFiniteSet({k \in S : ChargedInWindow(st, k)})
<1>1. {k \in S : ChargedInWindow(st, k)} \in SUBSET Started
  BY DEF ChargedInWindow, Started
<1> QED
  BY <1>1, FS_Subset

LEMMA ChargedFiniteNext ==
  ASSUME IsFiniteSet(Started'), NEW S \in SUBSET Calls
  PROVE  IsFiniteSet({k \in S : ChargedInWindow(status, k)'})
<1>1. {k \in S : ChargedInWindow(status, k)'} \in SUBSET Started'
  BY DEF ChargedInWindow, Started
<1> QED
  BY <1>1, FS_Subset

LEMMA LimitIs ==
  ASSUME Inv, NEW d \in Deployments
  PROVE  Limit(d).workspace \in Nat /\ Limit(d).deployment \in Nat
BY DEF Inv, TypeOK, Limit

LEMMA ChargesNat ==
  ASSUME Inv, IsFiniteSet(Started), NEW st, NEW S \in SUBSET Calls,
         \A k \in Calls : st[k] \in {"reserved", "settled"} => status[k] # "none"
  PROVE  Charges(st, S) \in Nat
<1> DEFINE C == {k \in S : ChargedInWindow(st, k)}
<1>1. IsFiniteSet(C)
  BY ChargedFinite
<1>2. \A k \in C : charge[k] \in Nat
  BY ChargeIs DEF Inv
<1>3. Charges(st, S) = SumFunctionOnSet(charge, C)
  BY DEF Charges
<1> HIDE DEF C
<1> QED
  BY <1>1, <1>2, <1>3, SumNat

LEMMA CoveredNat ==
  ASSUME Inv, IsFiniteSet(Started), NEW S \in SUBSET Calls PROVE Covered(S) \in Nat
<1> DEFINE C == {k \in S : ChargedInWindow(status, k)}
<1>1. IsFiniteSet(C)
  BY ChargedFinite
<1>2. \A k \in C : covered[k] \in Nat
  BY ChargeIs DEF Inv
<1>3. Covered(S) = SumFunctionOnSet(covered, C)
  BY DEF Covered
<1> HIDE DEF C
<1> QED
  BY <1>1, <1>2, <1>3, SumNat

(* What is covered is charged.                                             *)
LEMMA CoveredCharged ==
  ASSUME Inv', IsFiniteSet(Started'), NEW S \in SUBSET Calls
  PROVE  /\ Covered(S)' <= Charges(status, S)'
         /\ Covered(S)' \in Nat /\ Charges(status, S)' \in Nat
<1> DEFINE D == {k \in S : ChargedInWindow(status, k)'}
<1>1. IsFiniteSet(D)
  BY ChargedFiniteNext
<1>2. \A k \in D : covered'[k] \in Nat /\ charge'[k] \in Nat /\ covered'[k] <= charge'[k]
  BY ChargeIsNext DEF Inv
<1>3. /\ Covered(S)' = SumFunctionOnSet(covered', D)
      /\ Charges(status, S)' = SumFunctionOnSet(charge', D)
  BY DEF Covered, Charges
<1> HIDE DEF D
<1>4. SumFunctionOnSet(covered', D) <= SumFunctionOnSet(charge', D)
  BY <1>1, <1>2, SumMonotone
<1>5. SumFunctionOnSet(covered', D) \in Nat
  BY <1>1, <1>2, SumNat
<1>6. SumFunctionOnSet(charge', D) \in Nat
  BY <1>1, <1>2, SumNat
<1> QED
  BY <1>3, <1>4, <1>5, <1>6

(* No step but a reservation adds to what is covered.                      *)
Falls(k) == ChargedInWindow(status, k)' => ChargedInWindow(status, k) /\ covered'[k] <= covered[k]

LEMMA CoveredFalls ==
  ASSUME Inv, Inv', IsFiniteSet(Started), NEW S \in SUBSET Calls, \A k \in S : Falls(k)
  PROVE  Covered(S)' <= Covered(S) /\ Covered(S)' \in Nat
<1> DEFINE C == {k \in S : ChargedInWindow(status, k)}
           D == {k \in S : ChargedInWindow(status, k)'}
<1>1. IsFiniteSet(C)
  BY ChargedFinite
<1>2. \A k \in C : covered[k] \in Nat /\ covered'[k] \in Nat
  BY ChargeIs, ChargeIsNext DEF Inv
<1>3. D \in SUBSET C /\ \A k \in D : covered'[k] <= covered[k]
  BY DEF Falls
<1>4. Covered(S) = SumFunctionOnSet(covered, C)
  BY DEF Covered
<1>5. Covered(S)' = SumFunctionOnSet(covered', D)
  BY DEF Covered
<1> HIDE DEF C, D
<1>6. IsFiniteSet(D)
  BY <1>1, <1>3, FS_Subset
<1>7. SumFunctionOnSet(covered', D) \in Nat
  BY <1>2, <1>3, <1>6, SumNat
<1> QED
  BY <1>1, <1>2, <1>3, <1>4, <1>5, <1>7, SumMonotone

LEMMA LimitsStay ==
  ASSUME Inv, Inv', Money, kind' = kind, \A k \in Calls : Falls(k)
  PROVE  CoveredWithinLimits'
<1>1. ASSUME NEW S \in SUBSET Calls, NEW limit \in Nat, Covered(S) <= limit
      PROVE  Covered(S)' <= limit
  <2>1. Covered(S)' <= Covered(S) /\ Covered(S)' \in Nat
    BY CoveredFalls DEF Money
  <2>2. Covered(S) \in Nat
    BY CoveredNat DEF Money
  <2> QED
    BY <1>1, <2>1, <2>2
<1>2. \A d \in Deployments : Limit(d)' = Limit(d) /\ CallsOf(d) \in SUBSET Calls
  BY DEF Limit, CallsOf
<1> QED
  BY <1>1, <1>2, LimitIs DEF Money, CoveredWithinLimits

(* What is foreseen of a call's cost is covered.                           *)
LEMMA SpendingCovered ==
  ASSUME Inv, Money, NEW S \in SUBSET Calls
  PROVE  Spending(S) <= Covered(S) /\ Spending(S) \in Nat
<1> DEFINE C == {k \in S : ChargedInWindow(status, k)}
           D == {k \in S : spent[k] > 0 /\ spentAt[k] + Window >= now /\ status[k] # "released"}
<1>1. IsFiniteSet(C)
  BY ChargedFinite DEF Money
<1>2. ASSUME NEW k \in Calls
      PROVE  /\ covered[k] \in Nat /\ foreseen[k] \in Nat
             /\ foreseen[k] = IF spent[k] <= reservedAmount[k] THEN spent[k] ELSE reservedAmount[k]
  BY ChargeIs DEF foreseen, Inv, TypeOK
<1>3. D \in SUBSET C /\ \A k \in D : foreseen[k] <= covered[k]
  <2> SUFFICES ASSUME NEW k \in D PROVE k \in C /\ foreseen[k] <= covered[k]
    OBVIOUS
  <2>1. status[k] \in {"reserved", "settled"} /\ spent[k] \in Nat /\ reservedAmount[k] \in Nat
    BY DEF Money, Accounted, Inv, TypeOK
  <2>2. CASE status[k] = "reserved"
    <3>1. covered[k] = reservedAmount[k]
      BY <2>1, <2>2, ChargeIs DEF Inv
    <3> QED
      BY <1>2, <2>1, <2>2, <3>1 DEF ChargedInWindow
  <2>3. CASE status[k] = "settled"
    <3>1. /\ settledAmount[k] = spent[k] /\ spentAt[k] <= settledAt[k]
          /\ spentAt[k] \in Nat /\ settledAt[k] \in Nat /\ now \in Nat
      BY <2>3 DEF Money, Accounted, Inv, TypeOK
    <3>2. settledAt[k] + Window >= now
      BY <3>1
    <3>3. covered[k] = foreseen[k]
      BY <1>2, <2>3, <3>1, ChargeIs DEF Inv
    <3> QED
      BY <1>2, <2>3, <3>2, <3>3 DEF ChargedInWindow
  <2> QED
    BY <2>1, <2>2, <2>3
<1>4. Covered(S) = SumFunctionOnSet(covered, C)
  BY DEF Covered
<1>5. Spending(S) = SumFunctionOnSet(foreseen, D)
  BY DEF Spending
<1>6. C \in SUBSET Calls
  OBVIOUS
<1> HIDE DEF C, D
<1>7. IsFiniteSet(D)
  BY <1>1, <1>3, FS_Subset
<1>8. SumFunctionOnSet(foreseen, D) \in Nat
  BY <1>2, <1>3, <1>6, <1>7, SumNat
<1>9. \A k \in C : foreseen[k] \in Nat /\ covered[k] \in Nat
  BY <1>2, <1>6
<1> QED
  BY <1>1, <1>3, <1>4, <1>5, <1>8, <1>9, SumMonotone

(* What is known of the cost of calls is charged.                          *)
KnownCharged == \A S \in SUBSET Calls : Known(S) <= Charges(status, S) /\ Known(S) \in Nat

LEMMA MoneyKnown == Inv /\ Money => KnownCharged
<1> SUFFICES ASSUME Inv, Money, NEW S \in SUBSET Calls
             PROVE  Known(S) <= Charges(status, S) /\ Known(S) \in Nat
  BY DEF KnownCharged
<1> DEFINE C == {k \in S : ChargedInWindow(status, k)}
           D == {k \in S : \/ status[k] = "reserved"
                           \/ status[k] = "settled" /\ spentAt[k] + Window >= now}
<1>1. IsFiniteSet(C)
  BY ChargedFinite DEF Money
<1>2. ASSUME NEW k \in Calls
      PROVE  charge[k] \in Nat /\ known[k] = charge[k]
  BY ChargeIs DEF known, Money, Accounted, Inv
<1>3. D \in SUBSET C
  <2> SUFFICES ASSUME NEW k \in D, status[k] = "settled" PROVE k \in C
    BY DEF ChargedInWindow
  <2>1. /\ spentAt[k] <= settledAt[k] /\ spentAt[k] + Window >= now
        /\ spentAt[k] \in Nat /\ settledAt[k] \in Nat /\ now \in Nat
    BY DEF Money, Accounted, Inv, TypeOK
  <2>2. settledAt[k] + Window >= now
    BY <2>1
  <2> QED
    BY <2>2 DEF ChargedInWindow
<1>4. Charges(status, S) = SumFunctionOnSet(charge, C)
  BY DEF Charges
<1>5. Known(S) = SumFunctionOnSet(known, D)
  BY DEF Known
<1>6. C \in SUBSET Calls
  OBVIOUS
<1> HIDE DEF C, D
<1>7. IsFiniteSet(D)
  BY <1>1, <1>3, FS_Subset
<1>8. \A k \in C : known[k] \in Nat /\ charge[k] \in Nat /\ known[k] <= charge[k]
  BY <1>2, <1>6
<1>9. SumFunctionOnSet(known, D) \in Nat
  BY <1>3, <1>7, <1>8, SumNat
<1> QED
  BY <1>1, <1>3, <1>4, <1>5, <1>8, <1>9, SumMonotone

LEMMA InitMoney == Init => Money
<1> SUFFICES ASSUME Init PROVE Money
  OBVIOUS
<1>1. Inv /\ Started = {} /\ IsFiniteSet(Started)
  BY InitInv, FS_EmptySet DEF Init, Started
<1>2. \A S \in SUBSET Calls : Covered(S) = 0
  <2> SUFFICES ASSUME NEW S \in SUBSET Calls PROVE Covered(S) = 0
    OBVIOUS
  <2>1. {k \in S : ChargedInWindow(status, k)} = {}
    BY DEF Init, ChargedInWindow
  <2> QED
    BY <2>1, SumEmpty DEF Covered
<1>3. CoveredWithinLimits
  BY <1>1, <1>2, LimitIs DEF CoveredWithinLimits, CallsOf
<1>4. Accounted
  BY DEF Init, Accounted
<1> QED
  BY <1>1, <1>3, <1>4 DEF Money

(* Reconciliation releases reservations.                                   *)
LEMMA ReconciledMoney ==
  ASSUME Inv, Inv', Money, status' = Reconciled,
         UNCHANGED <<kind, now, calls, amountVars, historyVars>>,
         \A o \in Owners : pc'[o] = "calling" => pc[o] = "calling"
  PROVE  Money'
<1>1. /\ kind' = kind /\ now' = now /\ calls' = calls /\ reservedAmount' = reservedAmount
      /\ settledAmount' = settledAmount /\ settledAt' = settledAt /\ spent' = spent
      /\ spentAt' = spentAt
  BY DEF amountVars, historyVars
<1>2. \A k \in Calls :
        status'[k] = status[k] \/ (status[k] = "reserved" /\ status'[k] = "released")
  BY ReconciledIs DEF Inv
<1>3. Started' = Started
  BY <1>2 DEF Started
<1>4. Accounted'
  <2>1. \A o \in Owners : pc'[o] = "calling" =>
          Current(o)' = Current(o) /\ Current(o) \in Calls
    BY <1>1, CurrentShape DEF Inv, Numbered, AtCall, Current
  <2>2. \A o \in Owners : pc'[o] = "calling" => status'[Current(o)'] \in {"reserved", "released"}
    BY <1>2, <2>1 DEF Money, Accounted
  <2>3. \A k \in Calls :
         /\ spent'[k] > 0 => status'[k] # "none"
         /\ status'[k] = "settled" =>
              settledAmount'[k] = spent'[k] /\ spentAt'[k] <= settledAt'[k]
         /\ spentAt'[k] <= now'
    BY <1>1, <1>2 DEF Money, Accounted
  <2> QED
    BY <2>2, <2>3 DEF Accounted
<1>5. ASSUME NEW k \in Calls PROVE Falls(k)
  <2>1. covered'[k] = covered[k]
    BY <1>1, <1>2, ChargeIs, ChargeIsNext DEF Inv
  <2> QED
    BY <1>1, <1>2, <2>1, ChargeIs DEF Falls, ChargedInWindow, Inv
<1> QED
  BY <1>1, <1>3, <1>4, <1>5, LimitsStay DEF Money

(* Steps that leave the records alone; time may pass.                      *)
LEMMA ElsewhereMoney ==
  ASSUME Inv, Inv', Money, UNCHANGED <<kind, calls, recordVars, historyVars>>, now' >= now,
         \A o \in Owners : pc'[o] = "calling" => pc[o] = "calling"
  PROVE  Money'
<1>1. /\ kind' = kind /\ calls' = calls /\ status' = status /\ reservedAmount' = reservedAmount
      /\ settledAmount' = settledAmount /\ settledAt' = settledAt /\ spent' = spent
      /\ spentAt' = spentAt
  BY DEF recordVars, amountVars, historyVars
<1>2. now \in Nat /\ now' \in Nat
  BY DEF Inv, TypeOK
<1>3. \A k \in Calls : spentAt[k] \in Nat /\ settledAt[k] \in Nat
  BY DEF Inv, TypeOK
<1>4. Started' = Started
  BY <1>1 DEF Started
<1>5. Accounted'
  <2>1. \A k \in Calls : spentAt[k] <= now'
    BY <1>2, <1>3 DEF Money, Accounted
  <2> QED
    BY <1>1, <2>1 DEF Money, Accounted, Current
<1>6. ASSUME NEW k \in Calls PROVE Falls(k)
  <2>1. covered'[k] = covered[k]
    BY <1>1, ChargeIs, ChargeIsNext DEF Inv
  <2> QED
    BY <1>1, <1>2, <1>3, <2>1, ChargeIs DEF Falls, ChargedInWindow, Inv
<1> QED
  BY <1>1, <1>4, <1>5, <1>6, LimitsStay DEF Money

LEMMA PerformMoney ==
  ASSUME Inv, Inv', Money, NEW o \in Owners, Perform(o) PROVE Money'
<1> DEFINE c == Current(o)
<1>1. /\ c \in Calls /\ c[1] = o /\ \A p \in Owners : p # o => Current(p) # c
      /\ kind' = kind /\ now' = now /\ calls' = calls /\ status' = status
      /\ reservedAmount' = reservedAmount /\ settledAmount' = settledAmount
      /\ settledAt' = settledAt /\ spentAt' = [spentAt EXCEPT ![c] = now]
      /\ pc[o] = "calling" /\ pc' = [pc EXCEPT ![o] = "performed"]
  BY CurrentShape DEF Inv, Numbered, AtCall, Perform, Current, Goto, recordVars, amountVars
<1>2. status[c] \in {"reserved", "released"}
  BY <1>1 DEF Money, Accounted
<1>3. PICK cost : spent' = [spent EXCEPT ![c] = cost]
  BY DEF Perform
<1>4. /\ spentAt'[c] = now /\ now \in Nat
      /\ \A k \in Calls : k # c => spent'[k] = spent[k] /\ spentAt'[k] = spentAt[k]
  BY <1>1, <1>3 DEF Inv, TypeOK
<1>5. Accounted'
  <2>1. ASSUME NEW k \in Calls
        PROVE  /\ spent'[k] > 0 => status[k] # "none"
               /\ status[k] = "settled" =>
                    settledAmount[k] = spent'[k] /\ spentAt'[k] <= settledAt[k]
               /\ spentAt'[k] <= now
    <3>1. CASE k = c
      BY <1>2, <1>4, <3>1
    <3>2. CASE k # c
      BY <1>4, <3>2 DEF Money, Accounted
    <3> QED
      BY <3>1, <3>2
  <2>2. ASSUME NEW p \in Owners, pc'[p] = "calling"
        PROVE  status[Current(p)] \in {"reserved", "released"}
    <3>1. pc[p] = "calling"
      BY <1>1, <2>2 DEF Inv, TypeOK
    <3> QED
      BY <3>1 DEF Money, Accounted
  <2> QED
    BY <1>1, <2>1, <2>2 DEF Accounted, Current
<1>6. Started' = Started
  BY <1>1 DEF Started
<1>7. ASSUME NEW k \in Calls PROVE Falls(k)
  <2>1. covered'[k] = covered[k]
    BY <1>1, ChargeIs, ChargeIsNext DEF Inv
  <2> QED
    BY <1>1, <2>1, ChargeIs DEF Falls, ChargedInWindow, Inv
<1> QED
  BY <1>1, <1>5, <1>6, <1>7, LimitsStay DEF Money

(* What is settled counts for no more than was reserved.                   *)
LEMMA SettleOrReleaseMoney ==
  ASSUME Inv, Inv', Money, NEW o \in Owners, Settle(o) \/ Release(o) PROVE Money'
<1> DEFINE c == Current(o)
<1>1. /\ c \in Calls /\ kind' = kind /\ now' = now /\ calls' = calls
      /\ spent' = spent /\ spentAt' = spentAt
  BY CurrentShape DEF Inv, Numbered, AtCall, Settle, Release, runVars, historyVars
<1>2. \A p \in Owners : pc'[p] = "calling" => pc[p] = "calling" /\ p # o
  BY DEF Settle, Release, Goto, Inv, TypeOK
<1>3. /\ reservedAmount' = reservedAmount
      /\ \A k \in Calls : k # c =>
           /\ status'[k] = status[k] /\ settledAmount'[k] = settledAmount[k]
           /\ settledAt'[k] = settledAt[k]
      /\ \/ status'[c] = status[c] /\ settledAmount'[c] = settledAmount[c]
            /\ settledAt'[c] = settledAt[c]
         \/ status[c] = "reserved" /\ status'[c] = "released"
         \/ /\ status[c] = "reserved" /\ status'[c] = "settled"
            /\ settledAmount'[c] = spent[c] /\ settledAt'[c] = now
  <2>1. CASE Settle(o)
    BY <1>1, <2>1 DEF Settle, SettleRecord, recordVars, amountVars, Inv, TypeOK
  <2>2. CASE Release(o)
    BY <1>1, <2>2 DEF Release, amountVars, Inv, TypeOK
  <2> QED
    BY <2>1, <2>2
<1>4. spentAt[c] <= now
  BY <1>1 DEF Money, Accounted
<1>5. Started' = Started
  BY <1>1, <1>3 DEF Started
<1>6. Accounted'
  <2>1. ASSUME NEW k \in Calls
        PROVE  /\ spent[k] > 0 => status'[k] # "none"
               /\ status'[k] = "settled" =>
                    settledAmount'[k] = spent[k] /\ spentAt[k] <= settledAt'[k]
               /\ spentAt[k] <= now
    <3>1. CASE k = c
      BY <1>3, <1>4, <3>1 DEF Money, Accounted
    <3>2. CASE k # c
      BY <1>3, <3>2 DEF Money, Accounted
    <3> QED
      BY <3>1, <3>2
  <2>2. ASSUME NEW p \in Owners, pc'[p] = "calling"
        PROVE  status'[Current(p)] \in {"reserved", "released"}
    <3>1. status[Current(p)] \in {"reserved", "released"} /\ Current(p) # c
      BY <1>2, <2>2 DEF Money, Accounted, Current
    <3>2. Current(p) \in Calls
      BY <1>2, <2>2, CurrentShape DEF Inv, Numbered, AtCall
    <3> QED
      BY <1>3, <3>1, <3>2
  <2> QED
    BY <1>1, <2>1, <2>2 DEF Accounted, Current
<1>7. ASSUME NEW k \in Calls PROVE Falls(k)
  <2> SUFFICES ASSUME ChargedInWindow(status, k)'
               PROVE  ChargedInWindow(status, k) /\ covered'[k] <= covered[k]
    BY DEF Falls
  <2>1. covered[k] \in Nat
    BY ChargeIs DEF Inv
  <2>2. CASE k # c
    <3>1. covered'[k] = covered[k]
      BY <1>3, <2>2, ChargeIs, ChargeIsNext DEF Inv
    <3> QED
      BY <1>1, <1>3, <2>1, <2>2, <3>1 DEF ChargedInWindow
  <2>3. CASE k = c /\ status'[c] = status[c]
    <3>1. settledAmount'[c] = settledAmount[c] /\ settledAt'[c] = settledAt[c]
      BY <1>3, <2>3
    <3>2. covered'[k] = covered[k]
      BY <1>3, <2>3, <3>1, ChargeIs, ChargeIsNext DEF Inv
    <3> QED
      BY <1>1, <2>1, <2>3, <3>1, <3>2 DEF ChargedInWindow
  <2>4. CASE k = c /\ status'[c] # status[c]
    <3>1. status[c] = "reserved"
      BY <1>3, <2>4
    <3>2. covered[k] = reservedAmount[k] /\ reservedAmount[k] \in Nat
      BY <2>4, <3>1, ChargeIs DEF Inv
    <3>3. covered'[k] <= reservedAmount[k]
      BY <1>3, <3>2, ChargeIsNext DEF Inv
    <3> QED
      BY <2>4, <3>1, <3>2, <3>3 DEF ChargedInWindow
  <2> QED
    BY <2>2, <2>3, <2>4
<1> QED
  BY <1>1, <1>5, <1>6, <1>7, LimitsStay DEF Money

(* A reservation that is added fits under what was left; the calls that    *)
(* are not its own are charged no more than before.                        *)
LEMMA ReserveFits ==
  ASSUME Inv, Inv', Money, NEW o \in Owners, Reserve(o)
  PROVE  /\ IsFiniteSet(Started') /\ kind' = kind
         /\ Following(o) \in Calls /\ Following(o)[1] = o
         /\ status[Following(o)] = "none" /\ status'[Following(o)] = "reserved"
         /\ \A k \in Calls : k # Following(o) =>
              Falls(k) /\ ~(status[k] # "reserved" /\ status'[k] = "reserved")
         /\ Charges(status, Calls)' <= Limit(DeploymentOf[o[1]]).workspace
         /\ Charges(status, CallsOf(DeploymentOf[o[1]]))' <= Limit(DeploymentOf[o[1]]).deployment
<1> DEFINE f == Following(o)
           e == DeploymentOf[o[1]]
<1>1. PICK amount \in ReservableAmounts :
        /\ WithinLimits(e, amount)
        /\ status' = [Reconciled EXCEPT ![f] = "reserved"]
        /\ reservedAmount' = [reservedAmount EXCEPT ![f] = amount]
  BY DEF Reserve
<1>2. /\ kind' = kind /\ now' = now /\ settledAmount' = settledAmount
      /\ settledAt' = settledAt /\ calls[o] < MaxCalls[o]
  BY DEF Reserve, MayCall
<1>3. f \in Calls /\ f[1] = o /\ f[2] = calls[o] + 1 /\ calls[o] \in Nat
  BY <1>2, CurrentShape DEF Inv
<1>4. amount \in Nat /\ amount > 0
  BY DEF ReservableAmounts
<1>5. status[f] = "none"
  BY <1>3 DEF Inv, Numbered
<1>6. /\ status'[f] = "reserved" /\ reservedAmount'[f] = amount
      /\ \A k \in Calls : k # f =>
           /\ status'[k] = Reconciled[k] /\ reservedAmount'[k] = reservedAmount[k]
           /\ Reconciled[k] = status[k] \/ (status[k] = "reserved" /\ Reconciled[k] = "released")
  BY <1>1, <1>3, ReconciledIs DEF Inv, TypeOK
<1>7. IsFiniteSet(Started')
  <2>1. Started' = Started \cup {f}
    BY <1>3, <1>6 DEF Started
  <2> QED
    BY <2>1, FS_AddElement DEF Money
<1>8. charge'[f] = amount /\ \A k \in Calls : k # f => charge'[k] = charge[k]
  BY <1>2, <1>3, <1>6, ChargeIs, ChargeIsNext DEF Inv
<1>9. ASSUME NEW k \in Calls, k # f PROVE Falls(k)
  <2>1. covered'[k] = covered[k]
    BY <1>6, <1>8, <1>9, ChargeIs, ChargeIsNext DEF Inv
  <2> QED
    BY <1>2, <1>6, <1>9, <2>1, ChargeIs DEF Falls, ChargedInWindow, Inv
<1>10. Reconciled[f] = "none"
  BY <1>3, <1>5 DEF Reconciled
<1>11. \A k \in Calls : Reconciled[k] \in {"reserved", "settled"} => status[k] # "none"
  BY <1>6, <1>10
<1>12. ASSUME NEW S \in SUBSET Calls, f \in S
       PROVE  /\ Charges(status, S)' <= Charges(Reconciled, S) + amount
              /\ Charges(Reconciled, S) \in Nat /\ Charges(status, S)' \in Nat
  <2> DEFINE R == {k \in S : ChargedInWindow(Reconciled, k)}
             D == {k \in S : ChargedInWindow(status, k)'}
  <2>1. IsFiniteSet(R) /\ IsFiniteSet(D)
    BY <1>7, <1>11, ChargedFinite, ChargedFiniteNext DEF Money
  <2>2. \A k \in S : charge[k] \in Nat /\ charge'[k] \in Nat
    BY ChargeIs, ChargeIsNext DEF Inv
  <2>3. /\ Charges(Reconciled, S) = SumFunctionOnSet(charge, R)
        /\ Charges(status, S)' = SumFunctionOnSet(charge', D)
    BY DEF Charges
  <2>4. D \ {f} \in SUBSET R /\ f \in D
    BY <1>2, <1>6, <1>12 DEF ChargedInWindow
  <2>5. R \in SUBSET S /\ D \in SUBSET S
    OBVIOUS
  <2> HIDE DEF R, D, f
  <2>6. IsFiniteSet(D \ {f})
    BY <2>1, FS_Subset
  <2>7. SumFunctionOnSet(charge', D) = amount + SumFunctionOnSet(charge', D \ {f})
    BY <1>8, <2>1, <2>2, <2>4, <2>5, SumWithout
  <2>8. SumFunctionOnSet(charge', D \ {f}) <= SumFunctionOnSet(charge, R)
    <3>1. \A k \in R : charge[k] \in Nat /\ charge'[k] \in Nat
      BY <2>2, <2>5
    <3>2. \A k \in D \ {f} : charge'[k] <= charge[k]
      BY <1>8, <2>2, <2>5
    <3> QED
      BY <2>1, <2>4, <3>1, <3>2, SumMonotone
  <2>9. SumFunctionOnSet(charge, R) \in Nat
    BY <2>1, <2>2, <2>5, SumNat
  <2>10. SumFunctionOnSet(charge', D \ {f}) \in Nat
    BY <2>2, <2>5, <2>6, SumNat
  <2> QED
    BY <1>4, <2>3, <2>7, <2>8, <2>9, <2>10
<1>13. /\ o[1] \in Runs /\ e \in Deployments /\ CallsOf(e) \in SUBSET Calls /\ f \in CallsOf(e)
       /\ CallsOf(e)' = CallsOf(e)
       /\ Charges(Reconciled, Calls) + amount <= Limit(e).workspace
       /\ Charges(Reconciled, CallsOf(e)) + amount <= Limit(e).deployment
  BY <1>1, <1>3, OwnerShape DEF WithinLimits, CallsOf
<1>14. Limit(e).workspace \in Nat /\ Limit(e).deployment \in Nat
  BY <1>13, LimitIs
<1>15. Charges(status, Calls)' <= Limit(e).workspace
  <2>1. /\ Charges(status, Calls)' <= Charges(Reconciled, Calls) + amount
        /\ Charges(Reconciled, Calls) \in Nat /\ Charges(status, Calls)' \in Nat
    BY <1>3, <1>12
  <2> HIDE DEF e
  <2> QED
    BY <1>4, <1>13, <1>14, <2>1
<1>16. Charges(status, CallsOf(e))' <= Limit(e).deployment
  <2>1. /\ Charges(status, CallsOf(e))' <= Charges(Reconciled, CallsOf(e)) + amount
        /\ Charges(Reconciled, CallsOf(e)) \in Nat /\ Charges(status, CallsOf(e))' \in Nat
    BY <1>12, <1>13
  <2> HIDE DEF e
  <2> QED
    BY <1>4, <1>13, <1>14, <2>1
<1>17. ASSUME NEW k \in Calls, k # f PROVE ~(status[k] # "reserved" /\ status'[k] = "reserved")
  BY <1>6, <1>17
<1> QED
  BY <1>2, <1>3, <1>5, <1>6, <1>7, <1>9, <1>15, <1>16, <1>17

LEMMA ReserveMoney ==
  ASSUME Inv, Inv', Money, NEW o \in Owners, Reserve(o) PROVE Money'
<1> DEFINE f == Following(o)
           e == DeploymentOf[o[1]]
<1>1. /\ IsFiniteSet(Started') /\ kind' = kind
      /\ f \in Calls /\ f[1] = o /\ status[f] = "none" /\ status'[f] = "reserved"
      /\ \A k \in Calls : k # f =>
           Falls(k) /\ ~(status[k] # "reserved" /\ status'[k] = "reserved")
      /\ Charges(status, Calls)' <= Limit(e).workspace
      /\ Charges(status, CallsOf(e))' <= Limit(e).deployment
  BY ReserveFits
<1>2. /\ now' = now /\ settledAt' = settledAt /\ settledAmount' = settledAmount
      /\ spent' = spent /\ spentAt' = spentAt /\ pc' = [pc EXCEPT ![o] = "calling"]
      /\ calls' = [calls EXCEPT ![o] = @ + 1] /\ calls[o] < MaxCalls[o]
      /\ \E amount : status' = [Reconciled EXCEPT ![f] = "reserved"]
  BY DEF Reserve, Goto, MayCall, historyVars
<1>3. /\ Current(o)' = f
      /\ \A p \in Owners : p # o => Current(p)' = Current(p) /\ Current(p) # f
  <2>1. /\ calls'[o] = calls[o] + 1
        /\ \A p \in Owners : p # o => calls'[p] = calls[p]
    BY <1>2 DEF Inv, TypeOK
  <2> QED
    BY <1>1, <2>1, CurrentShape DEF Inv, Current, Following
<1>4. spent[f] = 0 /\ spentAt[f] <= now
  <2>1. f[2] > calls[f[1]]
    BY <1>1, CurrentShape DEF Inv, TypeOK, Following
  <2> QED
    BY <1>1, <2>1 DEF Inv, Numbered, Money, Accounted
<1>5. \A k \in Calls : k # f =>
        status'[k] = status[k] \/ (status[k] = "reserved" /\ status'[k] = "released")
  BY <1>1, <1>2, ReconciledIs DEF Inv, TypeOK
<1>6. Accounted'
  <2>1. ASSUME NEW k \in Calls
        PROVE  /\ spent[k] > 0 => status'[k] # "none"
               /\ status'[k] = "settled" =>
                    settledAmount[k] = spent[k] /\ spentAt[k] <= settledAt[k]
               /\ spentAt[k] <= now
    <3>1. CASE k = f
      BY <1>1, <1>4, <3>1
    <3>2. CASE k # f
      BY <1>5, <3>2 DEF Money, Accounted
    <3> QED
      BY <3>1, <3>2
  <2>2. ASSUME NEW p \in Owners, pc'[p] = "calling"
        PROVE  status'[Current(p)'] \in {"reserved", "released"}
    <3>1. CASE p = o
      BY <1>1, <1>3, <3>1
    <3>2. CASE p # o
      <4>1. pc[p] = "calling"
        BY <1>2, <2>2, <3>2 DEF Inv, TypeOK
      <4>2. Current(p) \in Calls /\ status[Current(p)] \in {"reserved", "released"}
        BY <4>1, CurrentShape DEF Inv, Numbered, AtCall, Money, Accounted
      <4> QED
        BY <1>3, <1>5, <3>2, <4>2
    <3> QED
      BY <3>1, <3>2
  <2> QED
    BY <1>2, <2>1, <2>2 DEF Accounted
<1>7. /\ e \in Deployments
      /\ \A d \in Deployments : /\ CallsOf(d) \in SUBSET Calls /\ Limit(d)' = Limit(d)
                                /\ (f \in CallsOf(d) <=> d = e)
  BY <1>1, OwnerShape DEF CallsOf, Limit
<1>8. CoveredWithinLimits'
  <2> HIDE DEF e, f
  <2>1. ASSUME NEW S \in SUBSET Calls, NEW limit \in Nat, Charges(status, S)' <= limit
        PROVE  Covered(S)' <= limit
    <3>1. /\ Covered(S)' <= Charges(status, S)'
          /\ Covered(S)' \in Nat /\ Charges(status, S)' \in Nat
      BY <1>1, CoveredCharged
    <3> QED
      BY <2>1, <3>1
  <2>2. Covered(Calls)' <= Limit(e).workspace
    BY <1>1, <1>7, <2>1, LimitIs
  <2>3. ASSUME NEW d \in Deployments PROVE Covered(CallsOf(d))' <= Limit(d).deployment
    <3>1. CASE d = e
      <4>1. Charges(status, CallsOf(d))' <= Limit(d).deployment
        BY <1>1, <3>1
      <4>2. CallsOf(d) \in SUBSET Calls /\ Limit(d).deployment \in Nat
        BY <1>7, LimitIs
      <4> QED
        BY <2>1, <4>1, <4>2
    <3>2. CASE d # e
      <4>1. \A k \in CallsOf(d) : Falls(k)
        BY <1>1, <1>7, <3>2
      <4>2. /\ Covered(CallsOf(d))' <= Covered(CallsOf(d)) /\ Covered(CallsOf(d))' \in Nat
            /\ Covered(CallsOf(d)) \in Nat
        BY <1>7, <4>1, CoveredFalls, CoveredNat DEF Money
      <4>3. Covered(CallsOf(d)) <= Limit(d).deployment /\ Limit(d).deployment \in Nat
        BY LimitIs DEF Money, CoveredWithinLimits
      <4> QED
        BY <4>2, <4>3
    <3> QED
      BY <3>1, <3>2
  <2> QED
    BY <1>7, <2>2, <2>3 DEF CoveredWithinLimits
<1> QED
  BY <1>1, <1>6, <1>8 DEF Money

LEMMA MoneyNext == Inv /\ Inv' /\ Money /\ [Next]_vars => Money'
<1> SUFFICES ASSUME Inv, Inv', Money, [Next]_vars PROVE Money'
  OBVIOUS
<1>1. ASSUME NEW o \in Owners, Reserve(o) PROVE Money'
  BY <1>1, ReserveMoney
<1>2. ASSUME NEW o \in Owners, Perform(o) PROVE Money'
  BY <1>2, PerformMoney
<1>3. ASSUME NEW o \in Owners, Settle(o) \/ Release(o) PROVE Money'
  BY <1>3, SettleOrReleaseMoney
<1>4. ASSUME NEW o \in Owners, Denied(o) PROVE Money'
  <2>1. \A p \in Owners : pc'[p] = "calling" => pc[p] = "calling"
    BY <1>4 DEF Denied, Goto, Inv, TypeOK
  <2> QED
    BY <1>4, <2>1, ReconciledMoney DEF Denied
<1>5. CASE Reconcile
  BY <1>5, ReconciledMoney DEF Reconcile, ownerVars
<1>6. ASSUME NEW o \in Owners,
             StaleFence(o) \/ Exhaust(o) \/ CallFails(o) \/ OutcomeUnwritten(o) \/ Crash(o)
      PROVE  Money'
  <2>1. UNCHANGED <<kind, now, calls, recordVars, historyVars>>
    BY <1>6 DEF StaleFence, Exhaust, CallFails, OutcomeUnwritten, Crash
  <2>2. \E l \in PCs \ {"calling"} : pc' = [pc EXCEPT ![o] = l]
    BY <1>6 DEF StaleFence, Exhaust, CallFails, OutcomeUnwritten, Crash, Goto, PCs
  <2>3. now' >= now
    BY <2>1 DEF Inv, TypeOK
  <2>4. \A p \in Owners : pc'[p] = "calling" => pc[p] = "calling"
    BY <2>2 DEF Inv, TypeOK
  <2> QED
    BY <2>1, <2>3, <2>4, ElsewhereMoney
<1>7. ASSUME NEW r \in Runs, Acquire(r) \/ ExpireLease(r) \/ EndRun(r) PROVE Money'
  <2>1. UNCHANGED <<kind, now, calls, recordVars, historyVars>>
    BY <1>7 DEF Acquire, ExpireLease, EndRun, ownerVars
  <2>2. pc' = pc \/ \E o : pc' = [pc EXCEPT ![o] = "idle"]
    BY <1>7 DEF Acquire, ExpireLease, EndRun, ownerVars, Goto
  <2>3. now' >= now
    BY <2>1 DEF Inv, TypeOK
  <2>4. \A p \in Owners : pc'[p] = "calling" => pc[p] = "calling"
    BY <2>2 DEF Inv, TypeOK
  <2> QED
    BY <2>1, <2>3, <2>4, ElsewhereMoney
<1>8. CASE Tick \/ UNCHANGED vars
  <2>1. UNCHANGED <<kind, pc, calls, recordVars, historyVars>> /\ now' >= now
    BY <1>8 DEF Tick, vars, ownerVars, Inv, TypeOK
  <2> QED
    BY <2>1, ElsewhereMoney
<1> QED
  BY <1>1, <1>2, <1>3, <1>4, <1>5, <1>6, <1>7, <1>8 DEF Next, OwnerStep, CallStep

(* The sums of what is covered are kept in every reachable state.          *)
THEOREM MoneyInvariance == Spec => []Money
<1>1. Inv /\ Inv' /\ Money /\ [Next]_vars => Money'
  BY MoneyNext
<1> QED
  BY <1>1, InitMoney, Invariance, PTL DEF Spec

LEMMA MoneyImplies == Inv /\ Money => ForeseenWithinLimits
<1> SUFFICES ASSUME Inv, Money PROVE ForeseenWithinLimits
  OBVIOUS
<1>1. ASSUME NEW S \in SUBSET Calls
      PROVE  Spending(S) <= Covered(S) /\ Spending(S) \in Nat /\ Covered(S) \in Nat
  BY SpendingCovered, CoveredNat DEF Money
<1>2. \A d \in Deployments : CallsOf(d) \in SUBSET Calls
  BY DEF CallsOf
<1> QED
  BY <1>1, <1>2, LimitIs DEF Money, CoveredWithinLimits, ForeseenWithinLimits

(* Only a reservation grants, and only what fits.                          *)
LEMMA GrantsNext ==
  Inv /\ Inv' /\ Money /\ KnownCharged' /\ [Next]_vars => GrantsFit
<1> SUFFICES ASSUME Inv, Inv', Money, KnownCharged', [Next]_vars,
                    NEW k \in Calls, status[k] # "reserved", status'[k] = "reserved"
             PROVE  LET e == DeploymentOf[k[1][1]]
                    IN  /\ Known(Calls)' <= Limit(e).workspace
                        /\ Known(CallsOf(e))' <= Limit(e).deployment
  BY DEF GrantsFit
<1>1. ASSUME NEW o \in Owners, Settle(o) PROVE FALSE
  BY <1>1 DEF Settle, SettleRecord, recordVars, Inv, TypeOK
<1>2. ASSUME NEW o \in Owners, Release(o) PROVE FALSE
  BY <1>2 DEF Release, Inv, TypeOK
<1>3. status' # status /\ status' # Reconciled
  BY ReconciledIs DEF Inv
<1>4. PICK o \in Owners : Reserve(o)
  BY <1>1, <1>2, <1>3 DEF Next, OwnerStep, CallStep, Denied, StaleFence, Exhaust, Perform,
     CallFails, Crash, OutcomeUnwritten, Acquire, ExpireLease, EndRun, Tick, Reconcile,
     recordVars, vars
<1>5. k = Following(o) /\ k[1] = o
  BY <1>4, ReserveFits
<1> DEFINE e == DeploymentOf[o[1]]
<1>6. /\ Charges(status, Calls)' <= Limit(e).workspace
      /\ Charges(status, CallsOf(e))' <= Limit(e).deployment
  BY <1>4, ReserveFits
<1>7. /\ e \in Deployments /\ CallsOf(e) \in SUBSET Calls /\ CallsOf(e)' = CallsOf(e)
      /\ IsFiniteSet(Started')
  BY <1>4, OwnerShape, ReserveFits DEF CallsOf
<1>8. Limit(e).workspace \in Nat /\ Limit(e).deployment \in Nat
  BY <1>7, LimitIs
<1> HIDE DEF e
<1>9. ASSUME NEW S \in SUBSET Calls, NEW limit \in Nat, Charges(status, S)' <= limit
      PROVE  Known(S)' <= limit
  <2>1. Known(S)' <= Charges(status, S)' /\ Known(S)' \in Nat
    BY DEF KnownCharged
  <2>2. Charges(status, S)' \in Nat
    BY <1>7, CoveredCharged
  <2> QED
    BY <1>9, <2>1, <2>2
<1>10. Known(Calls)' <= Limit(e).workspace
  BY <1>6, <1>8, <1>9
<1>11. Known(CallsOf(e))' <= Limit(e).deployment
  BY <1>6, <1>7, <1>8, <1>9
<1> QED
  BY <1>5, <1>10, <1>11 DEF e

(* The limits are exceeded only by what calls turn out to cost beyond      *)
(* their reservations, and nothing is granted on top of that.              *)
THEOREM Spent == Spec => OnlyOvershootExceeds
<1>1. Inv /\ Inv' /\ Money /\ KnownCharged' /\ [Next]_vars => [GrantsFit]_vars
  BY GrantsNext
<1> QED
  BY <1>1, Invariance, MoneyInvariance, MoneyImplies, MoneyKnown, PTL DEF Spec, OnlyOvershootExceeds

---------------------------------------------------------------------------
(* The runs are leases as RunLease has them, each by itself.               *)
LEMMA LeasingStep ==
  ASSUME NEW r \in Runs, TypeOK, [Next]_vars
  PROVE  [Leasing(r)!Next]_(Leasing(r)!vars)
<1> SUFFICES Leasing(r)!Next \/ UNCHANGED Leasing(r)!vars
  OBVIOUS
<1>1. /\ ended \in [Runs -> BOOLEAN] /\ fence \in [Runs -> Nat] /\ live \in [Runs -> BOOLEAN]
      /\ \A o \in Owners : o[1] \in Runs
  BY DEF TypeOK, Owners
<1>2. CASE UNCHANGED runVars
  BY <1>2 DEF runVars, Leasing!vars
<1>3. ASSUME NEW o \in Owners, Exhaust(o)
      PROVE  Leasing(r)!Next \/ UNCHANGED Leasing(r)!vars
  <2>1. CASE /\ ~ended[o[1]] /\ fence' = fence
             /\ ended' = [ended EXCEPT ![o[1]] = TRUE]
             /\ live' = [live EXCEPT ![o[1]] = FALSE]
    <3>1. CASE o[1] = r
      BY <1>1, <2>1, <3>1 DEF Leasing!Next, Leasing!End
    <3>2. CASE o[1] # r
      BY <1>1, <2>1, <3>2 DEF Leasing!vars
    <3> QED
      BY <3>1, <3>2
  <2> QED
    BY <1>2, <1>3, <2>1 DEF Exhaust, LiveFenced, runVars
<1>4. ASSUME NEW q \in Runs, Acquire(q) \/ ExpireLease(q) \/ EndRun(q)
      PROVE  Leasing(r)!Next \/ UNCHANGED Leasing(r)!vars
  <2>1. CASE q # r
    BY <1>1, <1>4, <2>1 DEF Acquire, ExpireLease, EndRun, Leasing!vars
  <2>2. CASE q = r /\ Acquire(r)
    BY <1>1, <2>2 DEF Acquire, Leasing!Next, Leasing!Acquire
  <2>3. CASE q = r /\ ExpireLease(r)
    BY <1>1, <2>3 DEF ExpireLease, Leasing!Next, Leasing!Lose
  <2>4. CASE q = r /\ EndRun(r)
    BY <1>1, <2>4 DEF EndRun, Leasing!Next, Leasing!End
  <2> QED
    BY <1>4, <2>1, <2>2, <2>3, <2>4
<1>5. CASE \E o \in Owners : \/ Reserve(o) \/ Denied(o) \/ StaleFence(o) \/ CallStep(o) \/ Crash(o)
  BY <1>2, <1>5 DEF Reserve, Denied, StaleFence, CallStep, Perform, Settle, CallFails, Release,
     OutcomeUnwritten, Crash
<1>6. CASE Tick \/ Reconcile \/ UNCHANGED vars
  BY <1>2, <1>6 DEF Tick, Reconcile, vars, runVars
<1> QED
  BY <1>3, <1>4, <1>5, <1>6 DEF Next, OwnerStep

(* The runs that budgets are fenced by are runs as WorkerRun has them.     *)
THEOREM LeaseRefinement == Spec => KeepLeases
<1> SUFFICES ASSUME NEW r \in Runs PROVE Spec => Leasing(r)!Spec
  BY DEF KeepLeases
<1>1. Init => Leasing(r)!Init
  BY DEF Init, Leasing!Init
<1>2. TypeOK /\ [Next]_vars => [Leasing(r)!Next]_(Leasing(r)!vars)
  BY LeasingStep
<1>3. Spec => []TypeOK
  BY TypeCorrect
<1> QED
  BY <1>1, <1>2, <1>3, PTL DEF Spec, Leasing!Spec
================================================================================
