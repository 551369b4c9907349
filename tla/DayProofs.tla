------------------------------- MODULE DayProofs -------------------------------
(***************************************************************************)
(* Proofs about Day, for any requests, conversations, caps, former runs    *)
(* and questions of readers: the plan tiles what was asked for, a revisit  *)
(* is never a need, an answer counts a conversation once a day, and what   *)
(* is provisional is never shown as official nor exported.                 *)
(*                                                                         *)
(* The plan is a walk from midnight to midnight, a recursive function; its *)
(* lemmas take the least distance to the end at which it would fail.  The  *)
(* dashboard reads the board, the mart and then the mart again while the   *)
(* run moves on, so the invariant says of every snapshot a reader holds    *)
(* that it is still true: of the day of its facts, and of a run of the     *)
(* whole day when it is official.                                          *)
(*                                                                         *)
(* The module also holds the lemmas on sums over finite sets and on the    *)
(* waits of a day that ExtractionProofs needs.                             *)
(***************************************************************************)
EXTENDS Day, FunctionTheorems, FiniteSetTheorems, WellFoundedInduction, TLAPS

(* A set of numbers has a least one.                                       *)
LEMMA LeastExists ==
  ASSUME NEW S \in SUBSET Nat, S # {}
  PROVE  \E n \in S : \A m \in S : n <= m
<1>1. PICK n \in S : \A m \in S : <<m, n>> \notin OpToRel(<, Nat)
  BY WFMin, NatLessThanWellFounded, Zenon
<1>2. \A m \in S : ~(m < n)
  BY <1>1, Zenon DEF OpToRel
<1>3. \A m \in S : n <= m
  BY <1>2
<1> QED BY <1>3

(***************************************************************************)
(* Sums.                                                                   *)
(***************************************************************************)
(* Induction on the subsets of a finite set.                               *)
LEMMA BySubsets ==
  ASSUME NEW S, IsFiniteSet(S), NEW Good \in SUBSET SUBSET S,
         \A T \in SUBSET S : (\A U \in SUBSET T : U # T => U \in Good) => T \in Good
  PROVE  S \in Good
<1> DEFINE Bad == {T \in SUBSET S : T \notin Good}
           Sizes == {n \in Nat : \E T \in Bad : Cardinality(T) = n}
<1> SUFFICES ASSUME Bad # {} PROVE FALSE
  OBVIOUS
<1>1. \A T \in SUBSET S : IsFiniteSet(T) /\ Cardinality(T) \in Nat
  BY FS_Subset, FS_CardinalityType
<1>2. Sizes # {} /\ Sizes \in SUBSET Nat
  BY <1>1
<1>3. PICK n \in Sizes : \A m \in Sizes : n <= m
  <2> HIDE DEF Sizes
  <2> QED BY <1>2, LeastExists
<1>4. PICK T \in Bad : Cardinality(T) = n
  OBVIOUS
<1>5. ASSUME NEW U \in SUBSET T, U # T PROVE U \in Good
  <2>1. Cardinality(U) < Cardinality(T)
    BY <1>1, <1>5, FS_Subset
  <2>2. U \in SUBSET S /\ Cardinality(U) \in Nat
    BY <1>1
  <2>3. Cardinality(U) \notin Sizes
    BY <1>3, <1>4, <2>1, <2>2
  <2> QED BY <2>2, <2>3
<1> QED BY <1>5

Pick(s) == CHOOSE x \in s : TRUE

LEMMA Picked == ASSUME NEW s, s # {} PROVE Pick(s) \in s
BY DEF Pick

AddUp(sum, f, s) == IF s = {} THEN 0 ELSE f[Pick(s)] + sum[s \ {Pick(s)}]

(* The sums over the sets of D.                                            *)
SumsOn(sum, f, D) == sum = [s \in D |-> AddUp(sum, f, s)]

IsSum(sum, f, S) == SumsOn(sum, f, SUBSET S)

LEMMA SumIsSum ==
  ASSUME NEW f, NEW S
  PROVE  SumFunctionOnSet(f, S) = (CHOOSE sum : IsSum(sum, f, S))[S]
BY Zenon DEF SumFunctionOnSet, FoldFunctionOnSet, MapThenFoldSet, IsSum, SumsOn, AddUp, Pick

(* There are such sums: of the sets up to a size, from those up to the     *)
(* size before.                                                            *)
UpTo(S, n) == {s \in SUBSET S : Cardinality(s) <= n}

LEMMA PickedLess ==
  ASSUME NEW S, IsFiniteSet(S), NEW n \in Nat, NEW s \in UpTo(S, n), s # {}
  PROVE  n # 0 /\ s \ {Pick(s)} \in UpTo(S, n - 1)
<1>1. IsFiniteSet(s) /\ Cardinality(s) \in Nat /\ Cardinality(s) <= n /\ s \subseteq S
  BY FS_Subset, FS_CardinalityType DEF UpTo
<1>2. Cardinality(s) # 0
  BY <1>1, FS_EmptySet
<1>3. Cardinality(s \ {Pick(s)}) = Cardinality(s) - 1
  BY <1>1, Picked, FS_RemoveElement
<1> QED BY <1>1, <1>2, <1>3 DEF UpTo

LEMMA SumsUpTo ==
  ASSUME NEW S, IsFiniteSet(S), NEW f, NEW n \in Nat
  PROVE  \E sum : SumsOn(sum, f, UpTo(S, n))
<1> DEFINE Lacks == {k \in Nat : ~ \E sum : SumsOn(sum, f, UpTo(S, k))}
<1> SUFFICES ASSUME Lacks # {} PROVE FALSE
  OBVIOUS
<1>1. PICK k \in Lacks : \A m \in Lacks : k <= m
  <2>1. Lacks \in SUBSET Nat
    OBVIOUS
  <2> HIDE DEF Lacks
  <2> QED BY <2>1, LeastExists
<1>2. ASSUME NEW rest, \A s \in UpTo(S, k) : s # {} => k # 0 /\ SumsOn(rest, f, UpTo(S, k - 1))
      PROVE  FALSE
  <2> DEFINE whole == [s \in UpTo(S, k) |-> AddUp(rest, f, s)]
  <2>1. ASSUME NEW s \in UpTo(S, k)
        PROVE  AddUp(whole, f, s) = AddUp(rest, f, s)
    <3>1. CASE s = {}
      BY <3>1 DEF AddUp
    <3>2. CASE s # {}
      <4> PICK r : r = s \ {Pick(s)}
        OBVIOUS
      <4>1. r \in UpTo(S, k - 1) /\ k # 0
        BY <3>2, PickedLess
      <4>2. r \in UpTo(S, k)
        <5>1. r \in SUBSET S /\ Cardinality(r) <= k - 1
          BY <4>1 DEF UpTo
        <5>2. Cardinality(r) \in Nat
          BY <5>1, FS_Subset, FS_CardinalityType
        <5> QED BY <5>1, <5>2 DEF UpTo
      <4>3. whole[r] = rest[r]
        BY <1>2, <3>2, <4>1, <4>2 DEF SumsOn
      <4> HIDE DEF whole
      <4> QED BY <3>2, <4>3 DEF AddUp
    <3> QED BY <3>1, <3>2
  <2>2. whole = [s \in UpTo(S, k) |-> whole[s]]
    OBVIOUS
  <2>3. \A s \in UpTo(S, k) : whole[s] = AddUp(rest, f, s)
    OBVIOUS
  <2>4. whole = [s \in UpTo(S, k) |-> AddUp(whole, f, s)]
    <3> HIDE DEF whole
    <3> QED BY <2>1, <2>2, <2>3
  <2> HIDE DEF whole
  <2> QED BY <2>4 DEF SumsOn
<1>3. CASE k = 0
  <2>1. \A s \in UpTo(S, k) : s = {}
    BY <1>3, PickedLess
  <2> QED BY <1>2, <2>1
<1>4. CASE k # 0
  <2>1. k - 1 \in Nat /\ k - 1 \notin Lacks
    BY <1>1, <1>4
  <2>2. PICK rest : SumsOn(rest, f, UpTo(S, k - 1))
    BY <2>1
  <2> QED BY <1>2, <1>4, <2>2
<1> QED BY <1>3, <1>4

LEMMA SumExists ==
  ASSUME NEW S, IsFiniteSet(S), NEW f
  PROVE  \E sum : IsSum(sum, f, S)
<1> PICK n : n = Cardinality(S)
  OBVIOUS
<1>1. n \in Nat
  BY FS_CardinalityType
<1>2. UpTo(S, n) = SUBSET S
  BY FS_Subset DEF UpTo
<1>3. \E sum : SumsOn(sum, f, UpTo(S, n))
  BY <1>1, SumsUpTo
<1> QED BY <1>2, <1>3, Zenon DEF IsSum

(* The sums over the subsets of a subset are the same.                     *)
LEMMA SumsAgree ==
  ASSUME NEW S, IsFiniteSet(S), NEW f, NEW T \in SUBSET S,
         NEW sum, IsSum(sum, f, S), NEW part, IsSum(part, f, T)
  PROVE  part[T] = sum[T]
<1> DEFINE Good == {U \in SUBSET T : part[U] = sum[U]}
<1>1. ASSUME NEW U \in SUBSET T, \A V \in SUBSET U : V # U => V \in Good
      PROVE  U \in Good
  <2>1. U \in SUBSET S
    OBVIOUS
  <2>2. CASE U = {}
    <3>1. part[U] = 0 /\ sum[U] = 0
      BY <2>1, <2>2 DEF IsSum, SumsOn, AddUp
    <3> QED BY <3>1
  <2>3. CASE U # {}
    <3> PICK x : x = Pick(U)
      OBVIOUS
    <3>1. x \in U
      BY <2>3, Picked
    <3>2. part[U] = f[x] + part[U \ {x}] /\ sum[U] = f[x] + sum[U \ {x}]
      BY <2>1, <2>3 DEF IsSum, SumsOn, AddUp
    <3>3. U \ {x} \in SUBSET U /\ U \ {x} # U
      BY <3>1
    <3>4. U \ {x} \in Good
      BY <1>1, <3>3
    <3> QED BY <3>2, <3>4
  <2> QED BY <2>2, <2>3
<1>2. IsFiniteSet(T) /\ Good \in SUBSET SUBSET T
  BY FS_Subset
<1> HIDE DEF Good
<1>3. T \in Good
  BY <1>1, <1>2, BySubsets
<1> QED BY <1>3 DEF Good

(* The sum over a set: that of one element and the rest.                   *)
LEMMA SumUnfolds ==
  ASSUME NEW S, IsFiniteSet(S), NEW f
  PROVE  SumFunctionOnSet(f, S) = IF S = {} THEN 0
           ELSE f[Pick(S)] + SumFunctionOnSet(f, S \ {Pick(S)})
<1> PICK sum : sum = CHOOSE g : IsSum(g, f, S)
  OBVIOUS
<1> PICK T : T = S \ {Pick(S)}
  OBVIOUS
<1> PICK part : part = CHOOSE g : IsSum(g, f, T)
  OBVIOUS
<1>1. IsFiniteSet(T) /\ T \in SUBSET S
  BY FS_Subset
<1>2. IsSum(sum, f, S)
  <2>1. \E g : IsSum(g, f, S)
    BY SumExists
  <2> QED BY <2>1, Zenon
<1>3. IsSum(part, f, T)
  <2>1. \E g : IsSum(g, f, T)
    BY <1>1, SumExists
  <2> QED BY <2>1, Zenon
<1>4. part[T] = sum[T]
  BY <1>1, <1>2, <1>3, SumsAgree
<1>5. SumFunctionOnSet(f, S) = sum[S] /\ SumFunctionOnSet(f, T) = part[T]
  BY SumIsSum
<1>6. sum[S] = IF S = {} THEN 0 ELSE f[Pick(S)] + sum[T]
  <2>1. \A U \in SUBSET S : sum[U] = AddUp(sum, f, U)
    BY <1>2 DEF IsSum, SumsOn
  <2>2. sum[S] = AddUp(sum, f, S)
    BY <2>1
  <2> QED BY <2>2 DEF AddUp
<1> QED BY <1>4, <1>5, <1>6

LEMMA SumTyped ==
  ASSUME NEW S, IsFiniteSet(S), NEW f, \A x \in S : f[x] \in Int
  PROVE  SumFunctionOnSet(f, S) \in Int
<1> DEFINE Good == {T \in SUBSET S : SumFunctionOnSet(f, T) \in Int}
<1>1. ASSUME NEW T \in SUBSET S, \A U \in SUBSET T : U # T => U \in Good
      PROVE  T \in Good
  <2>1. IsFiniteSet(T)
    BY FS_Subset
  <2>2. T # {} => Pick(T) \in T
    BY Picked
  <2>3. T # {} => SumFunctionOnSet(f, T \ {Pick(T)}) \in Int
    BY <1>1, <2>2
  <2>4. SumFunctionOnSet(f, T) = IF T = {} THEN 0
           ELSE f[Pick(T)] + SumFunctionOnSet(f, T \ {Pick(T)})
    BY <2>1, SumUnfolds
  <2> QED BY <2>2, <2>3, <2>4
<1>2. Good \in SUBSET SUBSET S
  OBVIOUS
<1> HIDE DEF Good
<1>3. S \in Good
  BY <1>1, <1>2, BySubsets
<1> QED BY <1>3 DEF Good

(* Any element may be taken first.                                         *)
LEMMA SumOfMore ==
  ASSUME NEW S, IsFiniteSet(S), NEW f, \A x \in S : f[x] \in Int
  PROVE  \A x \in S : SumFunctionOnSet(f, S) = f[x] + SumFunctionOnSet(f, S \ {x})
<1> DEFINE Sum(T) == SumFunctionOnSet(f, T)
           Good == {T \in SUBSET S : \A x \in T : Sum(T) = f[x] + Sum(T \ {x})}
<1>0. \A T \in SUBSET S : IsFiniteSet(T) /\ Sum(T) \in Int
  BY FS_Subset, SumTyped
<1>1. ASSUME NEW T \in SUBSET S, \A U \in SUBSET T : U # T => U \in Good, NEW x \in T
      PROVE  Sum(T) = f[x] + Sum(T \ {x})
  <2> PICK y : y = Pick(T)
    OBVIOUS
  <2>1. y \in T /\ Sum(T) = f[y] + Sum(T \ {y})
    BY <1>0, Picked, SumUnfolds
  <2>2. CASE x = y
    BY <2>1, <2>2
  <2>3. CASE x # y
    <3>1. T \ {x} \in Good /\ T \ {y} \in Good
      BY <1>1, <2>1
    <3>2. x \in T \ {y} /\ y \in T \ {x}
      BY <2>1, <2>3
    <3>3. (T \ {x}) \ {y} = (T \ {y}) \ {x}
      OBVIOUS
    <3>4. Sum(T \ {x}) = f[y] + Sum((T \ {y}) \ {x}) /\ Sum(T \ {y}) = f[x] + Sum((T \ {y}) \ {x})
      BY <3>1, <3>2, <3>3
    <3>5. f[x] \in Int /\ f[y] \in Int /\ Sum((T \ {y}) \ {x}) \in Int
      BY <1>0, <2>1
    <3> HIDE DEF Sum
    <3> QED BY <2>1, <3>4, <3>5
  <2> QED BY <2>2, <2>3
<1>2. Good \in SUBSET SUBSET S
  OBVIOUS
<1>3. S \in Good
  <2>1. \A T \in SUBSET S : (\A U \in SUBSET T : U # T => U \in Good) => T \in Good
    BY <1>1
  <2> HIDE DEF Good
  <2> QED BY <1>2, <2>1, BySubsets
<1> QED BY <1>3

(* Only the values on the set matter.                                      *)
LEMMA SumsEqual ==
  ASSUME NEW S, IsFiniteSet(S), NEW f, NEW g, \A x \in S : f[x] = g[x]
  PROVE  SumFunctionOnSet(f, S) = SumFunctionOnSet(g, S)
<1> DEFINE Good == {T \in SUBSET S : SumFunctionOnSet(f, T) = SumFunctionOnSet(g, T)}
<1>1. ASSUME NEW T \in SUBSET S, \A U \in SUBSET T : U # T => U \in Good
      PROVE  T \in Good
  <2>1. /\ SumFunctionOnSet(f, T) = IF T = {} THEN 0
             ELSE f[Pick(T)] + SumFunctionOnSet(f, T \ {Pick(T)})
        /\ SumFunctionOnSet(g, T) = IF T = {} THEN 0
             ELSE g[Pick(T)] + SumFunctionOnSet(g, T \ {Pick(T)})
    BY FS_Subset, SumUnfolds
  <2>2. T # {} => Pick(T) \in T
    BY Picked
  <2>3. T # {} => T \ {Pick(T)} \in Good
    BY <1>1, <2>2
  <2> QED BY <2>1, <2>2, <2>3
<1>2. Good \in SUBSET SUBSET S
  OBVIOUS
<1> HIDE DEF Good
<1>3. S \in Good
  BY <1>1, <1>2, BySubsets
<1> QED BY <1>3 DEF Good

(* Equal shares.                                                           *)
LEMMA SumOfShares ==
  ASSUME NEW S, IsFiniteSet(S), NEW f, NEW c \in Int, \A x \in S : f[x] = c
  PROVE  SumFunctionOnSet(f, S) = c * Cardinality(S)
<1> DEFINE Good == {T \in SUBSET S : SumFunctionOnSet(f, T) = c * Cardinality(T)}
<1>1. ASSUME NEW T \in SUBSET S, \A U \in SUBSET T : U # T => U \in Good
      PROVE  T \in Good
  <2>1. IsFiniteSet(T) /\ Cardinality(T) \in Nat
    BY FS_Subset, FS_CardinalityType
  <2>2. SumFunctionOnSet(f, T) = IF T = {} THEN 0
             ELSE f[Pick(T)] + SumFunctionOnSet(f, T \ {Pick(T)})
    BY <2>1, SumUnfolds
  <2>3. CASE T = {}
    <3>1. Cardinality(T) = 0
      BY <2>3, FS_EmptySet
    <3> QED BY <2>2, <2>3, <3>1
  <2>4. CASE T # {}
    <3>1. Pick(T) \in T
      BY <2>4, Picked
    <3>2. Cardinality(T \ {Pick(T)}) = Cardinality(T) - 1
      BY <2>1, <3>1, FS_RemoveElement
    <3>3. T \ {Pick(T)} \in Good
      BY <1>1, <3>1
    <3>4. SumFunctionOnSet(f, T) = c + c * (Cardinality(T) - 1)
      BY <2>2, <2>4, <3>1, <3>2, <3>3
    <3> PICK n \in Nat : n = Cardinality(T)
      BY <2>1
    <3>5. c + c * (n - 1) = c * n
      OBVIOUS
    <3> QED BY <3>4, <3>5
  <2> QED BY <2>3, <2>4
<1>2. Good \in SUBSET SUBSET S
  OBVIOUS
<1> HIDE DEF Good
<1>3. S \in Good
  BY <1>1, <1>2, BySubsets
<1> QED BY <1>3 DEF Good

(* The part of a set a key takes.                                          *)
Part(S, key, k) == {i \in S : key[i] = k}

(* The parts of a set, one for each key, add up to the set.                *)
LEMMA SumOfParts ==
  ASSUME NEW S, IsFiniteSet(S), NEW key, NEW f, NEW Keys, IsFiniteSet(Keys),
         \A i \in S : key[i] \in Keys,
         \A k \in Keys : f[k] = Cardinality(Part(S, key, k))
  PROVE  SumFunctionOnSet(f, Keys) = Cardinality(S)
<1> DEFINE With(T) == {i \in S : key[i] \in T}
           Good == {T \in SUBSET Keys : SumFunctionOnSet(f, T) = Cardinality(With(T))}
<1>1. ASSUME NEW T \in SUBSET Keys, \A U \in SUBSET T : U # T => U \in Good
      PROVE  T \in Good
  <2>1. IsFiniteSet(T)
    BY FS_Subset
  <2>2. SumFunctionOnSet(f, T) = IF T = {} THEN 0
             ELSE f[Pick(T)] + SumFunctionOnSet(f, T \ {Pick(T)})
    BY <2>1, SumUnfolds
  <2>3. CASE T = {}
    <3>1. With(T) = {}
      BY <2>3
    <3> QED BY <2>2, <2>3, <3>1, FS_EmptySet
  <2>4. CASE T # {}
    <3> PICK x : x = Pick(T)
      OBVIOUS
    <3> DEFINE own == {i \in S : key[i] = x}
               others == With(T \ {x})
    <3>1. x \in T
      BY <2>4, Picked
    <3>2. own \cup others = With(T) /\ own \cap others = {}
      BY <3>1
    <3>3. own \in SUBSET S /\ others \in SUBSET S
      OBVIOUS
    <3>4. IsFiniteSet(own) /\ IsFiniteSet(others)
      BY <3>3, FS_Subset
    <3>5. T \ {x} \in Good
      BY <1>1, <3>1
    <3>6. SumFunctionOnSet(f, T \ {x}) = Cardinality(others) /\ f[x] = Cardinality(own)
      BY <3>1, <3>5 DEF Part
    <3> HIDE DEF own, others, With
    <3>7. Cardinality(own \cup others)
            = Cardinality(own) + Cardinality(others) - Cardinality(own \cap others)
      BY <3>4, FS_Union
    <3>8. Cardinality(own) \in Nat /\ Cardinality(others) \in Nat /\ Cardinality(own \cap others) = 0
      BY <3>2, <3>4, FS_CardinalityType, FS_EmptySet
    <3>9. Cardinality(With(T)) = Cardinality(own) + Cardinality(others)
      BY <3>2, <3>7, <3>8
    <3>10. SumFunctionOnSet(f, T) = f[x] + SumFunctionOnSet(f, T \ {x})
      BY <2>2, <2>4
    <3>11. SumFunctionOnSet(f, T) = Cardinality(With(T))
      BY <3>6, <3>9, <3>10
    <3> QED BY <3>11
  <2> QED BY <2>3, <2>4
<1>2. Good \in SUBSET SUBSET Keys
  OBVIOUS
<1>3. Keys \in Good
  <2> HIDE DEF Good
  <2> QED BY <1>1, <1>2, BySubsets
<1>4. With(Keys) = S
  OBVIOUS
<1> QED BY <1>3, <1>4

(***************************************************************************)
(* The waits of a day.                                                     *)
(***************************************************************************)
Customers(m) == {i \in DOMAIN m : m[i].role = "customer"}

(* A customer's message that starts a wait.                                *)
Opens(m, i) ==
  \A k \in Customers(m) : k < i => \E s \in StaffMessages(m) : k < s /\ s < i

(* The waits a customer really had, each from its first message to its     *)
(* answer.                                                                 *)
RealWaits(m) ==
  {w \in Customers(m) \X StaffMessages(m) :
     w[1] < w[2] /\ Opens(m, w[1]) /\ ~ \E s \in StaffMessages(m) : w[1] < s /\ s < w[2]}

Lengths(m) == [w \in RealWaits(m) |-> m[w[2]].at - m[w[1]].at]

(* Those over, and those still open, after the first n messages.           *)
WaitsBy(m, n) == {w \in RealWaits(m) : w[2] <= n}

OpenAt(m, n) == {i \in Customers(m) : i <= n /\ Opens(m, i)
                                      /\ ~ \E s \in StaffMessages(m) : i < s /\ s <= n}

IsDay(m) == /\ Len(m) \in Nat /\ DOMAIN m = 1 .. Len(m)
            /\ \A i \in DOMAIN m : m[i].at \in Int

LEMMA RolesApart == ASSUME NEW m PROVE Customers(m) \cap StaffMessages(m) = {}
BY DEF Customers, StaffMessages

LEMMA Indices ==
  ASSUME NEW m, IsDay(m)
  PROVE  /\ \A i \in Customers(m) : i \in Nat /\ i \in DOMAIN m
         /\ \A i \in StaffMessages(m) : i \in Nat /\ i \in DOMAIN m
BY DEF Customers, StaffMessages, IsDay

(* At most one wait is open.                                               *)
LEMMA OneOpen ==
  ASSUME NEW m, IsDay(m), NEW n \in Nat, NEW i \in OpenAt(m, n), NEW j \in OpenAt(m, n)
  PROVE  i = j
<1>1. i \in Nat /\ j \in Nat /\ i \in Customers(m) /\ j \in Customers(m)
  BY Indices DEF OpenAt
<1>2. ASSUME NEW a \in OpenAt(m, n), NEW b \in OpenAt(m, n), a < b, a \in Nat, b \in Nat
      PROVE  FALSE
  <2>1. PICK s \in StaffMessages(m) : a < s /\ s < b
    BY <1>2 DEF OpenAt, Opens
  <2>2. s \in Nat /\ b <= n
    BY Indices DEF OpenAt
  <2> QED BY <1>2, <2>1, <2>2 DEF OpenAt
<1> QED BY <1>1, <1>2

(* If none is open, every customer has been answered.                      *)
LEMMA NoneOpen ==
  ASSUME NEW m, IsDay(m), NEW n \in Nat, OpenAt(m, n) = {}
  PROVE  \A k \in Customers(m) : k <= n => \E s \in StaffMessages(m) : k < s /\ s <= n
<1> DEFINE Unanswered == {k \in Customers(m) : k <= n /\ ~ \E s \in StaffMessages(m) : k < s /\ s <= n}
<1> SUFFICES ASSUME Unanswered # {} PROVE FALSE
  OBVIOUS
<1>1. PICK k \in Unanswered : \A j \in Unanswered : k <= j
  <2>1. Unanswered \in SUBSET Nat
    BY Indices
  <2> HIDE DEF Unanswered
  <2> QED BY <2>1, LeastExists
<1>2. ASSUME NEW c \in Customers(m), c < k
      PROVE  \E s \in StaffMessages(m) : c < s /\ s < k
  <2>1. c \in Nat /\ k \in Nat /\ k \in Customers(m) /\ k <= n
    BY Indices
  <2>2. c \notin Unanswered
    BY <1>1, <1>2, <2>1
  <2>3. PICK s \in StaffMessages(m) : c < s /\ s <= n
    BY <1>2, <2>1, <2>2
  <2>4. s \in Nat /\ s # k
    BY <2>1, Indices, RolesApart
  <2>5. ~(k < s)
    BY <2>3
  <2> QED BY <2>1, <2>3, <2>4, <2>5
<1>3. k \in OpenAt(m, n)
  BY <1>2 DEF OpenAt, Opens
<1> QED BY <1>3

(* One message more: a customer opens a wait if none is open, ...          *)
LEMMA CustomerWrites ==
  ASSUME NEW m, IsDay(m), NEW n \in Nat, n + 1 \in Customers(m)
  PROVE  /\ WaitsBy(m, n + 1) = WaitsBy(m, n)
         /\ OpenAt(m, n + 1) = IF OpenAt(m, n) = {} THEN {n + 1} ELSE OpenAt(m, n)
<1>0. n + 1 \notin StaffMessages(m)
  BY RolesApart
<1>1. \A s \in StaffMessages(m) : s <= n + 1 <=> s <= n
  BY <1>0, Indices
<1>2. WaitsBy(m, n + 1) = WaitsBy(m, n)
  BY <1>1 DEF WaitsBy, RealWaits
<1>3. \A i \in Customers(m) : i # n + 1 => (i \in OpenAt(m, n + 1) <=> i \in OpenAt(m, n))
  <2>1. \A i \in Customers(m) : i # n + 1 => (i <= n + 1 <=> i <= n)
    BY Indices
  <2> QED BY <1>1, <2>1 DEF OpenAt
<1>4. n + 1 \in OpenAt(m, n + 1) <=> Opens(m, n + 1)
  BY <1>1, Indices DEF OpenAt
<1>5. n + 1 \notin OpenAt(m, n)
  BY DEF OpenAt
<1>6. CASE OpenAt(m, n) = {}
  <2>1. \A k \in Customers(m) : k < n + 1 => \E s \in StaffMessages(m) : k < s /\ s < n + 1
    BY <1>6, NoneOpen, Indices
  <2>2. Opens(m, n + 1)
    BY <2>1 DEF Opens
  <2> QED BY <1>2, <1>3, <1>4, <1>6, <2>2 DEF OpenAt
<1>7. CASE OpenAt(m, n) # {}
  <2> PICK i : i \in OpenAt(m, n)
    BY <1>7
  <2>1. i \in Customers(m) /\ i <= n /\ i \in Nat /\ ~ \E s \in StaffMessages(m) : i < s /\ s <= n
    BY Indices DEF OpenAt
  <2>2. ~Opens(m, n + 1)
    BY <1>1, <2>1, Indices DEF Opens
  <2> QED BY <1>2, <1>3, <1>4, <1>5, <1>7, <2>2 DEF OpenAt
<1> QED BY <1>6, <1>7

(* ... an answer of the staff ends the one that is open, ...               *)
LEMMA StaffWrites ==
  ASSUME NEW m, IsDay(m), NEW n \in Nat, n + 1 \in StaffMessages(m)
  PROVE  /\ OpenAt(m, n + 1) = {}
         /\ WaitsBy(m, n + 1) = WaitsBy(m, n) \cup {<<i, n + 1>> : i \in OpenAt(m, n)}
<1>1. n + 1 \notin Customers(m)
  BY RolesApart
<1>2. OpenAt(m, n + 1) = {}
  <2> SUFFICES ASSUME NEW i \in OpenAt(m, n + 1) PROVE FALSE
    OBVIOUS
  <2>1. i \in Nat /\ i \in Customers(m) /\ i <= n + 1 /\ i # n + 1
    BY <1>1, Indices DEF OpenAt
  <2>2. i < n + 1
    BY <2>1
  <2> QED BY <2>2 DEF OpenAt
<1>3. \A s \in StaffMessages(m) : s < n + 1 <=> s <= n
  BY Indices
<1>4. \A i \in Customers(m) : i < n + 1 <=> i <= n
  BY Indices
<1>5. \A i \in Customers(m) : i \in OpenAt(m, n) <=> <<i, n + 1>> \in RealWaits(m)
  BY <1>3, <1>4 DEF OpenAt, RealWaits
<1>6. \A w \in RealWaits(m) : w = <<w[1], w[2]>> /\ w[1] \in Customers(m) /\ w[2] \in StaffMessages(m)
  BY DEF RealWaits
<1>7. \A s \in StaffMessages(m) : s <= n + 1 <=> s <= n \/ s = n + 1
  BY Indices
<1>8. \A i \in OpenAt(m, n) : i \in Customers(m)
  BY DEF OpenAt
<1>9. WaitsBy(m, n + 1) = WaitsBy(m, n) \cup {w \in RealWaits(m) : w[2] = n + 1}
  BY <1>6, <1>7 DEF WaitsBy
<1>10. {w \in RealWaits(m) : w[2] = n + 1} = {<<i, n + 1>> : i \in OpenAt(m, n)}
  <2>1. ASSUME NEW w \in RealWaits(m), w[2] = n + 1
        PROVE  \E i \in OpenAt(m, n) : w = <<i, n + 1>>
    BY <1>5, <1>6, <2>1
  <2>2. ASSUME NEW i \in OpenAt(m, n)
        PROVE  <<i, n + 1>> \in RealWaits(m)
    BY <1>5, <1>8, <2>2
  <2> QED BY <2>1, <2>2
<1> QED BY <1>2, <1>9, <1>10

(* ... and any other leaves them as they were.                             *)
LEMMA OthersWrite ==
  ASSUME NEW m, IsDay(m), NEW n \in Nat, n + 1 \notin Customers(m) \cup StaffMessages(m)
  PROVE  OpenAt(m, n + 1) = OpenAt(m, n) /\ WaitsBy(m, n + 1) = WaitsBy(m, n)
<1>1. \A s \in StaffMessages(m) : s <= n + 1 <=> s <= n
  BY Indices
<1>2. \A i \in Customers(m) : i <= n + 1 <=> i <= n
  BY Indices
<1>3. WaitsBy(m, n + 1) = WaitsBy(m, n)
  BY <1>1 DEF WaitsBy, RealWaits
<1>4. OpenAt(m, n + 1) = OpenAt(m, n)
  BY <1>1, <1>2 DEF OpenAt
<1> QED BY <1>3, <1>4

(* What the pass has gathered after the first n messages.                  *)
Start == [pending |-> NoTime, waits |-> <<>>]

NextPass(after, m, n) == IF n = 0 THEN Start ELSE AfterMessage(after[n - 1], m[n])

IsPass(after, m, k) == after = [n \in 0 .. k |-> NextPass(after, m, n)]

LEMMA PassExists ==
  ASSUME NEW m, NEW k \in Nat
  PROVE  \E after : IsPass(after, m, k)
<1> DEFINE Lacks == {n \in Nat : ~ \E after : IsPass(after, m, n)}
<1> SUFFICES ASSUME Lacks # {} PROVE FALSE
  OBVIOUS
<1>1. PICK n \in Lacks : \A j \in Lacks : n <= j
  <2>1. Lacks \in SUBSET Nat
    OBVIOUS
  <2> HIDE DEF Lacks
  <2> QED BY <2>1, LeastExists
<1>2. ASSUME NEW rest, n # 0 => IsPass(rest, m, n - 1)
      PROVE  FALSE
  <2> DEFINE whole == [j \in 0 .. n |-> NextPass(rest, m, j)]
  <2>1. ASSUME NEW j \in 0 .. n
        PROVE  NextPass(whole, m, j) = NextPass(rest, m, j)
    <3>1. CASE j = 0
      BY <3>1 DEF NextPass
    <3>2. CASE j # 0
      <4>1. n # 0 /\ j - 1 \in 0 .. (n - 1) /\ j - 1 \in 0 .. n
        BY <3>2
      <4>2. whole[j - 1] = NextPass(rest, m, j - 1)
        BY <4>1
      <4>3. rest[j - 1] = NextPass(rest, m, j - 1)
        BY <1>2, <4>1 DEF IsPass
      <4> HIDE DEF whole
      <4> QED BY <4>2, <4>3 DEF NextPass
    <3> QED BY <3>1, <3>2
  <2>2. whole = [j \in 0 .. n |-> NextPass(whole, m, j)]
    <3>1. whole = [j \in 0 .. n |-> whole[j]] /\ \A j \in 0 .. n : whole[j] = NextPass(rest, m, j)
      OBVIOUS
    <3> HIDE DEF whole
    <3> QED BY <2>1, <3>1
  <2> HIDE DEF whole
  <2> QED BY <1>1, <2>2 DEF IsPass
<1>3. CASE n = 0
  BY <1>2, <1>3
<1>4. CASE n # 0
  <2>1. n - 1 \in Nat /\ n - 1 \notin Lacks
    BY <1>1, <1>4
  <2> QED BY <1>2, <2>1
<1> QED BY <1>3, <1>4

(* What getResponseTimes returns is that pass.                             *)
LEMMA WaitsIsPass ==
  ASSUME NEW m, Len(m) \in Nat
  PROVE  \E after : IsPass(after, m, Len(m)) /\ Waits(m) = after[Len(m)].waits
<1> DEFINE Chosen ==
      CHOOSE after : after =
        [n \in 0 .. Len(m) |-> IF n = 0 THEN [pending |-> NoTime, waits |-> <<>>]
                                ELSE AfterMessage(after[n - 1], m[n])]
<1>1. Waits(m) = Chosen[Len(m)].waits
  BY Zenon DEF Waits
<1>2. Chosen = CHOOSE after : IsPass(after, m, Len(m))
  BY Zenon DEF IsPass, NextPass, Start
<1> HIDE DEF Chosen
<1>3. IsPass(Chosen, m, Len(m))
  BY <1>2, PassExists, Zenon
<1> QED BY <1>1, <1>3

LEMMA WaitsFinite ==
  ASSUME NEW m, IsDay(m)
  PROVE  IsFiniteSet(RealWaits(m)) /\ \A n : IsFiniteSet(WaitsBy(m, n))
<1> PICK n \in Nat : n = Len(m)
  BY DEF IsDay
<1>0. IsFiniteSet(1 .. n)
  BY FS_Interval
<1>1. IsFiniteSet(DOMAIN m)
  BY <1>0 DEF IsDay
<1>2. Customers(m) \in SUBSET DOMAIN m /\ StaffMessages(m) \in SUBSET DOMAIN m
  BY DEF Customers, StaffMessages
<1>3. IsFiniteSet(Customers(m)) /\ IsFiniteSet(StaffMessages(m))
  BY <1>1, <1>2, FS_Subset
<1>4. IsFiniteSet(Customers(m) \X StaffMessages(m))
  BY <1>3, FS_Product
<1>5. RealWaits(m) \in SUBSET (Customers(m) \X StaffMessages(m))
  BY DEF RealWaits
<1>6. \A k : WaitsBy(m, k) \in SUBSET RealWaits(m)
  BY DEF WaitsBy
<1> QED BY <1>4, <1>5, <1>6, FS_Subset

LEMMA WaitPairs ==
  ASSUME NEW m, IsDay(m), NEW w \in RealWaits(m)
  PROVE  /\ w = <<w[1], w[2]>> /\ w[1] \in Customers(m) /\ w[2] \in StaffMessages(m)
         /\ w[1] \in Nat /\ w[2] \in Nat /\ w[1] < w[2]
         /\ Lengths(m)[w] = m[w[2]].at - m[w[1]].at /\ Lengths(m)[w] \in Int
<1>1. w = <<w[1], w[2]>> /\ w[1] \in Customers(m) /\ w[2] \in StaffMessages(m) /\ w[1] < w[2]
  BY DEF RealWaits
<1>2. /\ w[1] \in Nat /\ w[2] \in Nat /\ w[1] \in DOMAIN m /\ w[2] \in DOMAIN m
  BY <1>1, Indices
<1>3. m[w[1]].at \in Int /\ m[w[2]].at \in Int
  BY <1>2 DEF IsDay
<1> QED BY <1>1, <1>2, <1>3 DEF Lengths

(* A set one larger adds up to one value more.                             *)
LEMMA SumOfOneMore ==
  ASSUME NEW S, IsFiniteSet(S), NEW f, \A y \in S : f[y] \in Int,
         NEW x \in S, NEW T, T = S \ {x}, NEW g, \A y \in T : f[y] = g[y]
  PROVE  /\ SumFunctionOnSet(f, S) = SumFunctionOnSet(g, T) + f[x]
         /\ SumFunctionOnSet(g, T) \in Int
<1>1. IsFiniteSet(T) /\ T \in SUBSET S
  BY FS_Subset
<1>2. \A y \in T : g[y] \in Int
  OBVIOUS
<1>3. SumFunctionOnSet(f, S) = f[x] + SumFunctionOnSet(f, T)
  BY SumOfMore
<1>4. SumFunctionOnSet(f, T) = SumFunctionOnSet(g, T)
  BY <1>1, SumsEqual
<1>5. SumFunctionOnSet(g, T) \in Int
  BY <1>1, <1>2, SumTyped
<1>6. f[x] \in Int
  OBVIOUS
<1> QED BY <1>3, <1>4, <1>5, <1>6

(* A sequence one longer adds up to its last element more.                 *)
LEMMA SumOfAppend ==
  ASSUME NEW s \in Seq(Int), NEW x \in Int
  PROVE  SumFunction(Append(s, x)) = SumFunction(s) + x
<1>0. PICK longer, D, E, last :
        /\ longer = Append(s, x) /\ D = 1 .. Len(s) /\ E = 1 .. Len(s) + 1 /\ last = Len(s) + 1
  OBVIOUS
<1>1. /\ DOMAIN s = D /\ DOMAIN longer = E /\ longer[last] = x
      /\ \A i \in D : longer[i] = s[i] /\ s[i] \in Int
  BY <1>0
<1>2. IsFiniteSet(E)
  <2>1. Len(s) + 1 \in Nat
    OBVIOUS
  <2> QED BY <1>0, <2>1, FS_Interval
<1>3. D = E \ {last} /\ last \in E
  BY <1>0
<1>4. \A i \in E : longer[i] \in Int
  <2>1. \A i \in E : i = last \/ i \in D
    BY <1>0
  <2> QED BY <1>1, <2>1
<1>5. \A i \in D : longer[i] = s[i]
  BY <1>1
<1>6. SumFunctionOnSet(longer, E) = SumFunctionOnSet(s, D) + longer[last]
  BY <1>2, <1>3, <1>4, <1>5, SumOfOneMore
<1> QED BY <1>0, <1>1, <1>6 DEF SumFunction

(* The time since which the open wait lasts, and the lengths of those over.*)
Told(m, n, pending, waits) ==
  /\ OpenAt(m, n) = {} => pending = NoTime
  /\ \A i \in OpenAt(m, n) : pending = m[i].at
  /\ waits \in Seq(Int) /\ Len(waits) = Cardinality(WaitsBy(m, n))
  /\ SumFunction(waits) = SumFunctionOnSet(Lengths(m), WaitsBy(m, n))
  /\ WaitsBy(m, n) # {} =>
       \E w \in WaitsBy(m, n) : /\ \A o \in WaitsBy(m, n) : w[1] <= o[1]
                                /\ waits[1] = Lengths(m)[w]

IsTold(m, n, acc) ==
  \E pending, waits : acc = [pending |-> pending, waits |-> waits] /\ Told(m, n, pending, waits)

LEMMA AfterCases ==
  ASSUME NEW pending, NEW waits, NEW message, NEW acc, acc = [pending |-> pending, waits |-> waits]
  PROVE  /\ message.role = "customer" /\ pending = NoTime =>
              AfterMessage(acc, message) = [pending |-> message.at, waits |-> waits]
         /\ message.role = "staff_via_pancake" /\ pending # NoTime =>
              AfterMessage(acc, message)
                = [pending |-> NoTime, waits |-> Append(waits, message.at - pending)]
         /\ \/ message.role = "customer" /\ pending # NoTime
            \/ message.role = "staff_via_pancake" /\ pending = NoTime
            \/ message.role \notin {"customer", "staff_via_pancake"}
            => AfterMessage(acc, message) = acc
<1>1. acc.pending = pending /\ acc.waits = waits
  OBVIOUS
<1>2. [acc EXCEPT !.pending = message.at] = [pending |-> message.at, waits |-> waits]
  OBVIOUS
<1> QED BY <1>1, <1>2 DEF AfterMessage

LEMMA NothingTold == ASSUME NEW m, IsDay(m) PROVE Told(m, 0, NoTime, <<>>)
<1>1. OpenAt(m, 0) = {} /\ WaitsBy(m, 0) = {}
  <2>1. \A i \in Customers(m) \cup StaffMessages(m) : ~(i <= 0)
    BY DEF Customers, StaffMessages, IsDay
  <2> QED BY <2>1, WaitPairs DEF OpenAt, WaitsBy
<1>2. Cardinality({}) = 0 /\ IsFiniteSet({})
  BY FS_EmptySet
<1>3. \A f : SumFunctionOnSet(f, {}) = 0
  BY <1>2, SumUnfolds
<1>4. SumFunction(<<>>) = 0
  <2>1. DOMAIN <<>> = {}
    OBVIOUS
  <2> QED BY <1>3, <2>1 DEF SumFunction
<1>5. <<>> \in Seq(Int) /\ Len(<<>>) = 0
  OBVIOUS
<1> QED BY <1>1, <1>2, <1>3, <1>4, <1>5 DEF Told

(* An answer ends the open wait: it is one more of those over.             *)
LEMMA AnswerTold ==
  ASSUME NEW m, IsDay(m), NEW n \in Nat, n + 1 \in StaffMessages(m),
         NEW pending, NEW waits, Told(m, n, pending, waits), NEW i \in OpenAt(m, n)
  PROVE  Told(m, n + 1, NoTime, Append(waits, m[n + 1].at - pending))
<1>0. PICK w, x, longer :
        w = <<i, n + 1>> /\ x = m[n + 1].at - pending /\ longer = Append(waits, x)
  OBVIOUS
<1>1. OpenAt(m, n + 1) = {} /\ WaitsBy(m, n + 1) = WaitsBy(m, n) \cup {w}
  <2>1. \A j \in OpenAt(m, n) : j = i
    BY OneOpen
  <2>2. {<<j, n + 1>> : j \in OpenAt(m, n)} = {w}
    BY <1>0, <2>1
  <2> QED BY <2>2, StaffWrites
<1>2. w \in RealWaits(m) /\ w[1] = i /\ w[2] = n + 1 /\ w \notin WaitsBy(m, n)
  <2>1. w \in WaitsBy(m, n + 1) /\ w[1] = i /\ w[2] = n + 1
    BY <1>0, <1>1
  <2> QED BY <2>1 DEF WaitsBy
<1>3. /\ pending = m[i].at /\ waits \in Seq(Int) /\ Len(waits) = Cardinality(WaitsBy(m, n))
      /\ SumFunction(waits) = SumFunctionOnSet(Lengths(m), WaitsBy(m, n))
      /\ WaitsBy(m, n) # {} =>
           \E v \in WaitsBy(m, n) : /\ \A o \in WaitsBy(m, n) : v[1] <= o[1]
                                    /\ waits[1] = Lengths(m)[v]
  BY Zenon DEF Told
<1>4. x = Lengths(m)[w] /\ x \in Int
  BY <1>0, <1>2, <1>3, WaitPairs
<1>5. longer \in Seq(Int) /\ Len(longer) = Cardinality(WaitsBy(m, n + 1))
  <2>1. IsFiniteSet(WaitsBy(m, n))
    BY WaitsFinite
  <2>2. Cardinality(WaitsBy(m, n) \cup {w}) = Cardinality(WaitsBy(m, n)) + 1
    BY <1>2, <2>1, FS_AddElement
  <2>3. longer \in Seq(Int) /\ Len(longer) = Len(waits) + 1
    BY <1>0, <1>3, <1>4
  <2> QED BY <1>1, <1>3, <2>2, <2>3
<1>6. SumFunction(longer) = SumFunctionOnSet(Lengths(m), WaitsBy(m, n + 1))
  <2>0. PICK S, T : S = WaitsBy(m, n + 1) /\ T = WaitsBy(m, n)
    OBVIOUS
  <2>1. IsFiniteSet(S) /\ w \in S /\ T = S \ {w}
    BY <1>1, <1>2, <2>0, WaitsFinite
  <2>2. \A v \in S : Lengths(m)[v] \in Int
    BY <2>0, WaitPairs DEF WaitsBy
  <2>3. SumFunctionOnSet(Lengths(m), S) = SumFunctionOnSet(Lengths(m), T) + Lengths(m)[w]
    BY <2>1, <2>2, SumOfOneMore
  <2>4. SumFunction(longer) = SumFunction(waits) + x
    BY <1>0, <1>3, <1>4, SumOfAppend
  <2> QED BY <1>3, <1>4, <2>0, <2>3, <2>4
<1>7. \E v \in WaitsBy(m, n + 1) : /\ \A o \in WaitsBy(m, n + 1) : v[1] <= o[1]
                                  /\ longer[1] = Lengths(m)[v]
  <2>1. CASE WaitsBy(m, n) = {}
    <3>1. Len(waits) = 0
      BY <1>3, <2>1, FS_EmptySet
    <3>2. longer[1] = x
      BY <1>0, <1>3, <3>1
    <3>3. i \in Nat
      BY Indices DEF OpenAt
    <3> QED BY <1>1, <1>2, <1>4, <2>1, <3>2, <3>3
  <2>2. CASE WaitsBy(m, n) # {}
    <3>1. PICK v \in WaitsBy(m, n) : /\ \A o \in WaitsBy(m, n) : v[1] <= o[1]
                                    /\ waits[1] = Lengths(m)[v]
      BY <1>3, <2>2
    <3>2. v \in RealWaits(m) /\ v[2] <= n
      BY DEF WaitsBy
    <3>3. v[1] \in Nat /\ v[2] \in Nat /\ v[1] < v[2] /\ v[2] \in StaffMessages(m)
      BY <3>2, WaitPairs
    <3>4. i \in Nat /\ i \in Customers(m) /\ ~ \E s \in StaffMessages(m) : i < s /\ s <= n
      BY Indices DEF OpenAt
    <3>5. v[1] <= i
      BY <3>2, <3>3, <3>4
    <3>6. longer[1] = waits[1]
      <4>1. Cardinality(WaitsBy(m, n)) # 0
        BY <2>2, WaitsFinite, FS_EmptySet
      <4> QED BY <1>0, <1>3, <1>4, <4>1
    <3> QED BY <1>1, <1>2, <3>1, <3>5, <3>6
  <2> QED BY <2>1, <2>2
<1>8. Told(m, n + 1, NoTime, longer)
  BY <1>1, <1>5, <1>6, <1>7, Zenon DEF Told
<1> QED BY <1>0, <1>8

(* One message more is told.                                               *)
LEMMA MessageTold ==
  ASSUME NEW m, IsDay(m), NEW n \in Nat, n + 1 \in DOMAIN m, NEW acc, IsTold(m, n, acc)
  PROVE  IsTold(m, n + 1, AfterMessage(acc, m[n + 1]))
<1>0. PICK pending, waits :
        acc = [pending |-> pending, waits |-> waits] /\ Told(m, n, pending, waits)
  BY DEF IsTold
<1> PICK next : next = AfterMessage(acc, m[n + 1])
  OBVIOUS
<1>1. pending = NoTime <=> OpenAt(m, n) = {}
  <2>1. \A i \in OpenAt(m, n) : m[i].at # NoTime
    <3>1. \A i \in OpenAt(m, n) : i \in DOMAIN m
      BY Indices DEF OpenAt
    <3> QED BY <3>1, ThreadDayConstants DEF IsDay
  <2> QED BY <1>0, <2>1 DEF Told
<1>2. \A p, w : next = [pending |-> p, waits |-> w] /\ Told(m, n + 1, p, w) => IsTold(m, n + 1, next)
  BY DEF IsTold
<1>3. ASSUME OpenAt(m, n + 1) = OpenAt(m, n), WaitsBy(m, n + 1) = WaitsBy(m, n), next = acc
      PROVE  IsTold(m, n + 1, next)
  <2>1. Told(m, n + 1, pending, waits)
    BY <1>0, <1>3 DEF Told
  <2> QED BY <1>0, <1>2, <1>3, <2>1
<1>4. CASE n + 1 \in Customers(m) /\ pending = NoTime
  <2>1. next = [pending |-> m[n + 1].at, waits |-> waits]
    BY <1>0, <1>4, AfterCases DEF Customers
  <2>2. OpenAt(m, n + 1) = {n + 1} /\ WaitsBy(m, n + 1) = WaitsBy(m, n)
    BY <1>1, <1>4, CustomerWrites
  <2>3. Told(m, n + 1, m[n + 1].at, waits)
    BY <1>0, <2>2 DEF Told
  <2> QED BY <1>2, <2>1, <2>3
<1>5. CASE n + 1 \in Customers(m) /\ pending # NoTime
  <2>1. next = acc
    BY <1>0, <1>5, AfterCases DEF Customers
  <2> QED BY <1>1, <1>3, <1>5, <2>1, CustomerWrites
<1>6. CASE n + 1 \in StaffMessages(m) /\ pending # NoTime
  <2>1. next = [pending |-> NoTime, waits |-> Append(waits, m[n + 1].at - pending)]
    BY <1>0, <1>6, AfterCases DEF StaffMessages
  <2>2. PICK i : i \in OpenAt(m, n)
    BY <1>1, <1>6
  <2>3. Told(m, n + 1, NoTime, Append(waits, m[n + 1].at - pending))
    BY <1>0, <1>6, <2>2, AnswerTold
  <2> QED BY <1>2, <2>1, <2>3
<1>7. CASE n + 1 \in StaffMessages(m) /\ pending = NoTime
  <2>1. next = acc
    BY <1>0, <1>7, AfterCases DEF StaffMessages
  <2>2. OpenAt(m, n + 1) = OpenAt(m, n) /\ WaitsBy(m, n + 1) = WaitsBy(m, n)
    <3>1. \A i : i \notin OpenAt(m, n)
      BY <1>1, <1>7
    <3>2. OpenAt(m, n) = {} /\ OpenAt(m, n + 1) = {}
      BY <1>7, <3>1, StaffWrites
    <3>3. PICK more : more = {<<i, n + 1>> : i \in OpenAt(m, n)}
      OBVIOUS
    <3>4. WaitsBy(m, n + 1) = WaitsBy(m, n) \cup more
      BY <1>7, <3>3, StaffWrites
    <3>5. more = {}
      BY <3>2, <3>3
    <3> QED BY <3>2, <3>4, <3>5
  <2> QED BY <1>3, <2>1, <2>2
<1>8. CASE n + 1 \notin Customers(m) \cup StaffMessages(m)
  <2>1. m[n + 1].role \notin {"customer", "staff_via_pancake"}
    BY <1>8 DEF Customers, StaffMessages
  <2>2. next = acc
    BY <1>0, <2>1, AfterCases
  <2> QED BY <1>3, <1>8, <2>2, OthersWrite
<1> QED BY <1>4, <1>5, <1>6, <1>7, <1>8

(* The waits returned are those the customers really had.                  *)
LEMMA WaitsAreReal ==
  ASSUME NEW m, IsDay(m)
  PROVE  \E pending : Told(m, Len(m), pending, Waits(m))
<1>1. PICK after : IsPass(after, m, Len(m)) /\ Waits(m) = after[Len(m)].waits
  BY WaitsIsPass DEF IsDay
<1> DEFINE Lost == {n \in Nat : n <= Len(m) /\ ~IsTold(m, n, after[n])}
<1>2. Lost = {}
  <2> SUFFICES ASSUME Lost # {} PROVE FALSE
    OBVIOUS
  <2>1. PICK n \in Lost : \A j \in Lost : n <= j
    <3>1. Lost \in SUBSET Nat
      OBVIOUS
    <3> HIDE DEF Lost
    <3> QED BY <3>1, LeastExists
  <2>2. Len(m) \in Nat /\ DOMAIN m = 1 .. Len(m)
    BY DEF IsDay
  <2>3. after[n] = NextPass(after, m, n)
    BY <1>1, <2>1, <2>2 DEF IsPass
  <2>4. CASE n = 0
    <3>1. after[n] = [pending |-> NoTime, waits |-> <<>>]
      BY <2>3, <2>4 DEF NextPass, Start
    <3> QED BY <2>1, <2>4, <3>1, NothingTold DEF IsTold
  <2>5. CASE n # 0
    <3>0. PICK p \in Nat : n = p + 1
      BY <2>1, <2>5
    <3>1. p \notin Lost /\ p <= Len(m) /\ p + 1 \in DOMAIN m
      BY <2>1, <2>2, <3>0
    <3>2. IsTold(m, p, after[p])
      BY <3>1
    <3>3. after[n] = AfterMessage(after[p], m[p + 1])
      BY <2>3, <3>0 DEF NextPass
    <3>4. IsTold(m, p + 1, AfterMessage(after[p], m[p + 1]))
      BY <3>1, <3>2, MessageTold
    <3> QED BY <2>1, <3>0, <3>3, <3>4
  <2> QED BY <2>4, <2>5
<1>3. Len(m) \in Nat
  BY DEF IsDay
<1>4. IsTold(m, Len(m), after[Len(m)])
  BY <1>2, <1>3
<1> QED BY <1>1, <1>4 DEF IsTold

(* The first response and the average of a day are those of its waits.     *)
LEMMA ResponsesOfWaits ==
  ASSUME NEW m, IsDay(m)
  PROVE  /\ RealWaits(m) = {} => FirstResponse(Waits(m)) = NoTime /\ AverageResponse(Waits(m)) = NoTime
         /\ RealWaits(m) # {} =>
              /\ \E w \in RealWaits(m) : /\ \A o \in RealWaits(m) : w[1] <= o[1]
                                         /\ FirstResponse(Waits(m)) = Lengths(m)[w]
              /\ AverageResponse(Waits(m)) = SumFunction(Lengths(m)) \div Cardinality(RealWaits(m))
<1> PICK waits : waits = Waits(m)
  OBVIOUS
<1>1. WaitsBy(m, Len(m)) = RealWaits(m)
  <2>1. \A w \in RealWaits(m) : w[2] \in DOMAIN m
    BY WaitPairs, Indices
  <2> QED BY <2>1 DEF WaitsBy, IsDay
<1>2. /\ waits \in Seq(Int) /\ Len(waits) = Cardinality(RealWaits(m))
      /\ SumFunction(waits) = SumFunctionOnSet(Lengths(m), RealWaits(m))
      /\ RealWaits(m) # {} =>
           \E w \in RealWaits(m) : /\ \A o \in RealWaits(m) : w[1] <= o[1]
                                  /\ waits[1] = Lengths(m)[w]
  <2>1. PICK pending : Told(m, Len(m), pending, waits)
    BY WaitsAreReal
  <2> QED BY <1>1, <2>1 DEF Told
<1>3. SumFunctionOnSet(Lengths(m), RealWaits(m)) = SumFunction(Lengths(m))
  <2>1. DOMAIN Lengths(m) = RealWaits(m)
    BY DEF Lengths
  <2> QED BY <2>1 DEF SumFunction
<1>4. waits = <<>> <=> RealWaits(m) = {}
  <2>1. waits = <<>> <=> Len(waits) = 0
    BY <1>2
  <2> QED BY <1>2, <2>1, WaitsFinite, FS_EmptySet
<1>5. CASE RealWaits(m) = {}
  BY <1>4, <1>5 DEF FirstResponse, AverageResponse
<1>6. CASE RealWaits(m) # {}
  <2>1. FirstResponse(waits) = waits[1]
        /\ AverageResponse(waits) = SumFunction(waits) \div Len(waits)
    BY <1>4, <1>6 DEF FirstResponse, AverageResponse
  <2> QED BY <1>2, <1>3, <1>6, <2>1
<1> QED BY <1>5, <1>6

(***************************************************************************)
(* Business days.                                                          *)
(***************************************************************************)
(* What the integer division by the length of a day leaves.                *)
LEMMA Quotient ==
  ASSUME NEW x \in Int
  PROVE  /\ x \div DayLength \in Int
         /\ (x \div DayLength) * DayLength <= x
         /\ x < (x \div DayLength) * DayLength + DayLength
BY ClockConstants

(* A later multiple of the length of a day is at least a day later.        *)
LEMMA Multiples ==
  ASSUME NEW a \in Int, NEW b \in Int, a < b
  PROVE  a * DayLength + DayLength <= b * DayLength
BY ClockConstants

(* A business day is as long as any.                                       *)
LEMMA DayBounds ==
  ASSUME NEW d \in Int
  PROVE  /\ DayStart(d) \in Int
         /\ DayStart(d + 1) = DayStart(d) + DayLength
BY ClockConstants DEF DayStart

(* An instant lies in its business day.                                    *)
LEMMA DayOf ==
  ASSUME NEW t \in Int
  PROVE  /\ BusinessDay(t) \in Int
         /\ DayStart(BusinessDay(t)) <= t
         /\ t < DayStart(BusinessDay(t)) + DayLength
<1> PICK x \in Int : x = t + Offset
  BY ClockConstants
<1> PICK q : q = x \div DayLength
  OBVIOUS
<1>1. q \in Int /\ q * DayLength <= x /\ x < q * DayLength + DayLength
  BY Quotient
<1>2. q * DayLength \in Int
  BY <1>1, ClockConstants
<1> QED BY <1>1, <1>2, ClockConstants DEF DayStart, BusinessDay

(* ... and in no other.                                                    *)
LEMMA DayIs ==
  ASSUME NEW t \in Int, NEW d \in Int, DayStart(d) <= t, t < DayStart(d) + DayLength
  PROVE  BusinessDay(t) = d
<1> PICK e : e = BusinessDay(t)
  OBVIOUS
<1>1. /\ e \in Int /\ e * DayLength \in Int /\ d * DayLength \in Int
      /\ e * DayLength - Offset <= t /\ t < e * DayLength - Offset + DayLength
  BY DayOf, ClockConstants DEF DayStart
<1>2. d * DayLength - Offset <= t /\ t < d * DayLength - Offset + DayLength
  BY DEF DayStart
<1>3. ~(e < d)
  BY <1>1, <1>2, Multiples, ClockConstants
<1>4. ~(d < e)
  BY <1>1, <1>2, Multiples, ClockConstants
<1> QED BY <1>1, <1>3, <1>4

(* No business day lies before the first.                                  *)
LEMMA DayNatural ==
  ASSUME NEW t \in Nat
  PROVE  BusinessDay(t) \in Nat
<1> PICK e : e = BusinessDay(t)
  OBVIOUS
<1>1. /\ e \in Int /\ e * DayLength \in Int
      /\ t < e * DayLength - Offset + DayLength
  BY DayOf, ClockConstants DEF DayStart
<1>2. ~(e < 0)
  <2> SUFFICES ASSUME e < 0 PROVE FALSE
    OBVIOUS
  <2>1. e * DayLength + DayLength <= 0 * DayLength
    BY <1>1, Multiples
  <2> QED BY <2>1, <1>1, ClockConstants
<1> QED BY <1>1, <1>2

Labels == {"official_full_day", "not_publishable_old_partial", "provisional_current_day_partial"}
ChildRuns == [day : Nat, start : Int, end : Int, full : BOOLEAN, eligibility : Labels]

(* A run that lies within the day it is labelled with, and is official     *)
(* exactly when it spans it.                                               *)
Sound(run) ==
  /\ run \in ChildRuns
  /\ run.start < run.end
  /\ DayStart(run.day) <= run.start /\ run.end <= DayStart(run.day) + DayLength
  /\ run.full <=> run.end - run.start = DayLength
  /\ run.eligibility = "official_full_day" <=> run.full

(* A step of the walk plans a sound run from the cursor on, and never      *)
(* beyond the end.                                                         *)
LEMMA ChildIsSound ==
  ASSUME NEW cursor \in Nat, NEW end \in Nat, cursor < end, NEW at
  PROVE  LET run == ChildRun(cursor, end, at)
         IN Sound(run) /\ run.start = cursor /\ run.end \in Nat /\ run.end <= end
<1> PICK day : day = BusinessDay(cursor)
  OBVIOUS
<1> PICK open : open = DayStart(day)
  OBVIOUS
<1>1. /\ day \in Nat /\ open \in Int /\ open <= cursor /\ cursor < open + DayLength
      /\ DayLength \in Nat
  BY DayNatural, DayOf, DayBounds, ClockConstants
<1> DEFINE w == WindowAt(cursor, end)
<1>2. /\ w = [day |-> day, start |-> cursor, end |-> IF end < open + DayLength THEN end
                                                    ELSE open + DayLength]
  BY <1>1 DEF WindowAt
<1>3. /\ w.day = day /\ w.start = cursor /\ w.end \in Nat /\ cursor < w.end /\ w.end <= end
      /\ w.end <= open + DayLength
  BY <1>1, <1>2
<1> PICK full \in BOOLEAN : full = IsFullDay(w)
  <2>1. IsFullDay(w) \in BOOLEAN
    BY DEF IsFullDay
  <2> QED BY <2>1
<1>4. full <=> w.end - w.start = DayLength
  <2>1. full <=> cursor = open /\ w.end = open + DayLength
    BY <1>3 DEF IsFullDay
  <2> QED BY <2>1, <1>3, <1>1
<1> PICK label : label = Eligibility(day, full, at)
  OBVIOUS
<1>5. label \in Labels /\ (label = "official_full_day" <=> full)
  BY DEF Eligibility, Labels
<1>6. ChildRun(cursor, end, at) = [day |-> day, start |-> cursor, end |-> w.end, full |-> full,
                                   eligibility |-> label]
  BY <1>3, Zenon DEF ChildRun
<1> HIDE DEF w
<1>7. ChildRun(cursor, end, at) \in ChildRuns
  BY <1>1, <1>3, <1>5, <1>6 DEF ChildRuns
<1> QED BY <1>1, <1>3, <1>4, <1>5, <1>6, <1>7 DEF Sound

(* So does the request for a single day.                                   *)
LEMMA FullDayIsSound ==
  ASSUME NEW day \in Nat, NEW at
  PROVE  LET run == FullDayRun(day, at)
         IN Sound(run) /\ run.start = DayStart(day) /\ run.end = DayStart(day + 1)
<1> PICK run : run = FullDayRun(day, at)
  OBVIOUS
<1>1. /\ DayStart(day) \in Int /\ DayStart(day + 1) = DayStart(day) + DayLength
      /\ DayLength \in Nat \ {0}
  BY DayBounds, ClockConstants
<1>2. \A full \in BOOLEAN :
         [day |-> day, start |-> DayStart(day), end |-> DayStart(day) + DayLength,
          full |-> full, eligibility |-> "official_full_day"] \in ChildRuns
  <2>1. DayStart(day) + DayLength \in Int /\ "official_full_day" \in Labels
    BY <1>1 DEF Labels
  <2> QED BY <1>1, <2>1 DEF ChildRuns
<1>3. run = [day |-> day, start |-> DayStart(day), end |-> DayStart(day) + DayLength,
             full |-> TRUE, eligibility |-> "official_full_day"]
  BY DEF FullDayRun, Eligibility
<1>4. run \in ChildRuns
  BY <1>2, <1>3, Zenon
<1>5. run.full
  <2>1. \A full \in BOOLEAN :
           [day |-> day, start |-> DayStart(day), end |-> DayStart(day) + DayLength,
            full |-> full, eligibility |-> "official_full_day"].full = full
    OBVIOUS
  <2>2. run.full = TRUE
    BY <1>3, <2>1, Zenon
  <2> QED BY <2>2, Zenon
<1> QED BY <1>1, <1>3, <1>4, <1>5 DEF Sound

(* Sound runs, end to end.                                                 *)
Covers(runs, from, to) ==
  /\ runs \in Seq(ChildRuns) /\ runs # <<>>
  /\ runs[1].start = from /\ runs[Len(runs)].end = to
  /\ \A i \in DOMAIN runs : Sound(runs[i]) /\ (i < Len(runs) => runs[i].end = runs[i + 1].start)

(* One sound run covers its own window.                                    *)
LEMMA CoverOne ==
  ASSUME NEW run, Sound(run)
  PROVE  Covers(<<run>> \o <<>>, run.start, run.end)
<1>1. <<run>> \o <<>> = <<run>>
  OBVIOUS
<1>2. <<run>> \in Seq(ChildRuns)
  BY DEF Sound
<1> QED BY <1>1, <1>2 DEF Covers

(* A sound run in front of a plan covers its window as well.               *)
LEMMA CoverMore ==
  ASSUME NEW run, Sound(run), NEW to, NEW rest, Covers(rest, run.end, to)
  PROVE  Covers(<<run>> \o rest, run.start, to)
<1> PICK all : all = <<run>> \o rest
  OBVIOUS
<1>1. rest \in Seq(ChildRuns) /\ Len(rest) \in Nat /\ Len(rest) # 0 /\ run \in ChildRuns
  BY DEF Covers, Sound
<1>2. /\ all \in Seq(ChildRuns) /\ Len(all) = Len(rest) + 1 /\ all[1] = run
      /\ \A i \in 1 .. Len(rest) : all[i + 1] = rest[i]
  BY <1>1
<1>3. \A i \in DOMAIN all : i = 1 \/ \E j \in 1 .. Len(rest) : i = j + 1
  BY <1>1, <1>2
<1>4. all[Len(all)].end = to /\ all # <<>>
  BY <1>1, <1>2 DEF Covers
<1>5. ASSUME NEW i \in DOMAIN all
      PROVE  Sound(all[i]) /\ (i < Len(all) => all[i].end = all[i + 1].start)
  <2>1. CASE i = 1
    BY <2>1, <1>1, <1>2 DEF Covers
  <2>2. CASE \E j \in 1 .. Len(rest) : i = j + 1
    <3> PICK j \in 1 .. Len(rest) : i = j + 1
      BY <2>2
    <3>1. all[i] = rest[j] /\ j \in DOMAIN rest
      BY <1>1, <1>2
    <3>2. i < Len(all) => j < Len(rest) /\ j + 1 \in 1 .. Len(rest) /\ all[i + 1] = rest[j + 1]
      BY <1>1, <1>2
    <3> QED BY <3>1, <3>2 DEF Covers
  <2> QED BY <1>3, <2>1, <2>2
<1> QED BY <1>2, <1>4, <1>5 DEF Covers

(***************************************************************************)
(* The plan.                                                               *)
(***************************************************************************)
(* One step of the walk, and the walk as the function it defines.          *)
Walk(split, cursor, end, at) ==
  IF cursor = end THEN <<>>
  ELSE LET child == ChildRun(cursor, end, at)
       IN <<child>> \o (IF child.end < end THEN split[child.end] ELSE <<>>)

IsPlan(split, start, end, at) == split = [cursor \in start .. end |-> Walk(split, cursor, end, at)]

(* The walk is well founded: each step starts later than the one before.   *)
LEMMA PlanExists ==
  ASSUME NEW start \in Nat, NEW end \in Nat, start <= end, NEW at
  PROVE  \E split : IsPlan(split, start, end, at)
<1> DEFINE Without == {n \in Nat : n <= end /\ ~ \E split : IsPlan(split, end - n, end, at)}
<1>1. SUFFICES Without = {}
  <2>1. end - start \in Nat /\ end - start <= end /\ end - (end - start) = start
    OBVIOUS
  <2> QED BY <1>1, <2>1
<1> SUFFICES ASSUME Without # {} PROVE FALSE
  OBVIOUS
<1>2. PICK n \in Without : \A m \in Without : n <= m
  <2>1. Without \in SUBSET Nat
    OBVIOUS
  <2> HIDE DEF Without
  <2> QED BY <2>1, LeastExists
<1>3. n # 0
  <2> SUFFICES ASSUME n = 0 PROVE FALSE
    OBVIOUS
  <2> DEFINE none == [cursor \in end .. end |-> <<>>]
  <2>1. none = [cursor \in end .. end |-> Walk(none, cursor, end, at)]
    <3>1. \A cursor \in end .. end : Walk(none, cursor, end, at) = <<>>
      BY DEF Walk
    <3> QED BY <3>1
  <2>2. end - n = end
    OBVIOUS
  <2>3. IsPlan(none, end, end, at)
    BY <2>1 DEF IsPlan
  <2> QED BY <1>2, <2>2, <2>3
<1> PICK from \in Nat : from = end - n
  BY <1>2
<1>4. from < end /\ n - 1 \in Nat /\ n - 1 <= end /\ end - (n - 1) = from + 1 /\ n - 1 \notin Without
  BY <1>2, <1>3
<1>5. PICK rest : IsPlan(rest, from + 1, end, at)
  BY <1>4
<1> DEFINE whole == [cursor \in from .. end |-> IF cursor = from THEN Walk(rest, from, end, at)
                                               ELSE rest[cursor]]
<1>6. ASSUME NEW cursor \in from .. end
      PROVE  whole[cursor] = Walk(rest, cursor, end, at)
  <2>1. CASE cursor = from
    BY <2>1
  <2>2. CASE cursor # from
    <3>1. cursor \in from + 1 .. end
      BY <2>2
    <3> QED BY <2>2, <3>1, <1>5 DEF IsPlan
  <2> QED BY <2>1, <2>2
<1>7. ASSUME NEW cursor \in from .. end
      PROVE  Walk(whole, cursor, end, at) = Walk(rest, cursor, end, at)
  <2>1. CASE cursor = end
    BY <2>1 DEF Walk
  <2>2. CASE cursor # end
    <3> PICK child : child = ChildRun(cursor, end, at)
      OBVIOUS
    <3>1. cursor \in Nat /\ cursor < end
      BY <2>2
    <3>2. Sound(child) /\ child.start = cursor /\ child.end \in Nat
      BY <3>1, ChildIsSound
    <3>3. child.end < end => child.end \in from + 1 .. end
      BY <3>1, <3>2 DEF Sound
    <3>4. child.end < end => whole[child.end] = rest[child.end]
      BY <3>3
    <3> HIDE DEF whole
    <3> QED BY <2>2, <3>4, Zenon DEF Walk
  <2> QED BY <2>1, <2>2
<1>8. whole = [cursor \in from .. end |-> Walk(whole, cursor, end, at)]
  <2>1. whole = [cursor \in from .. end |-> whole[cursor]]
    OBVIOUS
  <2> HIDE DEF whole
  <2> QED BY <1>6, <1>7, <2>1
<1> QED BY <1>2, <1>8 DEF IsPlan

(* What splitRequestedWindowByTargetDate returns is that walk.             *)
LEMMA SplitIsPlan ==
  ASSUME NEW start \in Nat, NEW end \in Nat, start < end, NEW at
  PROVE  \E split : IsPlan(split, start, end, at)
                   /\ SplitByTargetDate(start, end, at) = split[start]
<1> DEFINE Chosen ==
      CHOOSE split : split =
        [cursor \in start .. end |->
           IF cursor = end THEN <<>>
           ELSE LET child == ChildRun(cursor, end, at)
                IN <<child>> \o (IF child.end < end THEN split[child.end] ELSE <<>>)]
<1>1. SplitByTargetDate(start, end, at) = IF start >= end THEN <<>> ELSE Chosen[start]
  BY Zenon DEF SplitByTargetDate
<1>2. Chosen = CHOOSE split : IsPlan(split, start, end, at)
  BY Zenon DEF IsPlan, Walk
<1> HIDE DEF Chosen
<1>3. IsPlan(Chosen, start, end, at)
  <2>1. start <= end
    OBVIOUS
  <2> QED BY <1>2, <2>1, PlanExists, Zenon
<1>4. ~(start >= end)
  OBVIOUS
<1> QED BY <1>1, <1>3, <1>4

(* The walk covers the request, from whichever day it is looked at.        *)
LEMMA PlanCovers ==
  ASSUME NEW start \in Nat, NEW end \in Nat, start < end, NEW at,
         NEW split, IsPlan(split, start, end, at)
  PROVE  Covers(split[start], start, end)
<1> DEFINE Without == {n \in Nat : /\ n # 0 /\ n <= end - start
                                   /\ ~Covers(split[end - n], end - n, end)}
<1>1. SUFFICES Without = {}
  <2> PICK n : n = end - start
    OBVIOUS
  <2>1. n \in Nat /\ n # 0 /\ n <= end - start /\ end - n = start
    OBVIOUS
  <2>2. Covers(split[end - n], end - n, end)
    BY <1>1, <2>1
  <2> QED BY <2>1, <2>2
<1> SUFFICES ASSUME Without # {} PROVE FALSE
  OBVIOUS
<1>2. PICK n \in Without : \A m \in Without : n <= m
  <2>1. Without \in SUBSET Nat
    OBVIOUS
  <2> HIDE DEF Without
  <2> QED BY <2>1, LeastExists
<1> PICK from \in Nat : from = end - n
  BY <1>2
<1>3. from < end /\ start <= from /\ from \in start .. end
  BY <1>2
<1> PICK child : child = ChildRun(from, end, at)
  OBVIOUS
<1>4. Sound(child) /\ child.start = from /\ child.end \in Nat /\ child.end <= end
      /\ from < child.end
  BY <1>3, ChildIsSound DEF Sound
<1>5. split[from] = <<child>> \o (IF child.end < end THEN split[child.end] ELSE <<>>)
  <2>1. split[from] = Walk(split, from, end, at)
    BY <1>3 DEF IsPlan
  <2>2. from # end
    BY <1>3
  <2> QED BY <2>1, <2>2, Zenon DEF Walk
<1>6. Covers(split[from], from, end)
  <2>1. CASE child.end < end
    <3>1. /\ end - child.end \in Nat /\ end - child.end # 0 /\ end - child.end <= end - start
          /\ end - child.end < n /\ end - (end - child.end) = child.end
      BY <1>2, <1>3, <1>4, <2>1
    <3>2. end - child.end \notin Without
      <4>1. ~(n <= end - child.end)
        BY <1>2, <3>1
      <4> HIDE DEF Without
      <4> QED BY <1>2, <4>1
    <3>3. Covers(split[child.end], child.end, end)
      BY <3>1, <3>2
    <3>4. split[from] = <<child>> \o split[child.end]
      BY <1>5, <2>1
    <3> QED BY <3>3, <3>4, <1>4, CoverMore
  <2>2. CASE ~(child.end < end)
    <3>1. child.end = end
      BY <1>4, <2>2
    <3>2. split[from] = <<child>> \o <<>>
      BY <1>5, <2>2
    <3> QED BY <3>1, <3>2, <1>4, CoverOne
  <2> QED BY <2>1, <2>2
<1>7. ~Covers(split[end - n], end - n, end)
  BY <1>2
<1> QED BY <1>6, <1>7

LEMMA SplitCovers ==
  ASSUME NEW start \in Nat, NEW end \in Nat, start < end, NEW at
  PROVE  Covers(SplitByTargetDate(start, end, at), start, end)
<1> PICK split : IsPlan(split, start, end, at) /\ SplitByTargetDate(start, end, at) = split[start]
  BY SplitIsPlan
<1> QED BY PlanCovers

(* An empty or reversed request has no plan.                               *)
LEMMA NoPlanBackwards ==
  ASSUME NEW start \in Nat, NEW end \in Nat, ~(start < end), NEW at
  PROVE  SplitByTargetDate(start, end, at) = <<>>
<1> DEFINE Chosen ==
      CHOOSE split : split =
        [cursor \in start .. end |->
           IF cursor = end THEN <<>>
           ELSE LET child == ChildRun(cursor, end, at)
                IN <<child>> \o (IF child.end < end THEN split[child.end] ELSE <<>>)]
<1>1. SplitByTargetDate(start, end, at) = IF start >= end THEN <<>> ELSE Chosen[start]
  BY Zenon DEF SplitByTargetDate
<1> HIDE DEF Chosen
<1>2. start >= end
  OBVIOUS
<1> QED BY <1>1, <1>2

(* Whatever is asked for, a plan covers it.                                *)
LEMMA PlansCover ==
  ASSUME NEW request \in Requests, PlanOf(request) # <<>>
  PROVE  Covers(PlanOf(request),
                IF "day" \in DOMAIN request THEN DayStart(request.day) ELSE request.start,
                IF "day" \in DOMAIN request THEN DayStart(request.day + 1) ELSE request.end)
<1> PICK runs : runs = PlanOf(request)
  OBVIOUS
<1>1. CASE request \in [day : Nat]
  <2>1. "day" \in DOMAIN request /\ request.day \in Nat
    BY <1>1
  <2> PICK run : run = FullDayRun(request.day, now)
    OBVIOUS
  <2>2. Sound(run) /\ run.start = DayStart(request.day) /\ run.end = DayStart(request.day + 1)
    BY <2>1, FullDayIsSound
  <2>3. runs = <<run>> \o <<>>
    BY <2>1 DEF PlanOf
  <2> QED BY <2>1, <2>2, <2>3, CoverOne
<1>2. CASE request \in [start : Nat, end : Nat]
  <2>1. "day" \notin DOMAIN request /\ request.start \in Nat /\ request.end \in Nat
    BY <1>2
  <2>2. runs = SplitByTargetDate(request.start, request.end, now)
    BY <2>1 DEF PlanOf
  <2>3. request.start < request.end
    BY <2>1, <2>2, NoPlanBackwards
  <2> QED BY <2>1, <2>2, <2>3, SplitCovers
<1> QED BY <1>1, <1>2, DayConstants

(* A cover by sound runs is what WindowsTile asks for: no gap, no overlap, *)
(* no window the worker refuses.                                           *)
LEMMA CoverTiles ==
  ASSUME NEW runs, NEW from, NEW to, Covers(runs, from, to)
  PROVE  /\ runs[1].start = from /\ runs[Len(runs)].end = to
         /\ \A i \in DOMAIN runs :
              /\ runs[i].start < runs[i].end
              /\ i < Len(runs) => runs[i].end = runs[i + 1].start
              /\ \A t \in runs[i].start..(runs[i].end - 1) : BusinessDay(t) = runs[i].day
              /\ Validated(runs[i].day, [start |-> runs[i].start, end |-> runs[i].end])
              /\ (runs[i].eligibility = "official_full_day")
                   <=> (runs[i].end - runs[i].start = DayLength)
<1>1. ASSUME NEW run, Sound(run)
      PROVE  /\ run.start < run.end
             /\ \A t \in run.start..(run.end - 1) : BusinessDay(t) = run.day
             /\ Validated(run.day, [start |-> run.start, end |-> run.end])
             /\ (run.eligibility = "official_full_day") <=> (run.end - run.start = DayLength)
  <2>1. /\ run.day \in Int /\ run.start \in Int /\ run.end \in Int
        /\ run.start < run.end
        /\ DayStart(run.day) \in Int /\ DayStart(run.day + 1) = DayStart(run.day) + DayLength
        /\ DayStart(run.day) <= run.start /\ run.end <= DayStart(run.day) + DayLength
    <3>1. run \in ChildRuns
      BY <1>1 DEF Sound
    <3>2. run.day \in Int /\ run.start \in Int /\ run.end \in Int
      BY <3>1 DEF ChildRuns
    <3> QED BY <3>2, <1>1, DayBounds DEF Sound
  <2>2. ASSUME NEW t \in run.start..(run.end - 1)
        PROVE  BusinessDay(t) = run.day
    <3>1. t \in Int /\ DayStart(run.day) <= t /\ t < DayStart(run.day) + DayLength
      BY <2>1, ClockConstants
    <3> QED BY <2>1, <3>1, DayIs
  <2>3. Validated(run.day, [start |-> run.start, end |-> run.end])
    BY <2>1 DEF Validated
  <2> QED BY <1>1, <2>1, <2>2, <2>3 DEF Sound
<1> QED BY <1>1 DEF Covers

(* The child runs of any request cover it without a gap or an overlap,     *)
(* each within its business day, and exactly those that span it are        *)
(* official (the planner and the check of the manifest).                   *)
THEOREM PlanTiles == Spec => []WindowsTile
<1>1. Init => WindowsTile
  BY DEF Init, WindowsTile
<1>2. WindowsTile /\ [Next]_vars => WindowsTile'
  <2> SUFFICES ASSUME WindowsTile, [Next]_vars PROVE WindowsTile'
    OBVIOUS
  <2>1. CASE UNCHANGED <<asked, plan>>
    BY <2>1 DEF WindowsTile
  <2>2. ASSUME NEW request \in Requests, PlanJob(request)
        PROVE  WindowsTile'
    <3>1. asked' = request /\ plan' = PlanOf(request)
      BY <2>2 DEF PlanJob
    <3>2. SUFFICES ASSUME PlanOf(request) # <<>> PROVE WindowsTile'
      BY <3>1 DEF WindowsTile
    <3> PICK from : from = IF "day" \in DOMAIN request THEN DayStart(request.day)
                           ELSE request.start
      OBVIOUS
    <3> PICK to : to = IF "day" \in DOMAIN request THEN DayStart(request.day + 1)
                       ELSE request.end
      OBVIOUS
    <3> PICK runs : runs = PlanOf(request)
      OBVIOUS
    <3>3. Covers(runs, from, to)
      BY <3>2, PlansCover
    <3>4. plan' = runs
      BY <3>1
    <3> QED BY <3>1, <3>3, <3>4, CoverTiles DEF WindowsTile, Validated, BusinessDay, DayStart
  <2>3. CASE ~ \E request \in Requests : PlanJob(request)
    <3>1. UNCHANGED <<asked, plan>>
      BY <2>3 DEF Next, vars, pipelineVars, LoadDays, Analyse, Materialize, Publish, Tick
    <3> QED BY <2>1, <3>1
  <2> QED BY <2>2, <2>3
<1> QED BY <1>1, <1>2, PTL DEF Spec

(***************************************************************************)
(* The invariant of the run, its facts and the requests of the dashboard.  *)
(***************************************************************************)
JobRecords == [id : {1}, stage : Stages, day : Nat, full : BOOLEAN,
               eligibility : Labels \cup {"none"}, window : [start : Int, end : Int], caps : Caps]

(* A full day is what makes a run official.                                *)
JobTyped ==
  /\ job \in JobRecords
  /\ job.stage # "none" => (job.eligibility = "official_full_day" <=> job.full)

(* What the results of the run may say.                                    *)
NeedsAreReal == \A t \in DOMAIN results : results[t].status # "failed" => results[t].need # "revisit"

Written == {"materialized", "published"}

(* One fact a conversation and run, of the day of the run and only once it *)
(* was written.                                                            *)
MartInv ==
  /\ \A f, g \in mart : f.run = g.run /\ f.thread = g.thread => f = g
  /\ \A f \in mart : f.run = job.id => job.stage \in Written /\ f.day = job.day
  /\ RevisitIsNoNeed

(* A snapshot is true when its run is of its day, and of the whole of it   *)
(* when it is official.                                                    *)
IsTrue(s) ==
  /\ s.run = job.id => job.stage = "published" /\ job.day = s.day
                       /\ (s.channel = "official" => job.full)
  /\ \A f \in mart : f.run = s.run => f.day = s.day

(* One true snapshot a day and channel.                                    *)
BoardInv ==
  /\ board \subseteq Snapshots /\ \A s \in board : IsTrue(s)
  /\ \A s, o \in board : s.day = o.day /\ s.channel = o.channel => s = o

(* What a reader may hold.                                                 *)
Views == [stage : {"listing", "resolving", "reading", "answered"}, ask : Asks, leg : Legs,
          today : [Legs -> Int], listed : SUBSET Snapshots, toRead : SUBSET {"threads", "staff"},
          slice : [Legs -> SUBSET Snapshots], threads : [Legs -> SUBSET mart],
          staff : [Legs -> SUBSET staffMart]]

Unread(leg) == view.slice[leg] = {} /\ view.threads[leg] = {}

InRange(s, leg) == IF leg = "current" THEN view.ask.from <= s.day ELSE s.day < view.ask.from

(* What a leg has read: true snapshots of its range, one a day, a          *)
(* provisional one only where it may be seen, and facts of their runs.     *)
LegRead(leg) ==
  /\ \A s \in view.slice[leg] : IsTrue(s) /\ InRange(s, leg)
  /\ \A s, o \in view.slice[leg] : s.day = o.day => s = o
  /\ \A s \in view.slice[leg] : s.channel = "provisional" =>
       /\ view.ask.snapshot = "provisional" /\ s.day = view.today[leg]
       /\ view.ask.kind # "export"
  /\ \A f \in view.threads[leg] : \E s \in view.slice[leg] : s.run = f.run

(* Snapshots are listed to be chosen from: true ones of the leg's range,   *)
(* one a day and channel.                                                  *)
Listing ==
  /\ view.stage \in {"listing", "resolving"} => Unread(view.leg)
  /\ view.stage # "resolving" => view.listed = {}
  /\ \A s \in view.listed : IsTrue(s) /\ InRange(s, view.leg)
  /\ \A s, o \in view.listed : s.day = o.day /\ s.channel = o.channel => s = o

(* The legs are read one after the other.                                  *)
ViewInv ==
  \/ view = NoView
  \/ /\ view \in Views /\ job.stage \in Written
     /\ view.leg = "current" => Unread("previous")
     /\ Listing
     /\ \A leg \in Legs : LegRead(leg)

PipelineInv == JobTyped /\ NeedsAreReal /\ MartInv /\ BoardInv /\ ViewInv

(* The run as it is asked for, and what former runs left.                  *)
LEMMA InitPipelineInv == Init => PipelineInv
<1> SUFFICES ASSUME Init PROVE PipelineInv
  OBVIOUS
<1> PICK world \in Worlds :
      /\ job = [id |-> 1, stage |-> "none", day |-> 0, full |-> FALSE, eligibility |-> "none",
                window |-> [start |-> 0, end |-> 0], caps |-> world.caps]
      /\ results = Nothing
      /\ board = world.earlier.board /\ mart = world.earlier.mart /\ staffMart = world.earlier.staffMart
      /\ view = NoView
  BY Zenon DEF Init
<1>1. world.caps \in Caps /\ Former(world.earlier)
  BY DayConstants
<1>2. JobTyped
  <2>1. \A no \in BOOLEAN :
          [id |-> 1, stage |-> "none", day |-> 0, full |-> no, eligibility |-> "none",
           window |-> [start |-> 0, end |-> 0], caps |-> world.caps]
            \in [id : {1}, stage : Stages, day : Nat, full : BOOLEAN,
                 eligibility : Labels \cup {"none"}, window : [start : Int, end : Int], caps : Caps]
    BY <1>1 DEF Stages
  <2>2. job.stage = "none"
    OBVIOUS
  <2> QED BY <2>1, <2>2, Zenon DEF JobTyped, JobRecords
<1>3. NeedsAreReal
  BY DEF NeedsAreReal, Nothing
<1>4. job.id = 1
  OBVIOUS
<1>5. MartInv
  BY <1>1, <1>4 DEF MartInv, RevisitIsNoNeed, Former
<1>6. BoardInv
  BY <1>1, <1>4 DEF BoardInv, IsTrue, Former
<1> QED BY <1>2, <1>3, <1>5, <1>6 DEF PipelineInv, ViewInv

(* What extraction does to the run.                                        *)
LEMMA ScanSteps ==
  ASSUME ScanStep
  PROVE  /\ job.stage \in {"queued", "listing", "paging"}
         /\ \/ job' = job
            \/ \E stage \in {"listing", "paging", "extracted", "failed"} :
                 job' = [job EXCEPT !.stage = stage]
<1>1. CASE OpenPage
  BY <1>1 DEF OpenPage
<1>2. CASE PancakeFails
  BY <1>2 DEF PancakeFails
<1>3. CASE ListConversations
  BY <1>3 DEF ListConversations
<1>4. CASE FetchMessages
  <2>1. job.stage = "paging" /\ (job' = [job EXCEPT !.stage = StageAfterThread] \/ job' = job)
    BY <1>4, Zenon DEF FetchMessages
  <2>2. StageAfterThread \in {"listing", "paging", "extracted"}
    BY DEF StageAfterThread
  <2> QED BY <2>1, <2>2
<1>5. ASSUME NEW t \in Threads, NEW kind \in Arriving, Arrive(t, kind)
      PROVE  job.stage \in {"listing", "paging"} /\ job' = job
  BY <1>5 DEF Arrive
<1> QED BY <1>1, <1>2, <1>3, <1>4, <1>5 DEF ScanStep, Extract

(* A run changes its stage and nothing else.                               *)
LEMMA StageStep ==
  ASSUME JobTyped, NEW stage \in Stages \ {"none"}, job.stage # "none",
         job' = [job EXCEPT !.stage = stage]
  PROVE  /\ JobTyped' /\ job'.id = job.id /\ job'.stage = stage
         /\ job'.day = job.day /\ job'.full = job.full
<1>1. job \in JobRecords /\ job.stage # "none"
  BY DEF JobTyped, JobRecords
<1>2. job' \in JobRecords
  BY <1>1 DEF JobRecords
<1>3. /\ job'.id = job.id /\ job'.stage = stage /\ job'.day = job.day /\ job'.full = job.full
      /\ job'.eligibility = job.eligibility
  BY <1>1 DEF JobRecords
<1> QED BY <1>1, <1>2, <1>3 DEF JobTyped, JobRecords

(* Until the mart is written, no fact, no snapshot and no reader knows of  *)
(* the run.                                                                *)
LEMMA BeforeTheMart ==
  ASSUME PipelineInv, JobTyped', NeedsAreReal', UNCHANGED dashboardVars, job'.id = job.id,
         job.stage \notin Written, job'.stage \notin Written
  PROVE  PipelineInv'
<1>1. UNCHANGED <<board, mart, staffMart, view>>
  BY DEF dashboardVars
<1>2. \A f \in mart : f.run # job.id
  BY DEF PipelineInv, MartInv
<1>3. \A s \in board : s.run # job.id
  BY DEF PipelineInv, BoardInv, IsTrue, Written
<1>4. MartInv'
  BY <1>1, <1>2 DEF PipelineInv, MartInv, RevisitIsNoNeed
<1>5. BoardInv'
  BY <1>1, <1>3 DEF PipelineInv, BoardInv, IsTrue
<1>6. view = NoView
  BY DEF PipelineInv, ViewInv
<1> QED BY <1>1, <1>4, <1>5, <1>6 DEF PipelineInv, ViewInv

(* PlanJob: the run takes its window, its day and its label from the plan. *)
LEMMA PlannedStep ==
  ASSUME PipelineInv, NEW request \in Requests, PlanJob(request)
  PROVE  PipelineInv'
<1>1. PICK i \in DOMAIN plan' :
        job' = [job EXCEPT !.stage = "queued", !.day = plan'[i].day,
                           !.full = plan'[i].full, !.eligibility = plan'[i].eligibility,
                           !.window = [start |-> plan'[i].start, end |-> plan'[i].end]]
  BY DEF PlanJob
<1>2. plan' = PlanOf(request) /\ job.stage = "none" /\ UNCHANGED <<results, dashboardVars>>
  BY DEF PlanJob
<1> PICK run : run = plan'[i]
  OBVIOUS
<1>3. run \in ChildRuns /\ (run.eligibility = "official_full_day" <=> run.full)
  <2>1. plan' # <<>>
    BY <1>1
  <2> PICK from, to : Covers(plan', from, to)
    BY <1>2, <2>1, PlansCover
  <2>2. Sound(run)
    BY <1>1 DEF Covers
  <2> QED BY <2>2 DEF Sound
<1>4. /\ run.day \in Nat /\ run.full \in BOOLEAN /\ run.eligibility \in Labels
      /\ run.start \in Int /\ run.end \in Int
  BY <1>3 DEF ChildRuns
<1>5. job \in JobRecords
  BY DEF PipelineInv, JobTyped, JobRecords
<1>6. job' = [job EXCEPT !.stage = "queued", !.day = run.day, !.full = run.full,
                         !.eligibility = run.eligibility,
                         !.window = [start |-> run.start, end |-> run.end]]
  BY <1>1
<1>7. job' \in JobRecords
  BY <1>4, <1>5, <1>6 DEF JobRecords, Stages
<1>8. /\ job'.id = job.id /\ job'.stage = "queued" /\ job'.full = run.full
      /\ job'.eligibility = run.eligibility
  BY <1>5, <1>6 DEF JobRecords
<1>9. JobTyped'
  BY <1>3, <1>7, <1>8 DEF JobTyped, JobRecords
<1>10. NeedsAreReal'
  BY <1>2 DEF PipelineInv, NeedsAreReal
<1> QED BY <1>2, <1>8, <1>9, <1>10, BeforeTheMart DEF Written

(* Extraction, and messages that arrive meanwhile.                         *)
LEMMA ScannedStep ==
  ASSUME PipelineInv, ScanStep, UNCHANGED <<dashboardVars, pipelineVars>>
  PROVE  PipelineInv'
<1>1. NeedsAreReal'
  BY DEF pipelineVars, PipelineInv, NeedsAreReal
<1>2. job.stage \in {"queued", "listing", "paging"}
  BY ScanSteps
<1>3. CASE job' = job
  <2>1. JobTyped'
    BY <1>3 DEF PipelineInv, JobTyped
  <2> QED BY <1>1, <1>2, <1>3, <2>1, BeforeTheMart DEF Written
<1>4. ASSUME NEW stage \in {"listing", "paging", "extracted", "failed"},
             job' = [job EXCEPT !.stage = stage]
      PROVE  PipelineInv'
  <2>1. JobTyped' /\ job'.id = job.id /\ job'.stage = stage
    BY <1>2, <1>4, StageStep DEF PipelineInv, Stages
  <2> QED BY <1>1, <1>2, <2>1, BeforeTheMart DEF Written
<1> QED BY <1>3, <1>4, ScanSteps

(* LoadDays.                                                               *)
LEMMA LoadedStep ==
  ASSUME PipelineInv, LoadDays
  PROVE  PipelineInv'
<1>1. PICK stage \in {"loaded", "failed"} :
        /\ job.stage = "extracted" /\ job' = [job EXCEPT !.stage = stage]
        /\ UNCHANGED <<results, dashboardVars>>
  BY DEF LoadDays
<1>2. NeedsAreReal'
  BY <1>1 DEF PipelineInv, NeedsAreReal
<1>3. JobTyped' /\ job'.id = job.id /\ job'.stage = stage
  BY <1>1, StageStep DEF PipelineInv, Stages
<1> QED BY <1>1, <1>2, <1>3, BeforeTheMart DEF Written

(* An accepted answer never calls a revisit a need.                        *)
LEMMA NeedOfResult ==
  ASSUME NEW mode, NEW day, NEW answer \in Answers(mode, day),
         NormalizedResult(day, answer).status # "failed"
  PROVE  NormalizedResult(day, answer).need # "revisit"
<1>1. ~Rejected(answer)
  BY DEF NormalizedResult, FailedResult
<1>2. answer.need # "revisit"
  BY <1>1 DEF Rejected
<1>3. NormalizedResult(day, answer).need = Code(answer.need)
  BY <1>1 DEF NormalizedResult
<1> QED BY <1>2, <1>3 DEF Code

(* Analyse: every conversation day has a result.                           *)
LEMMA AnalysedStep ==
  ASSUME PipelineInv, Analyse
  PROVE  PipelineInv'
<1> PICK stage : stage = IF \E t \in DOMAIN results' : results'[t].status = "failed"
                         THEN "failed" ELSE "analysed"
  OBVIOUS
<1>1. /\ job.stage = "loaded" /\ job' = [job EXCEPT !.stage = stage]
      /\ results' \in Results(setup.mode, days) /\ UNCHANGED dashboardVars
  BY DEF Analyse
<1>2. stage \in {"failed", "analysed"}
  OBVIOUS
<1>3. NeedsAreReal'
  <2> SUFFICES ASSUME NEW t \in DOMAIN results', results'[t].status # "failed"
               PROVE  results'[t].need # "revisit"
    BY DEF NeedsAreReal
  <2>1. \A u \in DOMAIN days : \E a \in Answers(setup.mode, days[u]) :
           results'[u] = NormalizedResult(days[u], a)
    BY <1>1 DEF Results
  <2>2. t \in DOMAIN days
    BY <1>1 DEF Results
  <2> PICK a \in Answers(setup.mode, days[t]) : results'[t] = NormalizedResult(days[t], a)
    BY <2>1, <2>2
  <2> QED BY NeedOfResult
<1>4. JobTyped' /\ job'.id = job.id /\ job'.stage = stage
  BY <1>1, <1>2, StageStep DEF PipelineInv, Stages
<1> QED BY <1>1, <1>2, <1>3, <1>4, BeforeTheMart DEF Written

(* A fact is made of the day and the result of its conversation.           *)
LEMMA FactOf ==
  ASSUME NEW f \in ThreadFacts(job, days, results)
  PROVE  /\ f.thread \in Usable(results) /\ f.run = job.id /\ f.day = job.day
         /\ f = BuildFactThreadDay(job, f.thread, days[f.thread], results[f.thread])
         /\ f.need = results[f.thread].need
<1> PICK t \in Usable(results) : f = BuildFactThreadDay(job, t, days[t], results[t])
  BY DEF ThreadFacts
<1>1. f.thread = t /\ f.run = job.id /\ f.day = job.day /\ f.need = results[t].need
  BY DEF BuildFactThreadDay
<1> QED BY <1>1

(* Materialize: the facts of the run are replaced, those of others stay.   *)
LEMMA MaterializedStep ==
  ASSUME PipelineInv, Materialize
  PROVE  PipelineInv'
<1> PICK facts : facts = ThreadFacts(job, days, results)
  OBVIOUS
<1>1. /\ job.stage = "analysed" /\ job' = [job EXCEPT !.stage = "materialized"]
      /\ mart' = {f \in mart : f.run # job.id} \cup facts
      /\ UNCHANGED <<board, view, results>>
  BY Zenon DEF Materialize, pipelineVars
<1>2. /\ JobTyped' /\ job'.id = job.id /\ job'.stage = "materialized"
      /\ job'.day = job.day /\ job'.full = job.full
  BY <1>1, StageStep DEF PipelineInv, Stages
<1>3. \A f \in facts : /\ f.thread \in Usable(results) /\ f.run = job.id /\ f.day = job.day
                       /\ f = BuildFactThreadDay(job, f.thread, days[f.thread], results[f.thread])
                       /\ f.need = results[f.thread].need
  BY FactOf
<1>4. \A f \in facts : f.need # "revisit"
  BY <1>3 DEF PipelineInv, NeedsAreReal, Usable
<1>5. \A f, g \in facts : f.thread = g.thread => f = g
  BY <1>3, Zenon
<1>6. \A f \in mart' : f \in facts \/ (f \in mart /\ f.run # job.id)
  BY <1>1
<1>7. MartInv'
  <2>1. \A f, g \in mart' : f.run = g.run /\ f.thread = g.thread => f = g
    BY <1>3, <1>5, <1>6 DEF PipelineInv, MartInv
  <2>2. \A f \in mart' : f.run = job'.id => job'.stage \in Written /\ f.day = job'.day
    BY <1>2, <1>3, <1>6 DEF Written
  <2>3. RevisitIsNoNeed'
    BY <1>4, <1>6 DEF PipelineInv, MartInv, RevisitIsNoNeed
  <2> QED BY <2>1, <2>2, <2>3 DEF MartInv
<1>8. BoardInv'
  <2>1. ASSUME NEW s \in board PROVE IsTrue(s)'
    <3>1. s.run # job.id
      BY <1>1 DEF PipelineInv, BoardInv, IsTrue
    <3> QED BY <1>2, <1>3, <1>6, <3>1 DEF PipelineInv, BoardInv, IsTrue
  <2> QED BY <1>1, <2>1 DEF PipelineInv, BoardInv
<1>9. view' = NoView
  BY <1>1 DEF PipelineInv, ViewInv, Written
<1> QED BY <1>1, <1>2, <1>7, <1>8, <1>9 DEF PipelineInv, NeedsAreReal, ViewInv

(* A true snapshot stays true while the run is published.                  *)
LEMMA TrueStays ==
  ASSUME NEW s, IsTrue(s), job'.id = job.id, job'.day = job.day, job'.full = job.full,
         job'.stage = "published" \/ job' = job, mart' = mart
  PROVE  IsTrue(s)'
BY DEF IsTrue

(* Publish: the new snapshot takes the place of those of its day.          *)
LEMMA PublishedStep ==
  ASSUME PipelineInv, Publish
  PROVE  PipelineInv'
<1>1. /\ job.stage = "materialized" /\ job' = [job EXCEPT !.stage = "published"]
      /\ UNCHANGED <<mart, staffMart, view, results>>
  BY DEF Publish, pipelineVars
<1>2. /\ JobTyped' /\ job'.id = job.id /\ job'.stage = "published"
      /\ job'.day = job.day /\ job'.full = job.full
  BY <1>1, StageStep DEF PipelineInv, Stages
<1>3. PICK channel \in {"official", "provisional"} :
        PublishAs(channel) /\ (channel = "official" => job.eligibility = "official_full_day")
  BY DEF Publish
<1> PICK new : new = [day |-> job.day, channel |-> channel, run |-> job.id]
  OBVIOUS
<1>4. board' = (board \ Replaced(channel)) \cup {new}
  BY <1>3 DEF PublishAs
<1>5. /\ new \in Snapshots /\ new.day = job.day /\ new.channel = channel /\ new.run = job.id
      /\ channel = "official" => job.full
  BY <1>1, <1>3 DEF PipelineInv, JobTyped, JobRecords, Snapshots
<1>6. \A s : IsTrue(s) => IsTrue(s)'
  BY <1>1, <1>2, TrueStays
<1>7. BoardInv'
  <2>1. IsTrue(new)'
    BY <1>1, <1>2, <1>5 DEF PipelineInv, MartInv, IsTrue
  <2>2. \A s \in board' : IsTrue(s)'
    BY <1>4, <1>6, <2>1 DEF PipelineInv, BoardInv
  <2>3. board' \subseteq Snapshots
    BY <1>4, <1>5 DEF PipelineInv, BoardInv
  <2>4. \A s \in board \ Replaced(channel) : ~(s.day = new.day /\ s.channel = new.channel)
    BY <1>5 DEF Replaced
  <2>5. \A s, o \in board' : s.day = o.day /\ s.channel = o.channel => s = o
    BY <1>4, <2>4 DEF PipelineInv, BoardInv
  <2> QED BY <2>2, <2>3, <2>5 DEF BoardInv
<1>8. MartInv'
  BY <1>1, <1>2 DEF PipelineInv, MartInv, Written, RevisitIsNoNeed
<1>9. ViewInv'
  <2>1. CASE view = NoView
    BY <1>1, <2>1 DEF ViewInv
  <2>2. CASE view # NoView
    <3>1. \A leg \in Legs : LegRead(leg)'
      BY <1>1, <1>6, <2>2 DEF PipelineInv, ViewInv, LegRead, InRange
    <3>2. view' \in Views'
      BY <1>1, <2>2 DEF PipelineInv, ViewInv, Views
    <3>3. Listing'
      BY <1>1, <1>6, <2>2 DEF PipelineInv, ViewInv, Listing, Unread, InRange
    <3> QED BY <1>1, <1>2, <2>2, <3>1, <3>2, <3>3 DEF PipelineInv, ViewInv, Written, Unread
  <2> QED BY <2>1, <2>2
<1> QED BY <1>1, <1>2, <1>7, <1>8, <1>9 DEF PipelineInv, NeedsAreReal

(* What is listed is on the board and within the range of the leg.         *)
LEMMA ListedIsSound ==
  ASSUME BoardInv, NEW ask \in Asks, NEW leg \in Legs
  PROVE  LET range == RangeOf(ask, leg)
             shown == SnapshotsIn(range.from, range.to)
         IN /\ shown \subseteq board
            /\ \A s \in shown : IF leg = "current" THEN ask.from <= s.day ELSE s.day < ask.from
<1> PICK range : range = RangeOf(ask, leg)
  OBVIOUS
<1> PICK shown : shown = SnapshotsIn(range.from, range.to)
  OBVIOUS
<1>1. /\ shown \subseteq board
      /\ \A s \in shown : range.from <= s.day /\ s.day <= range.to
      /\ board \subseteq Snapshots
  BY DEF SnapshotsIn, BoardInv
<1>2. \A s \in board : s.day \in Nat
  BY <1>1 DEF Snapshots
<1>3. ask.from \in Int /\ ask.to \in Int
  BY DashboardConstants
<1>4. \A s \in shown : IF leg = "current" THEN ask.from <= s.day ELSE s.day < ask.from
  <2>1. CASE leg = "current"
    <3>1. range.from = ask.from
      BY <2>1 DEF RangeOf
    <3> QED BY <2>1, <3>1, <1>1
  <2>2. CASE leg # "current"
    <3>1. range.to = ask.from - 1
      BY <2>2 DEF RangeOf, PreviousRange
    <3> QED BY <2>2, <3>1, <1>1, <1>2, <1>3
  <2> QED BY <2>1, <2>2
<1> QED BY <1>1, <1>4

(* A slice holds one snapshot a day, and a provisional one only of today   *)
(* for a reader who may see it.                                            *)
LEMMA SelectedIsSound ==
  ASSUME NEW shown \in SUBSET Snapshots, NEW ask \in Asks, NEW today \in Int,
         \A s, o \in shown : s.day = o.day /\ s.channel = o.channel => s = o
  PROVE  LET chosen == Selected(ask, shown, today)
         IN /\ chosen \subseteq shown
            /\ \A s, o \in chosen : s.day = o.day => s = o
            /\ \A s \in chosen : s.channel = "provisional" =>
                 ask.snapshot = "provisional" /\ s.day = today /\ ask.kind # "export"
<1>1. Selected(ask, shown, today) = IF ask.kind = "export" THEN Official(shown)
                                    ELSE ResolveSnapshots(shown, ask.snapshot, today)
  BY Zenon DEF Selected
<1>2. ask.snapshot \in {"official", "provisional"}
  BY DashboardConstants
<1>3. \A s \in shown : s.channel \in {"official", "provisional"}
  BY DEF Snapshots
<1>4. CASE ask.kind = "export"
  BY <1>1, <1>4 DEF Official
<1>5. CASE ask.kind # "export"
  <2> PICK temporary : temporary = {s \in shown : s.channel = "provisional" /\ s.day = today
                                       /\ ask.snapshot # "official"}
    OBVIOUS
  <2>1. Selected(ask, shown, today)
          = temporary \cup {s \in Official(shown) : \A p \in temporary : p.day # s.day}
    BY <1>1, <1>5, Zenon DEF ResolveSnapshots
  <2>2. \A s \in temporary : /\ s \in shown /\ s.channel = "provisional" /\ s.day = today
                       /\ ask.snapshot = "provisional"
    BY <1>2
  <2>3. \A s \in Selected(ask, shown, today) :
           s \in temporary \/ (/\ s \in shown /\ s.channel = "official"
                         /\ \A p \in temporary : p.day # s.day)
    BY <2>1 DEF Official
  <2>4. Selected(ask, shown, today) \subseteq shown
    BY <2>2, <2>3
  <2>5. \A s, o \in Selected(ask, shown, today) : s.day = o.day => s = o
    BY <2>2, <2>3
  <2>6. \A s \in Selected(ask, shown, today) : s.channel = "provisional" =>
           ask.snapshot = "provisional" /\ s.day = today /\ ask.kind # "export"
    BY <2>2, <2>3, <1>5
  <2> QED BY <2>4, <2>5, <2>6
<1> QED BY <1>4, <1>5

(* The run, the board and the mart do not notice a reader.                 *)
LEMMA ViewUntouched ==
  ASSUME PipelineInv, ViewInv', UNCHANGED <<job, results, board, mart, staffMart>>
  PROVE  PipelineInv'
BY DEF PipelineInv, JobTyped, NeedsAreReal, MartInv, RevisitIsNoNeed, BoardInv, IsTrue

(* Somebody asks.                                                          *)
LEMMA OpenedStep ==
  ASSUME PipelineInv, NEW ask \in Asks, Look(ask), UNCHANGED <<job, results>>
  PROVE  PipelineInv'
<1>1. /\ job.stage \in Written /\ UNCHANGED <<board, mart, staffMart>>
      /\ view' = [stage |-> "listing", ask |-> ask, leg |-> "current",
                  today |-> [l \in Legs |-> 0], listed |-> {}, toRead |-> {},
                  slice |-> [l \in Legs |-> {}], threads |-> [l \in Legs |-> {}],
                  staff |-> [l \in Legs |-> {}]]
  BY DEF Look, OpenView, Written
<1>2. view' \in Views'
  BY <1>1 DEF Views, Legs
<1>3. /\ view'.leg = "current" /\ view'.slice = [l \in Legs |-> {}]
      /\ view'.threads = [l \in Legs |-> {}] /\ view'.listed = {} /\ view'.stage = "listing"
  BY <1>1
<1>4. \A leg \in Legs : LegRead(leg)'
  BY <1>3 DEF LegRead
<1>5. ViewInv'
  BY <1>1, <1>2, <1>3, <1>4 DEF ViewInv, Listing, Unread, Legs
<1> QED BY <1>1, <1>5, ViewUntouched

(* The snapshots of a leg are listed from the board as it is now.          *)
LEMMA ListedStep ==
  ASSUME PipelineInv, ListSnapshots, UNCHANGED <<job, results>>
  PROVE  PipelineInv'
<1> PICK range : range = RangeOf(view.ask, view.leg)
  OBVIOUS
<1> PICK shown : shown = SnapshotsIn(range.from, range.to)
  OBVIOUS
<1>1. /\ view.stage = "listing" /\ UNCHANGED <<board, mart, staffMart>>
      /\ view' = [view EXCEPT !.stage = "resolving", !.listed = shown]
  BY DEF ListSnapshots
<1>2. /\ view \in Views /\ job.stage \in Written /\ Unread(view.leg)
      /\ view.leg = "current" => Unread("previous")
      /\ \A leg \in Legs : LegRead(leg)
  BY <1>1 DEF PipelineInv, ViewInv, Listing, NoView
<1>3. view.ask \in Asks /\ view.leg \in Legs
  BY <1>2 DEF Views
<1>4. /\ shown \subseteq board
      /\ \A s \in shown : InRange(s, view.leg)
  BY <1>3, ListedIsSound DEF PipelineInv, InRange
<1>5. /\ shown \subseteq Snapshots /\ \A s \in shown : IsTrue(s)
      /\ \A s, o \in shown : s.day = o.day /\ s.channel = o.channel => s = o
  BY <1>4 DEF PipelineInv, BoardInv
<1>6. view' \in Views'
  BY <1>1, <1>2, <1>5 DEF Views
<1>7. /\ view'.stage = "resolving" /\ view'.listed = shown
      /\ view'.ask = view.ask /\ view'.leg = view.leg /\ view'.threads = view.threads
      /\ view'.slice = view.slice /\ view'.today = view.today
  BY <1>1, <1>2 DEF Views
<1>8. \A leg \in Legs : LegRead(leg)'
  BY <1>1, <1>2, <1>7 DEF LegRead, InRange, IsTrue
<1>9. Listing'
  BY <1>1, <1>2, <1>4, <1>5, <1>7 DEF Listing, Unread, InRange, IsTrue
<1>10. ViewInv'
  BY <1>2, <1>6, <1>7, <1>8, <1>9 DEF ViewInv, Unread
<1> QED BY <1>1, <1>10, ViewUntouched

(* The slice of a leg is chosen from what was listed.                      *)
LEMMA ResolvedStep ==
  ASSUME PipelineInv, ResolveSlice(BusinessDay(now)), now \in Nat, UNCHANGED <<job, results>>
  PROVE  PipelineInv'
<1> PICK today : today = BusinessDay(now)
  OBVIOUS
<1> PICK chosen : chosen = Selected(view.ask, view.listed, today)
  OBVIOUS
<1> PICK queries : queries = Queries(view.ask)
  OBVIOUS
<1>1. /\ view.stage = "resolving" /\ UNCHANGED <<board, mart, staffMart>>
      /\ view' = [view EXCEPT !.stage = "reading", !.today[view.leg] = today, !.listed = {},
                              !.slice[view.leg] = chosen, !.toRead = queries]
  BY DEF ResolveSlice
<1>2. /\ view \in Views /\ job.stage \in Written /\ Unread(view.leg)
      /\ view.leg = "current" => Unread("previous")
      /\ \A leg \in Legs : LegRead(leg)
      /\ \A s \in view.listed : IsTrue(s) /\ InRange(s, view.leg)
      /\ \A s, o \in view.listed : s.day = o.day /\ s.channel = o.channel => s = o
  BY <1>1 DEF PipelineInv, ViewInv, Listing, NoView
<1>3. today \in Int /\ view.ask \in Asks /\ view.leg \in Legs
  BY <1>2, DayNatural DEF Views
<1>4. /\ chosen \subseteq view.listed
      /\ \A s, o \in chosen : s.day = o.day => s = o
      /\ \A s \in chosen : s.channel = "provisional" =>
           view.ask.snapshot = "provisional" /\ s.day = today /\ view.ask.kind # "export"
  <2>1. view.listed \in SUBSET Snapshots
    BY <1>2 DEF Views
  <2> QED BY <1>2, <1>3, <2>1, SelectedIsSound
<1>5. chosen \subseteq Snapshots /\ \A s \in chosen : IsTrue(s) /\ InRange(s, view.leg)
  BY <1>2, <1>4 DEF Views
<1>6. queries \subseteq {"threads", "staff"}
  BY DEF Queries
<1>7. view' \in Views'
  BY <1>1, <1>2, <1>3, <1>5, <1>6 DEF Views
<1>8. /\ view'.stage = "reading" /\ view'.ask = view.ask /\ view'.leg = view.leg
      /\ view'.threads = view.threads /\ view'.listed = {}
      /\ view'.slice = [view.slice EXCEPT ![view.leg] = chosen]
      /\ view'.today = [view.today EXCEPT ![view.leg] = today]
      /\ view.slice \in [Legs -> SUBSET Snapshots] /\ view.today \in [Legs -> Int]
  BY <1>1, <1>2 DEF Views
<1>9. \A leg \in Legs \ {view.leg} : LegRead(leg)'
  BY <1>1, <1>2, <1>8 DEF LegRead, InRange, IsTrue
<1>10. LegRead(view.leg)'
  BY <1>1, <1>2, <1>3, <1>4, <1>5, <1>8 DEF LegRead, InRange, IsTrue, Unread
<1>11. view'.leg = "current" => Unread("previous")'
  BY <1>2, <1>8 DEF Unread, Legs
<1>12. ViewInv'
  BY <1>1, <1>2, <1>3, <1>7, <1>8, <1>9, <1>10, <1>11 DEF ViewInv, Listing
<1> QED BY <1>1, <1>12, ViewUntouched

LEMMA ViewRecord ==
  ASSUME NEW read \in Views, NEW left \in SUBSET {"threads", "staff"},
         NEW stage \in {"listing", "reading", "answered"}, NEW next \in Legs
  PROVE  [read EXCEPT !.toRead = left, !.stage = stage, !.leg = next] \in Views
BY DEF Views

(* The answer of a query: it is the last of its leg or it is not, and the  *)
(* leg may be the last or not.                                             *)
LEMMA AnsweredStep ==
  ASSUME PipelineInv, NEW query \in {"threads", "staff"}, NEW read, view.stage = "reading",
         UNCHANGED <<job, results, board, mart, staffMart>>,
         read \in Views, read.stage = "reading", read.ask = view.ask, read.leg = view.leg,
         read.today = view.today, read.slice = view.slice, read.listed = view.listed,
         \A leg \in Legs \ {view.leg} : read.threads[leg] = view.threads[leg],
         \A f \in read.threads[view.leg] : \E s \in view.slice[view.leg] : s.run = f.run,
         view' = AfterQuery(read, query)
  PROVE  PipelineInv'
<1> PICK left : left = read.toRead \ {query}
  OBVIOUS
<1> PICK more \in BOOLEAN : more = (read.ask.kind = "overview" /\ read.leg = "current")
  <2>1. (read.ask.kind = "overview" /\ read.leg = "current") \in BOOLEAN
    OBVIOUS
  <2> QED BY <2>1, Zenon
<1> PICK stage : stage = IF left # {} THEN "reading" ELSE IF more THEN "listing" ELSE "answered"
  OBVIOUS
<1> PICK next : next = IF left = {} /\ more THEN "previous" ELSE read.leg
  OBVIOUS
<1>1. view' = [read EXCEPT !.toRead = left, !.stage = stage, !.leg = next]
  BY Zenon DEF AfterQuery
<1>2. /\ stage \in {"listing", "reading", "answered"} /\ next \in Legs
      /\ left \subseteq {"threads", "staff"}
      /\ stage = "listing" => read.leg = "current" /\ next = "previous"
      /\ next = "current" => read.leg = "current"
  BY DEF Views, Legs
<1>3. view' \in Views
  <2>1. left \in SUBSET {"threads", "staff"}
    BY <1>2
  <2>2. [read EXCEPT !.toRead = left, !.stage = stage, !.leg = next] \in Views
    BY <1>2, <2>1, ViewRecord, Zenon
  <2> QED BY <1>1, <2>2, Zenon
<1>4. /\ view'.stage = stage /\ view'.leg = next /\ view'.ask = view.ask
      /\ view'.today = view.today /\ view'.slice = view.slice /\ view'.threads = read.threads
  BY <1>1 DEF Views
<1>5. /\ job.stage \in Written /\ view.leg \in Legs
      /\ view.leg = "current" => Unread("previous")
      /\ \A leg \in Legs : LegRead(leg)
  BY DEF PipelineInv, ViewInv, NoView, Views
<1>11. view'.listed = {}
  <2>1. view.listed = {}
    BY DEF PipelineInv, ViewInv, Listing, NoView
  <2> QED BY <1>1, <2>1 DEF Views
<1>6. \A leg \in Legs : LegRead(leg)'
  <2>1. \A leg \in Legs : \A s : IsTrue(s) => IsTrue(s)'
    BY DEF IsTrue
  <2>2. \A leg \in Legs : \A f \in view'.threads[leg] :
           \E s \in view'.slice[leg] : s.run = f.run
    BY <1>4, <1>5 DEF LegRead
  <2> QED BY <1>4, <1>5, <2>1, <2>2 DEF LegRead, InRange
<1>7. next = "current" => Unread("previous")'
  BY <1>2, <1>4, <1>5 DEF Unread, Legs
<1>8. stage = "listing" => Unread(next)'
  BY <1>2, <1>4, <1>5 DEF Unread, Legs
<1>9. view' \in Views'
  BY <1>3 DEF Views
<1>10. ViewInv'
  BY <1>2, <1>4, <1>5, <1>6, <1>7, <1>8, <1>9, <1>11 DEF ViewInv, Listing
<1> QED BY <1>10, ViewUntouched

(* A reader in the middle of a leg.                                        *)
LEMMA ReadingView ==
  ASSUME PipelineInv, view.stage = "reading"
  PROVE  view \in Views /\ view.leg \in Legs /\ LegRead(view.leg)
BY DEF PipelineInv, ViewInv, NoView, Views

(* The facts of the conversations in the slice.                            *)
LEMMA ThreadsListedStep ==
  ASSUME PipelineInv, ListFactThreadDays, UNCHANGED <<job, results>>
  PROVE  PipelineInv'
<1> PICK facts : facts = ThreadFactsOf(Runs(view.slice[view.leg]), view.ask)
  OBVIOUS
<1> PICK read : read = [view EXCEPT !.threads[view.leg] = facts]
  OBVIOUS
<1>1. /\ view.stage = "reading" /\ view' = AfterQuery(read, "threads")
      /\ UNCHANGED <<board, mart, staffMart>>
  BY Zenon DEF ListFactThreadDays
<1>2. view \in Views /\ view.leg \in Legs
  BY <1>1, ReadingView
<1>3. facts \subseteq mart /\ \A f \in facts : \E s \in view.slice[view.leg] : s.run = f.run
  BY DEF ThreadFactsOf, Runs
<1>4. read \in Views
  BY <1>2, <1>3 DEF Views
<1>5. /\ read.stage = view.stage /\ read.ask = view.ask /\ read.leg = view.leg
      /\ read.today = view.today /\ read.slice = view.slice /\ read.listed = view.listed
      /\ read.threads = [view.threads EXCEPT ![view.leg] = facts]
      /\ view.threads \in [Legs -> SUBSET mart]
  BY <1>2 DEF Views
<1>6. /\ read.threads[view.leg] = facts
      /\ \A leg \in Legs \ {view.leg} : read.threads[leg] = view.threads[leg]
  BY <1>2, <1>5
<1> QED BY <1>1, <1>3, <1>4, <1>5, <1>6, AnsweredStep

(* The staff facts of the slice.                                           *)
LEMMA StaffListedStep ==
  ASSUME PipelineInv, ListFactStaffThreadDays, UNCHANGED <<job, results>>
  PROVE  PipelineInv'
<1> PICK facts : facts = StaffFactsOf(Runs(view.slice[view.leg]), view.ask)
  OBVIOUS
<1> PICK read : read = [view EXCEPT !.staff[view.leg] = facts]
  OBVIOUS
<1>1. /\ view.stage = "reading" /\ view' = AfterQuery(read, "staff")
      /\ UNCHANGED <<board, mart, staffMart>>
  BY Zenon DEF ListFactStaffThreadDays
<1>2. view \in Views /\ view.leg \in Legs /\ LegRead(view.leg)
  BY <1>1, ReadingView
<1>3. facts \subseteq staffMart
  BY DEF StaffFactsOf
<1>4. read \in Views
  BY <1>2, <1>3 DEF Views
<1>5. /\ read.stage = view.stage /\ read.ask = view.ask /\ read.leg = view.leg
      /\ read.today = view.today /\ read.slice = view.slice /\ read.threads = view.threads
      /\ read.listed = view.listed
  BY <1>2 DEF Views
<1>6. \A f \in read.threads[view.leg] : \E s \in view.slice[view.leg] : s.run = f.run
  BY <1>2, <1>5 DEF LegRead
<1> QED BY <1>1, <1>4, <1>5, <1>6, AnsweredStep

(* The clock only matters to what is today.                                *)
DayInv == now \in Nat /\ PipelineInv

(* Every step keeps the invariant.                                         *)
LEMMA DayInvStep ==
  ASSUME DayInv, [Next]_vars
  PROVE  DayInv'
<1>1. now' \in Nat
  <2>1. CASE Tick
    BY <2>1 DEF DayInv, Tick
  <2>2. CASE ~Tick
    <3>1. now' = now
      BY <2>2 DEF Next, vars, extractionVars, PlanJob, LoadDays, Analyse, Materialize, Publish,
                  ScanStep, Extract, OpenPage, PancakeFails, ListConversations, FetchMessages,
                  Arrive
    <3> QED BY <3>1 DEF DayInv
  <2> QED BY <2>1, <2>2
<1>2. PipelineInv'
  <2>0. PipelineInv /\ now \in Nat
    BY DEF DayInv
  <2>1. CASE UNCHANGED vars
    <3>1. UNCHANGED <<job, results, board, mart, staffMart, view>>
      BY <2>1 DEF vars, extractionVars, dashboardVars, pipelineVars
    <3>2. ViewInv'
      BY <2>0, <3>1 DEF PipelineInv, ViewInv, Views, Listing, LegRead, InRange, IsTrue, Unread
    <3> QED BY <2>0, <3>1, <3>2, ViewUntouched
  <2>2. CASE \E request \in Requests : PlanJob(request)
    BY <2>0, <2>2, PlannedStep
  <2>3. CASE ScanStep /\ UNCHANGED <<dashboardVars, pipelineVars>>
    BY <2>0, <2>3, ScannedStep
  <2>4. CASE LoadDays \/ Analyse \/ Materialize \/ Publish
    BY <2>0, <2>4, LoadedStep, AnalysedStep, MaterializedStep, PublishedStep
  <2>5. CASE Tick
    <3>1. UNCHANGED <<job, results, board, mart, staffMart, view>>
      BY <2>5 DEF Tick, dashboardVars, pipelineVars
    <3>2. ViewInv'
      BY <2>0, <3>1 DEF PipelineInv, ViewInv, Views, Listing, LegRead, InRange, IsTrue, Unread
    <3> QED BY <2>0, <3>1, <3>2, ViewUntouched
  <2>6. CASE (ViewStep \/ \E ask \in Asks : Look(ask)) /\ UNCHANGED <<extractionVars, pipelineVars>>
    <3>1. UNCHANGED <<job, results>>
      BY <2>6 DEF extractionVars, pipelineVars
    <3>2. CASE ViewStep
      BY <2>0, <3>1, <3>2, ListedStep, ResolvedStep, ThreadsListedStep, StaffListedStep DEF ViewStep
    <3>3. CASE \E ask \in Asks : Look(ask)
      BY <2>0, <3>1, <3>3, OpenedStep
    <3> QED BY <2>6, <3>2, <3>3
  <2> QED BY <2>1, <2>2, <2>3, <2>4, <2>5, <2>6 DEF Next
<1> QED BY <1>1, <1>2 DEF DayInv

LEMMA DayInvHolds == Spec => []DayInv
<1>1. Init => DayInv
  BY InitPipelineInv, DayConstants DEF Init, DayInv
<1>2. DayInv /\ [Next]_vars => DayInv'
  BY DayInvStep
<1> QED BY <1>1, <1>2, PTL DEF Spec

(* No fact, of this run or a former one, calls a revisit a need, whatever  *)
(* the tags, the rules and the model say.                                  *)
THEOREM NeedsAreNeeds == Spec => []RevisitIsNoNeed
<1>1. DayInv => RevisitIsNoNeed
  BY DEF DayInv, PipelineInv, MartInv
<1> QED BY <1>1, DayInvHolds, PTL

(* What a reader holds.                                                    *)
LEMMA ReaderHolds ==
  ASSUME DayInv, view.stage # "none"
  PROVE  /\ view \in Views /\ LegRead("current") /\ LegRead("previous")
         /\ view.slice["current"] \subseteq Snapshots /\ view.slice["previous"] \subseteq Snapshots
         /\ view.threads["current"] \subseteq mart /\ view.threads["previous"] \subseteq mart
         /\ view.ask \in Asks
BY DEF DayInv, PipelineInv, ViewInv, NoView, Views, Legs

(* Whenever a reader looks and however the board changes meanwhile, the    *)
(* answer counts a conversation once a day, and never in both ranges.      *)
THEOREM CountedOnce == Spec => []DayCountedOnce
<1>1. DayInv => DayCountedOnce
  <2> SUFFICES ASSUME DayInv, view.stage # "none"
               PROVE  LET shown == view.slice["current"] \cup view.slice["previous"]
                      IN /\ \A s, o \in shown : s.day = o.day => s = o
                         /\ \A f, g \in view.threads["current"] \cup view.threads["previous"] :
                              f.thread = g.thread /\ f.day = g.day => f = g
                         /\ view.slice["current"] \cap view.slice["previous"] = {}
    BY DEF DayCountedOnce
  <2> PICK shown : shown = view.slice["current"] \cup view.slice["previous"]
    OBVIOUS
  <2>1. /\ LegRead("current") /\ LegRead("previous") /\ shown \subseteq Snapshots
        /\ view.threads["current"] \subseteq mart /\ view.threads["previous"] \subseteq mart
        /\ view.ask.from \in Int
    BY ReaderHolds, DashboardConstants
  <2>2. \A s \in view.slice["current"], o \in view.slice["previous"] : s.day # o.day
    <3>1. \A s \in shown : s.day \in Nat
      BY <2>1 DEF Snapshots
    <3>2. /\ \A s \in view.slice["current"] : view.ask.from <= s.day
          /\ \A s \in view.slice["previous"] : s.day < view.ask.from
      BY <2>1 DEF LegRead, InRange
    <3> QED BY <2>1, <3>1, <3>2
  <2>3. \A s, o \in shown : s.day = o.day => s = o
    BY <2>1, <2>2 DEF LegRead
  <2>4. \A f \in view.threads["current"] \cup view.threads["previous"] :
          f \in mart /\ \E s \in shown : s.run = f.run /\ s.day = f.day
    BY <2>1 DEF LegRead, IsTrue
  <2>5. \A f, g \in view.threads["current"] \cup view.threads["previous"] :
          f.thread = g.thread /\ f.day = g.day => f = g
    BY <2>3, <2>4 DEF DayInv, PipelineInv, MartInv
  <2> QED BY <2>2, <2>3, <2>5
<1> QED BY <1>1, DayInvHolds, PTL

(* Facts of a provisional run are shown only to a reader who did not       *)
(* insist on official ones, only for the day that was today, and flagged;  *)
(* never exported.                                                         *)
THEOREM ProvisionalFlagged == Spec => []ProvisionalIsFlagged
<1>1. DayInv => ProvisionalIsFlagged
  BY ReaderHolds DEF LegRead, ProvisionalIsFlagged, Temporary
<1> QED BY <1>1, DayInvHolds, PTL

(* A line of the export is made of a run that covered the whole day.       *)
THEOREM ExportsOfficial == Spec => []ExportIsOfficial
<1>1. DayInv => ExportIsOfficial
  <2> SUFFICES ASSUME DayInv, view.stage = "answered", view.ask.kind = "export",
                      NEW row \in ExportRows, row.run = job.id
               PROVE  job.full /\ job.day = row.day
    BY DEF ExportIsOfficial
  <2> DEFINE Line(s) == [day |-> s.day, run |-> s.run,
                         counts |-> Overview({f \in Rows("current") : f.day = s.day})]
  <2>0. ExportRows
          = {Line(s) : s \in {x \in view.slice["current"] : {f \in Rows("current") : f.day = x.day} # {}}}
    BY Zenon DEF ExportRows
  <2>8. \A s : Line(s).day = s.day /\ Line(s).run = s.run
    OBVIOUS
  <2> HIDE DEF Line
  <2> PICK s \in view.slice["current"] : row.day = s.day /\ row.run = s.run
    BY <2>0, <2>8
  <2>1. LegRead("current") /\ s \in Snapshots
    BY ReaderHolds
  <2>2. s.channel = "official"
    BY <2>1 DEF LegRead, Snapshots
  <2> QED BY <2>1, <2>2 DEF LegRead, IsTrue
<1> QED BY <1>1, DayInvHolds, PTL
================================================================================
