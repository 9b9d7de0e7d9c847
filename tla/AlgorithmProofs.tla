--------------------------- MODULE AlgorithmProofs ---------------------------
(***************************************************************************)
(* What the algorithms do, for every input.  A loop is a recursive function *)
(* of the number of its turns: what holds after each turn is proved by      *)
(* induction on that number (BoundedInduction), and what the loop ends with *)
(* follows from the last.  The three theorems are at the end; the lemmas    *)
(* PlacedWell, DataSourceFindsTheOne and DisksAttached say the same of one  *)
(* input.                                                                   *)
(***************************************************************************)
EXTENDS Algorithms, TLAPS, WellFoundedInduction, FiniteSetTheorems

-----------------------------------------------------------------------------
(* Loops and numbers *)

(* Induction *)

\* The numbers are ordered well, which the induction below rests on.
LEMMA NatOrder == IsWellFoundedOn({p \in Nat \X Nat : p[1] < p[2]}, Nat)
  BY NatLessThanWellFounded DEF OpToRel

\* Induction over the natural numbers, for a set instead of a predicate.
LEMMA SetInduction ==
  ASSUME NEW T \in SUBSET Nat, 0 \in T, \A n \in T : n + 1 \in T
  PROVE  Nat \subseteq T
  <1> DEFINE Lt == {p \in Nat \X Nat : p[1] < p[2]}
             Rest == Nat \ T
  <1> SUFFICES ASSUME Rest # {} PROVE FALSE
    OBVIOUS
  <1>1. IsWellFoundedOn(Lt, Nat) BY NatOrder
  <1>2. Rest \subseteq Nat OBVIOUS
  <1>3. \E x \in Rest : \A y \in Rest : <<y, x>> \notin Lt
    <2> HIDE DEF Lt, Rest
    <2> QED BY <1>1, <1>2, WFMin
  <1>4. PICK x \in Rest : \A y \in Rest : <<y, x>> \notin Lt BY <1>3
  <1>5. x \in Nat /\ x # 0 /\ x - 1 \in Nat BY <1>4
  <1>6. <<x-1, x>> \in Lt BY <1>5
  <1>7. x - 1 \notin T BY <1>4, <1>5
  <1>8. QED BY <1>4, <1>5, <1>6, <1>7

\* Induction over the turns of a loop of N turns.
LEMMA BoundedInduction ==
  ASSUME NEW N \in Nat, NEW T, 0 \in T, \A n \in 0 .. N - 1 : n \in T => n + 1 \in T
  PROVE  \A n \in 0 .. N : n \in T
  <1> DEFINE U == {n \in Nat : n <= N => n \in T}
  <1>1. U \in SUBSET Nat /\ 0 \in U /\ \A n \in U : n + 1 \in U
    OBVIOUS
  <1> HIDE DEF U
  <1>2. Nat \subseteq U BY <1>1, SetInduction
  <1>3. QED BY <1>2 DEF U

(* Kept *)

\* The function of Kept, for the members it keeps of the first n.
KeptLoop(list, set) ==
  CHOOSE kept : kept = [n \in 0 .. Len(list) |->
    IF n = 0 THEN << >>
    ELSE IF list[n] \in set THEN Append(kept[n - 1], list[n]) ELSE kept[n - 1]]

\* The loop of Kept is the recursive function that defines it.
LEMMA KeptExists ==
  ASSUME NEW list, NEW set, Len(list) \in Nat
  PROVE  KeptLoop(list, set) = [n \in 0 .. Len(list) |->
           IF n = 0 THEN << >>
           ELSE IF list[n] \in set THEN Append(KeptLoop(list, set)[n - 1], list[n])
                ELSE KeptLoop(list, set)[n - 1]]
  <1> DEFINE Step(x, n) == IF list[n] \in set THEN Append(x, list[n]) ELSE x
             Is(f, N) == f = [n \in 0 .. N |-> IF n = 0 THEN << >> ELSE Step(f[n - 1], n)]
             T == {N \in Nat : \E f : Is(f, N)}
  <1>1. Len(list) \in T
    <2> HIDE DEF Step
    <2>1. 0 \in T
      <3>1. Is([n \in 0 .. 0 |-> << >>], 0) OBVIOUS
      <3>2. QED BY <3>1
    <2>2. ASSUME NEW N \in 0 .. Len(list) - 1, N \in T PROVE N + 1 \in T
      <3>1. PICK f : Is(f, N) BY <2>2
      <3>2. Is([n \in 0 .. N + 1 |-> IF n = N + 1 THEN Step(f[N], n) ELSE f[n]], N + 1)
        BY <3>1
      <3>3. N + 1 \in Nat OBVIOUS
      <3>4. QED BY <3>2, <3>3
    <2>3. \A N \in 0 .. Len(list) - 1 : N \in T => N + 1 \in T BY <2>2
    <2> HIDE DEF T
    <2>4. \A n \in 0 .. Len(list) : n \in T BY <2>1, <2>3, BoundedInduction
    <2>5. QED BY <2>4
  <1>2. QED BY <1>1 DEF KeptLoop

\* What one turn of the loop of Kept does.
LEMMA KeptTurn ==
  ASSUME NEW list, NEW set, Len(list) \in Nat
  PROVE  /\ KeptLoop(list, set)[0] = << >>
         /\ \A n \in 0 .. Len(list) - 1 :
              KeptLoop(list, set)[n + 1] =
                IF list[n + 1] \in set THEN Append(KeptLoop(list, set)[n], list[n + 1])
                ELSE KeptLoop(list, set)[n]
         /\ Kept(list, set) = KeptLoop(list, set)[Len(list)]
  <1> DEFINE kept == KeptLoop(list, set)
  <1>1. kept = [n \in 0 .. Len(list) |->
           IF n = 0 THEN << >>
           ELSE IF list[n] \in set THEN Append(kept[n - 1], list[n]) ELSE kept[n - 1]]
    BY KeptExists
  <1>2. Kept(list, set) = kept[Len(list)] BY DEF Kept, KeptLoop
  <1> HIDE DEF kept
  <1>3. kept[0] = << >> BY <1>1
  <1>4. \A n \in 0 .. Len(list) - 1 : kept[n + 1] =
          IF list[n + 1] \in set THEN Append(kept[n], list[n + 1]) ELSE kept[n]
    <2> SUFFICES ASSUME NEW n \in 0 .. Len(list) - 1
                 PROVE  kept[n + 1] =
                   IF list[n + 1] \in set THEN Append(kept[n], list[n + 1]) ELSE kept[n]
      OBVIOUS
    <2>1. n + 1 \in 0 .. Len(list) /\ n + 1 # 0 /\ (n + 1) - 1 = n OBVIOUS
    <2>2. QED BY <1>1, <2>1
  <1> USE DEF kept
  <1>5. QED BY <1>2, <1>3, <1>4

\* The members of a list with one more.
LEMMA ToSetAppend ==
  ASSUME NEW S, NEW list \in Seq(S), NEW x
  PROVE  ToSet(Append(list, x)) = ToSet(list) \cup {x}
  <1>1. DOMAIN Append(list, x) = 1 .. Len(list) + 1 /\ DOMAIN list = 1 .. Len(list)
        /\ Len(list) \in Nat
    OBVIOUS
  <1>2. \A n \in 1 .. Len(list) : Append(list, x)[n] = list[n] OBVIOUS
  <1>3. Append(list, x)[Len(list) + 1] = x OBVIOUS
  <1>4. QED BY <1>1, <1>2, <1>3 DEF ToSet

\* Kept holds the members of the list that are in the set, each as often as the list.
LEMMA KeptIs ==
  ASSUME NEW list, IsList(list), NEW set
  PROVE  /\ Kept(list, set) \in Seq(ToSet(list))
         /\ ToSet(Kept(list, set)) = ToSet(list) \cap set
         /\ IsInjective(list) => IsInjective(Kept(list, set))
  <1> DEFINE kept == KeptLoop(list, set)
             Before(n) == {list[m] : m \in 1 .. n}
             Turn(n) == /\ kept[n] \in Seq(ToSet(list))
                        /\ ToSet(kept[n]) = Before(n) \cap set
                        /\ IsInjective(list) => IsInjective(kept[n])
  <1>1. Len(list) \in Nat /\ DOMAIN list = 1 .. Len(list) /\ Before(Len(list)) = ToSet(list)
        /\ \A n \in 1 .. Len(list) : list[n] \in ToSet(list)
    BY DEF IsList, ToSet
  <1>2. /\ kept[0] = << >>
        /\ \A n \in 0 .. Len(list) - 1 :
             kept[n + 1] = IF list[n + 1] \in set THEN Append(kept[n], list[n + 1]) ELSE kept[n]
        /\ Kept(list, set) = kept[Len(list)]
    BY <1>1, KeptTurn
  <1> HIDE DEF kept
  <1>3. Turn(0) BY <1>1, <1>2 DEF ToSet, IsInjective
  <1>4. ASSUME NEW n \in 0 .. Len(list) - 1, Turn(n) PROVE Turn(n + 1)
    <2> DEFINE x == list[n + 1]
    <2>1. kept[n] \in Seq(ToSet(list)) /\ x \in ToSet(list) BY <1>1, <1>4
    <2>2. Before(n + 1) = Before(n) \cup {x} OBVIOUS
    <2>3. CASE x \notin set BY <1>2, <1>4, <2>2, <2>3
    <2>4. CASE x \in set
      <3>1. kept[n + 1] = Append(kept[n], x) BY <1>2, <2>4
      <3>2. ToSet(kept[n + 1]) = ToSet(kept[n]) \cup {x} BY <2>1, <3>1, ToSetAppend
      <3>3. ASSUME IsInjective(list) PROVE IsInjective(kept[n + 1])
        <4>1. x \notin Before(n) BY <1>1, <3>3 DEF IsInjective
        <4>2. x \notin ToSet(kept[n]) /\ IsInjective(kept[n]) BY <1>4, <3>3, <4>1
        <4>3. QED BY SMTT(20), <2>1, <3>1, <4>2 DEF IsInjective, ToSet
      <3>4. kept[n + 1] \in Seq(ToSet(list)) BY <2>1, <3>1
      <3>5. ToSet(kept[n + 1]) = Before(n + 1) \cap set
        <4>1. ToSet(kept[n]) = Before(n) \cap set BY <1>4
        <4> HIDE DEF Before
        <4>2. QED BY <2>2, <2>4, <3>2, <4>1
      <3>6. QED BY <3>3, <3>4, <3>5
    <2>5. QED BY <2>3, <2>4
  <1>5. \A n \in 0 .. Len(list) : Turn(n)
    <2> HIDE DEF Turn
    <2> DEFINE T == {n \in 0 .. Len(list) : Turn(n)}
    <2>1. 0 \in T /\ \A n \in 0 .. Len(list) - 1 : n \in T => n + 1 \in T BY <1>1, <1>3, <1>4
    <2> HIDE DEF T
    <2>2. \A n \in 0 .. Len(list) : n \in T BY <1>1, <2>1, BoundedInduction
    <2>3. QED BY <2>2 DEF T
  <1>6. Turn(Len(list))
    <2> HIDE DEF Turn
    <2>1. QED BY <1>1, <1>5
  <1>7. QED
    <2> HIDE DEF Before
    <2>1. QED BY <1>1, <1>2, <1>6

\* What is kept and what is not are the whole list.
LEMMA KeptLengths ==
  ASSUME NEW list, IsList(list), NEW set
  PROVE  Len(Kept(list, ToSet(list) \ set)) + Len(Kept(list, set)) = Len(list)
  <1> DEFINE in == KeptLoop(list, set)
             out == KeptLoop(list, ToSet(list) \ set)
             Turn(n) == /\ in[n] \in Seq(ToSet(list)) /\ out[n] \in Seq(ToSet(list))
                        /\ Len(out[n]) + Len(in[n]) = n
  <1>1. Len(list) \in Nat /\ \A n \in 1 .. Len(list) : list[n] \in ToSet(list)
    BY DEF IsList, ToSet
  <1>2. in[0] = << >> /\ out[0] = << >> /\ Kept(list, set) = in[Len(list)]
        /\ Kept(list, ToSet(list) \ set) = out[Len(list)]
    BY <1>1, KeptTurn
  <1>3. \A n \in 0 .. Len(list) - 1 :
          /\ in[n + 1] = IF list[n + 1] \in set THEN Append(in[n], list[n + 1]) ELSE in[n]
          /\ out[n + 1] = IF list[n + 1] \in ToSet(list) \ set THEN Append(out[n], list[n + 1]) ELSE out[n]
    BY <1>1, KeptTurn
  <1> HIDE DEF in, out
  <1>4. Turn(0) BY <1>1, <1>2
  <1>5. ASSUME NEW n \in 0 .. Len(list) - 1, Turn(n) PROVE Turn(n + 1)
    <2>1. list[n + 1] \in ToSet(list) BY <1>1
    <2>4. Len(in[n]) \in Nat /\ Len(out[n]) \in Nat /\ Len(out[n]) + Len(in[n]) = n
      <3>1. Len(in[n]) \in Nat /\ Len(out[n]) \in Nat BY <1>5
      <3>2. Len(out[n]) + Len(in[n]) = n BY <1>5, Zenon
      <3>3. QED BY <3>1, <3>2
    <2>2. CASE list[n + 1] \in set
      <3>1. in[n + 1] = Append(in[n], list[n + 1]) /\ out[n + 1] = out[n] BY <1>3, <2>2
      <3>2. Append(in[n], list[n + 1]) \in Seq(ToSet(list))
            /\ Len(Append(in[n], list[n + 1])) = Len(in[n]) + 1
        BY <1>5, <2>1
      <3>3. Len(in[n + 1]) = Len(in[n]) + 1 /\ Len(out[n + 1]) = Len(out[n])
        BY <3>1, <3>2, Zenon
      <3>4. Len(out[n + 1]) + Len(in[n + 1]) = n + 1
        <4>1. \A a, b, x, y \in Nat : b + a = n /\ x = a + 1 /\ y = b => y + x = n + 1 OBVIOUS
        <4>2. Len(out[n + 1]) \in Nat /\ Len(in[n + 1]) \in Nat BY <2>4, <3>3
        <4>3. QED BY <2>4, <3>3, <4>1, <4>2, Zenon
      <3>5. QED BY <1>5, <3>1, <3>2, <3>4, Zenon
    <2>3. CASE list[n + 1] \notin set
      <3>1. out[n + 1] = Append(out[n], list[n + 1]) /\ in[n + 1] = in[n] BY <1>3, <2>1, <2>3
      <3>2. Append(out[n], list[n + 1]) \in Seq(ToSet(list))
            /\ Len(Append(out[n], list[n + 1])) = Len(out[n]) + 1
        BY <1>5, <2>1
      <3>3. Len(out[n + 1]) = Len(out[n]) + 1 /\ Len(in[n + 1]) = Len(in[n])
        BY <3>1, <3>2, Zenon
      <3>4. Len(out[n + 1]) + Len(in[n + 1]) = n + 1
        <4>1. \A a, b, x, y \in Nat : a + b = n /\ x = a + 1 /\ y = b => x + y = n + 1 OBVIOUS
        <4>2. Len(out[n + 1]) \in Nat /\ Len(in[n + 1]) \in Nat BY <2>4, <3>3
        <4>3. QED BY <2>4, <3>3, <4>1, <4>2, Zenon
      <3>5. QED BY <1>5, <3>1, <3>2, <3>4, Zenon
    <2>5. QED BY <2>2, <2>3
  <1>6. \A n \in 0 .. Len(list) : Turn(n)
    <2> HIDE DEF Turn
    <2> DEFINE T == {n \in 0 .. Len(list) : Turn(n)}
    <2>1. 0 \in T /\ \A n \in 0 .. Len(list) - 1 : n \in T => n + 1 \in T BY <1>1, <1>4, <1>5
    <2> HIDE DEF T
    <2>2. \A n \in 0 .. Len(list) : n \in T BY <1>1, <2>1, BoundedInduction
    <2>3. QED BY <2>2 DEF T
  <1>7. Turn(Len(list))
    <2> HIDE DEF Turn
    <2>1. QED BY <1>1, <1>6
  <1>8. QED BY <1>2, <1>7

(* The least and the greatest number of a set *)

\* Min is the least number of a set.
LEMMA MinIs ==
  ASSUME NEW S, S \subseteq Nat, S # {}
  PROVE  Min(S) \in S /\ \A y \in S : Min(S) <= y
  <1> DEFINE Lt == {p \in Nat \X Nat : p[1] < p[2]}
  <1>1. \E x \in S : \A y \in S : <<y, x>> \notin Lt
    <2>1. IsWellFoundedOn(Lt, Nat) BY NatOrder
    <2> HIDE DEF Lt
    <2>2. QED BY <2>1, WFMin
  <1>2. PICK x \in S : \A y \in S : <<y, x>> \notin Lt BY <1>1
  <1>3. ASSUME NEW y \in S PROVE x <= y
    <2>1. x \in Nat /\ y \in Nat OBVIOUS
    <2>2. <<y, x>> \in Nat \X Nat /\ <<y, x>>[1] = y /\ <<y, x>>[2] = x BY <2>1
    <2>3. ~(y < x) BY <1>2, <2>2
    <2>4. QED BY <2>1, <2>3
  <1>4. QED BY <1>3 DEF Min

\* Max is the greatest number of a bounded set.
LEMMA MaxIs ==
  ASSUME NEW N \in Nat, NEW S, S \subseteq 0 .. N, S # {}
  PROVE  Max(S) \in S /\ \A y \in S : y <= Max(S)
  <1> DEFINE R == {N - x : x \in S}
  <1>1. R \subseteq Nat /\ R # {}
    <2>1. \A x \in S : x \in Nat /\ N - x \in Nat OBVIOUS
    <2>2. QED BY <2>1
  <1>2. Min(R) \in R /\ \A y \in R : Min(R) <= y
    <2> HIDE DEF R
    <2>1. QED BY <1>1, MinIs
  <1>3. PICK x \in S : Min(R) = N - x BY <1>2
  <1>4. \A y \in S : N - x <= N - y BY <1>2, <1>3
  <1>5. \A y \in S : y <= x BY <1>4
  <1>6. QED BY <1>5 DEF Max

(* The numbers of a set up to a bound, and how many there are *)

\* The numbers up to n, and how many there are.
LEMMA IntervalIsFinite ==
  ASSUME NEW n \in Nat
  PROVE  IsFiniteSet(0 .. n) /\ IsFiniteSet(1 .. n) /\ Cardinality(1 .. n) = n
  <1>1. n \in Int /\ 0 \in Int /\ 1 \in Int OBVIOUS
  <1>2. IsFiniteSet(0 .. n) BY <1>1, FS_Interval
  <1>3. IsFiniteSet(1 .. n) BY <1>1, FS_Interval
  <1>4. Cardinality(1 .. n) = IF 1 > n THEN 0 ELSE n - 1 + 1 BY <1>1, FS_Interval
  <1>5. QED BY <1>2, <1>3, <1>4


\* The numbers of a set up to a bound, whose count is the rank of the bound.
UpTo(set, n) == {x \in set : x <= n}

\* How many numbers there are up to n, and up to the next.
LEMMA CountUpTo ==
  ASSUME NEW set, \A x \in set : x \in Nat /\ x # 0, NEW n \in Nat
  PROVE  /\ IsFiniteSet(UpTo(set, n)) /\ Cardinality(UpTo(set, n)) \in Nat
         /\ Cardinality(UpTo(set, 0)) = 0
         /\ n + 1 \in set => Cardinality(UpTo(set, n + 1)) = Cardinality(UpTo(set, n)) + 1
         /\ n + 1 \notin set => UpTo(set, n + 1) = UpTo(set, n)
  <1>1. IsFiniteSet(UpTo(set, n)) /\ Cardinality(UpTo(set, n)) \in Nat
    <2>1. UpTo(set, n) \subseteq 1 .. n BY DEF UpTo
    <2>2. IsFiniteSet(1 .. n) BY IntervalIsFinite
    <2>3. QED BY <2>1, <2>2, FS_Subset, FS_CardinalityType
  <1>2. UpTo(set, 0) = {} BY DEF UpTo
  <1>3. n + 1 \in set => UpTo(set, n + 1) = UpTo(set, n) \cup {n + 1} /\ n + 1 \notin UpTo(set, n)
    BY DEF UpTo
  <1>4. n + 1 \notin set => UpTo(set, n + 1) = UpTo(set, n) BY DEF UpTo
  <1>5. n + 1 \in set => Cardinality(UpTo(set, n + 1)) = Cardinality(UpTo(set, n)) + 1
    BY <1>1, <1>3, FS_AddElement
  <1>6. QED BY <1>1, <1>2, <1>4, <1>5, FS_EmptySet

\* The numbers of a set are told apart by how many there are up to them.
LEMMA CountGrows ==
  ASSUME NEW set, \A x \in set : x \in Nat /\ x # 0, NEW m \in Nat, NEW n \in set, m < n
  PROVE  Cardinality(UpTo(set, m)) < Cardinality(UpTo(set, n))
  <1>1. IsFiniteSet(UpTo(set, n)) /\ IsFiniteSet(UpTo(set, m)) BY CountUpTo
  <1>2. UpTo(set, m) \subseteq UpTo(set, n) /\ n \in UpTo(set, n) /\ n \notin UpTo(set, m)
    BY DEF UpTo
  <1>3. Cardinality(UpTo(set, m)) \in Nat /\ Cardinality(UpTo(set, n)) \in Nat
    BY <1>1, FS_CardinalityType
  <1>4. QED BY <1>1, <1>2, <1>3, FS_Subset

-----------------------------------------------------------------------------
(* The placement of disks on datastores *)

(* The turns of the two loops over the actions *)

\* One turn of the first loop of datastoresForNewDisks.
LEMMA MovesTurn ==
  ASSUME NEW actions, NEW count, Len(actions) \in Nat
  PROVE  LET after == AfterMoves(actions, count)
         IN /\ after[0] = [n \in 1 .. count |-> None]
            /\ \A m \in 0 .. Len(actions) - 1 : after[m + 1] = WithMoves(after[m], actions[m + 1])
  <1> DEFINE start == [n \in 1 .. count |-> None]
             Step(x, m) == WithMoves(x, actions[m])
             Is(f, N) == f = [m \in 0 .. N |-> IF m = 0 THEN start ELSE Step(f[m - 1], m)]
             T == {N \in Nat : \E f : Is(f, N)}
             after == AfterMoves(actions, count)
  <1>1. Len(actions) \in T
    <2> HIDE DEF Step, start
    <2>1. 0 \in T
      <3>1. Is([m \in 0 .. 0 |-> start], 0) OBVIOUS
      <3>2. QED BY <3>1
    <2>2. ASSUME NEW N \in 0 .. Len(actions) - 1, N \in T PROVE N + 1 \in T
      <3>1. PICK f : Is(f, N) BY <2>2
      <3>2. Is([m \in 0 .. N + 1 |-> IF m = N + 1 THEN Step(f[N], m) ELSE f[m]], N + 1)
        BY <3>1
      <3>3. N + 1 \in Nat OBVIOUS
      <3>4. QED BY <3>2, <3>3
    <2>3. \A N \in 0 .. Len(actions) - 1 : N \in T => N + 1 \in T BY <2>2
    <2> HIDE DEF T
    <2>4. \A n \in 0 .. Len(actions) : n \in T BY <2>1, <2>3, BoundedInduction
    <2>5. QED BY <2>4
  <1>2. Is(after, Len(actions)) BY <1>1 DEF AfterMoves
  <1> HIDE DEF after, Step, start
  <1>3. after[0] = start BY <1>2
  <1>4. ASSUME NEW m \in 0 .. Len(actions) - 1 PROVE after[m + 1] = Step(after[m], m + 1)
    <2>1. m + 1 \in 0 .. Len(actions) /\ m + 1 # 0 /\ (m + 1) - 1 = m OBVIOUS
    <2>2. QED BY <1>2, <2>1
  <1> USE DEF after, Step, start
  <1>5. QED BY <1>3, <1>4

\* One turn of the second loop of datastoresForNewDisks.
LEMMA DestinationsTurn ==
  ASSUME NEW actions, NEW count, Len(actions) \in Nat
  PROVE  LET after == AfterDestinations(actions, count)
         IN /\ after[0] = AfterMoves(actions, count)[Len(actions)]
            /\ \A m \in 0 .. Len(actions) - 1 :
                 after[m + 1] = WithDestination(after[m], actions[m + 1])
  <1> DEFINE start == AfterMoves(actions, count)[Len(actions)]
             Step(x, m) == WithDestination(x, actions[m])
             Is(f, N) == f = [m \in 0 .. N |-> IF m = 0 THEN start ELSE Step(f[m - 1], m)]
             T == {N \in Nat : \E f : Is(f, N)}
             after == AfterDestinations(actions, count)
  <1>1. Len(actions) \in T
    <2> HIDE DEF Step, start
    <2>1. 0 \in T
      <3>1. Is([m \in 0 .. 0 |-> start], 0) OBVIOUS
      <3>2. QED BY <3>1
    <2>2. ASSUME NEW N \in 0 .. Len(actions) - 1, N \in T PROVE N + 1 \in T
      <3>1. PICK f : Is(f, N) BY <2>2
      <3>2. Is([m \in 0 .. N + 1 |-> IF m = N + 1 THEN Step(f[N], m) ELSE f[m]], N + 1)
        BY <3>1
      <3>3. N + 1 \in Nat OBVIOUS
      <3>4. QED BY <3>2, <3>3
    <2>3. \A N \in 0 .. Len(actions) - 1 : N \in T => N + 1 \in T BY <2>2
    <2> HIDE DEF T
    <2>4. \A n \in 0 .. Len(actions) : n \in T BY <2>1, <2>3, BoundedInduction
    <2>5. QED BY <2>4
  <1>2. Is(after, Len(actions)) BY <1>1 DEF AfterDestinations
  <1> HIDE DEF after, Step, start
  <1>3. after[0] = start BY <1>2
  <1>4. ASSUME NEW m \in 0 .. Len(actions) - 1 PROVE after[m + 1] = Step(after[m], m + 1)
    <2>1. m + 1 \in 0 .. Len(actions) /\ m + 1 # 0 /\ (m + 1) - 1 = m OBVIOUS
    <2>2. QED BY <1>2, <2>1
  <1> USE DEF after, Step, start
  <1>5. QED BY <1>3, <1>4

(* What the moves of the first m actions make of a disk *)

\* Those of the first m actions that move the disk n.
Moving(r, n, m) == {k \in 1 .. m : n \in Moved(r.actions[k])}

\* Where the last of them moves it.
LastMove(r, n, m) ==
  IF Moving(r, n, m) = {} THEN None ELSE r.actions[Max(Moving(r, n, m))].moves[n]

\* What a request and an answer of the server consist of.
LEMMA RequestType ==
  ASSUME NEW r, IsRequested(r), IsOffered(r)
  PROVE  /\ Len(r.disks) \in Nat /\ DOMAIN r.disks = 1 .. Len(r.disks)
         /\ \A n \in DOMAIN r.disks : r.disks[n] \in DiskType
         /\ Len(r.actions) \in Nat /\ DOMAIN r.actions = 1 .. Len(r.actions)
         /\ \A m \in 1 .. Len(r.actions) : IsAction(r.actions[m])
         /\ None \notin Datastores /\ None \notin Policies
  BY StoragePlacementAssumption DEF IsRequested, IsOffered, IsList

\* After the first loop, every disk is where the last action that moves it says.
LEMMA MovesAre ==
  ASSUME NEW r, IsRequested(r), IsOffered(r)
  PROVE  AfterMoves(r.actions, Len(r.disks))[Len(r.actions)] =
           [n \in 1 .. Len(r.disks) |-> LastMove(r, n, Len(r.actions))]
  <1> DEFINE N == Len(r.actions)
             count == Len(r.disks)
             after == AfterMoves(r.actions, count)
             Turn(m) == after[m] = [n \in 1 .. count |-> LastMove(r, n, m)]
  <1>1. N \in Nat BY RequestType
  <1>2. after[0] = [n \in 1 .. count |-> None]
        /\ \A m \in 0 .. N - 1 : after[m + 1] = WithMoves(after[m], r.actions[m + 1])
    BY <1>1, MovesTurn
  <1> HIDE DEF after, count, N
  <1>3. Turn(0)
    <2>1. \A n \in 1 .. count : Moving(r, n, 0) = {} BY DEF Moving
    <2>2. QED BY <1>2, <2>1 DEF LastMove
  <1>4. ASSUME NEW m \in 0 .. N - 1, Turn(m) PROVE Turn(m + 1)
    <2> DEFINE a == r.actions[m + 1]
    <2>1. after[m + 1] = [n \in 1 .. count |-> IF n \in Moved(a) THEN a.moves[n] ELSE LastMove(r, n, m)]
      <3>1. after[m + 1] = WithMoves(after[m], a) BY <1>2
      <3>2. DOMAIN after[m] = 1 .. count /\ \A n \in 1 .. count : after[m][n] = LastMove(r, n, m)
        BY <1>4
      <3> HIDE DEF Turn, a
      <3>3. WithMoves(after[m], a) =
              [n \in 1 .. count |-> IF n \in Moved(a) THEN a.moves[n] ELSE LastMove(r, n, m)]
        BY <3>2 DEF WithMoves
      <3>4. QED BY <3>1, <3>3
    <2>2. ASSUME NEW n \in 1 .. count
          PROVE  LastMove(r, n, m + 1) = IF n \in Moved(a) THEN a.moves[n] ELSE LastMove(r, n, m)
      <3>1. CASE n \in Moved(a)
        <4>1. m + 1 \in Moving(r, n, m + 1) /\ Moving(r, n, m + 1) \subseteq 0 .. m + 1
          BY <3>1 DEF Moving
        <4>2. m + 1 \in Nat BY <1>1
        <4>3. Max(Moving(r, n, m + 1)) \in Moving(r, n, m + 1)
              /\ m + 1 <= Max(Moving(r, n, m + 1))
          BY <4>1, <4>2, MaxIs
        <4>4. Max(Moving(r, n, m + 1)) = m + 1 BY <4>1, <4>2, <4>3
        <4>5. QED BY <3>1, <4>1, <4>4 DEF LastMove
      <3>2. CASE n \notin Moved(a)
        <4>1. Moving(r, n, m + 1) = Moving(r, n, m) BY <1>1, <3>2 DEF Moving
        <4>2. QED BY <3>2, <4>1 DEF LastMove
      <3>3. QED BY <3>1, <3>2
    <2>3. QED BY <2>1, <2>2
  <1>5. Turn(N)
    <2> HIDE DEF Turn
    <2> DEFINE T == {m \in 0 .. N : Turn(m)}
    <2>1. 0 \in T /\ \A m \in 0 .. N - 1 : m \in T => m + 1 \in T BY <1>1, <1>3, <1>4
    <2> HIDE DEF T
    <2>2. \A m \in 0 .. N : m \in T BY <1>1, <2>1, BoundedInduction
    <2>3. QED BY <1>1, <2>2 DEF T
  <1>6. QED BY <1>5 DEF after, count, N

(* What the destinations of the first m actions make of the disks *)

\* The disks that no action moves.
Unmoved(r) == {n \in 1 .. Len(r.disks) : Moving(r, n, Len(r.actions)) = {}}
\* The actions that name a destination only.
Bares(r) == {l \in 1 .. Len(r.actions) : Bare(r.actions[l])}

\* The disks that have taken a destination, each that of the action of its rank.
Destined(r, m) == {n \in Unmoved(r) : AfterDestinations(r.actions, Len(r.disks))[m][n] # None}

\* The disk n has the destination of the action whose rank among the bare ones is
\* that of n among the unmoved disks.
DestinationOf(r, n, m) ==
  \E k \in Bares(r) : /\ k <= m
                       /\ AfterDestinations(r.actions, Len(r.disks))[m][n] = r.actions[k].destination
                       /\ Cardinality(UpTo(Unmoved(r), n)) = Cardinality(UpTo(Bares(r), k))

\* What holds after m actions of the second loop: the unmoved disks take destinations
\* in their order, and as many as there were as long as a disk is left over.
DestinationsTaken(r, m) ==
  LET result == AfterDestinations(r.actions, Len(r.disks))[m]
  IN /\ result \in [1 .. Len(r.disks) -> Datastores \cup {None}]
     /\ \A n \in (1 .. Len(r.disks)) \ Unmoved(r) : result[n] = LastMove(r, n, Len(r.actions))
     /\ \A n \in Destined(r, m), j \in Unmoved(r) : j < n => j \in Destined(r, m)
     /\ \A n \in Destined(r, m) : DestinationOf(r, n, m)
     /\ Unresolved(result) # {} => Cardinality(Destined(r, m)) = Cardinality(UpTo(Bares(r), m))

\* A disk is moved to a datastore, or not at all if no action moves it.
LEMMA LastMoveType ==
  ASSUME NEW r, IsRequested(r), IsOffered(r), NEW n
  PROVE  /\ LastMove(r, n, Len(r.actions)) \in Datastores \cup {None}
         /\ LastMove(r, n, Len(r.actions)) = None <=> Moving(r, n, Len(r.actions)) = {}
  <1> DEFINE N == Len(r.actions)
             S == Moving(r, n, N)
  <1>1. N \in Nat /\ None \notin Datastores BY RequestType
  <1>2. CASE S = {} BY <1>2 DEF LastMove
  <1>3. CASE S # {}
    <2>1. S \subseteq 0 .. N BY DEF Moving
    <2>2. Max(S) \in S
      <3> HIDE DEF S, N
      <3>1. QED BY <1>1, <1>3, <2>1, MaxIs
    <2>3. Max(S) \in 1 .. N /\ n \in Moved(r.actions[Max(S)]) BY <2>2 DEF Moving
    <2>4. r.actions[Max(S)].moves[n] \in Datastores BY <2>3, RequestType DEF IsAction
    <2>5. QED BY <1>1, <1>3, <2>4 DEF LastMove
  <1>4. QED BY <1>2, <1>3

\* Before the second loop, no disk has taken a destination.
LEMMA NoDestinationsTaken ==
  ASSUME NEW r, IsRequested(r), IsOffered(r)
  PROVE  DestinationsTaken(r, 0)
  <1> DEFINE result == AfterDestinations(r.actions, Len(r.disks))[0]
             N == Len(r.actions)
  <1>1. N \in Nat BY RequestType
  <1>2. result = [n \in 1 .. Len(r.disks) |-> LastMove(r, n, N)]
    <2>1. result = AfterMoves(r.actions, Len(r.disks))[N] BY <1>1, DestinationsTurn
    <2>2. QED BY <2>1, MovesAre
  <1>3. result \in [1 .. Len(r.disks) -> Datastores \cup {None}] BY <1>2, LastMoveType
  <1>4. Destined(r, 0) = {}
    <2>1. \A n \in Unmoved(r) : result[n] = None BY <1>2, LastMoveType DEF Unmoved
    <2>2. QED BY <2>1 DEF Destined
  <1>5. \A l \in Bares(r) : l \in Nat /\ l # 0 BY <1>1 DEF Bares
  <1>6. Cardinality(Destined(r, 0)) = 0 /\ Cardinality(UpTo(Bares(r), 0)) = 0
    BY <1>4, <1>5, FS_EmptySet, CountUpTo
  <1>7. QED
    <2> HIDE DEF N
    <2>1. \A n \in 1 .. Len(r.disks) : result[n] = LastMove(r, n, Len(r.actions)) BY <1>2 DEF N
    <2> HIDE DEF result
    <2>2. QED BY <1>3, <1>4, <1>6, <2>1 DEF DestinationsTaken, result

\* One action of the second loop keeps what holds.
LEMMA DestinationTaken ==
  ASSUME NEW r, IsRequested(r), IsOffered(r), NEW m \in 0 .. Len(r.actions) - 1,
         DestinationsTaken(r, m)
  PROVE  DestinationsTaken(r, m + 1)
  <1> DEFINE after == AfterDestinations(r.actions, Len(r.disks))
             result == after[m]
             next == after[m + 1]
             a == r.actions[m + 1]
             U == Unmoved(r)
             B == Bares(r)
             done == Destined(r, m)
             count == Len(r.disks)
  <1>1. m \in Nat /\ m + 1 \in 1 .. Len(r.actions) /\ Len(r.actions) \in Nat /\ count \in Nat
        /\ None \notin Datastores /\ IsAction(a)
    BY RequestType
  <1>2. next = WithDestination(result, a) BY <1>1, DestinationsTurn
  <1>3. /\ result \in [1 .. count -> Datastores \cup {None}]
        /\ \A n \in (1 .. count) \ U : result[n] = LastMove(r, n, Len(r.actions))
        /\ \A n \in done, j \in U : j < n => j \in done
        /\ \A n \in done : DestinationOf(r, n, m)
        /\ Unresolved(result) # {} => Cardinality(done) = Cardinality(UpTo(B, m))
    BY DEF DestinationsTaken
  <1>4. \A l \in B : l \in Nat /\ l # 0 BY <1>1 DEF Bares
  <1>5. \A n \in U : n \in 1 .. count BY DEF Unmoved
  <1>6. done = {n \in U : result[n] # None} /\ Destined(r, m + 1) = {n \in U : next[n] # None}
    BY DEF Destined
  <1>7. CASE next = result /\ (Unresolved(result) = {} \/ m + 1 \notin B)
    <2>1. Destined(r, m + 1) = done BY <1>6, <1>7
    <2>2. ASSUME NEW n \in done PROVE DestinationOf(r, n, m + 1)
      <3>1. PICK k \in B : /\ k <= m /\ result[n] = r.actions[k].destination
                           /\ Cardinality(UpTo(U, n)) = Cardinality(UpTo(B, k))
        BY <1>3 DEF DestinationOf
      <3>2. k <= m + 1 BY <1>1, <1>4, <3>1
      <3>3. next[n] = r.actions[k].destination BY <1>7, <3>1
      <3> HIDE DEF next, result, done
      <3>4. QED BY <3>1, <3>2, <3>3 DEF DestinationOf, next
    <2>3. Unresolved(next) # {} => Cardinality(done) = Cardinality(UpTo(B, m + 1))
      <3>1. m + 1 \notin B => UpTo(B, m + 1) = UpTo(B, m) BY <1>1, <1>4, CountUpTo
      <3>2. QED BY <1>3, <1>7, <3>1
    <2> HIDE DEF done, result
    <2>4. QED BY <1>3, <1>7, <2>1, <2>2, <2>3 DEF DestinationsTaken
  <1>8. CASE Bare(a) /\ Unresolved(result) # {}
    <2> DEFINE x == Min(Unresolved(result))
    <2>1. next = [result EXCEPT ![x] = a.destination] BY <1>2, <1>8 DEF WithDestination
    <2>2. x \in 1 .. count /\ result[x] = None /\ \A y \in Unresolved(result) : x <= y
      <3>1. Unresolved(result) \subseteq 1 .. count /\ \A y \in Unresolved(result) : result[y] = None
        BY <1>3 DEF Unresolved
      <3>2. Unresolved(result) \subseteq Nat BY <1>1, <3>1
      <3>3. x \in Unresolved(result) /\ \A y \in Unresolved(result) : x <= y
        BY <1>8, <3>2, MinIs
      <3>4. QED BY <3>1, <3>3
    <2> HIDE DEF x
    <2>3. a.destination \in Datastores BY <1>1, <1>8 DEF Bare, IsAction
    <2>4. x \in U
      <3>1. x \notin U => Moving(r, x, Len(r.actions)) # {} BY <2>2 DEF Unmoved
      <3>2. x \notin U => LastMove(r, x, Len(r.actions)) # None BY <3>1, LastMoveType
      <3>3. QED BY <1>3, <2>2, <3>2
    <2>5. next[x] = a.destination /\ (\A n \in 1 .. count : n # x => next[n] = result[n])
          /\ next \in [1 .. count -> Datastores \cup {None}]
      BY <1>3, <2>1, <2>2, <2>3
    <2>6. x \notin done /\ Destined(r, m + 1) = done \cup {x}
      <3>1. next[x] # None BY <1>1, <2>3, <2>5
      <3>2. QED BY <1>5, <1>6, <2>2, <2>4, <2>5, <3>1
    <2>7. \A j \in U : j < x => j \in done
      <3> SUFFICES ASSUME NEW j \in U, j < x, result[j] = None PROVE FALSE BY <1>6
      <3>1. j \in Unresolved(result) BY <1>3, <1>5 DEF Unresolved
      <3>2. x <= j BY <2>2, <3>1
      <3>3. QED BY <1>5, <2>2, <3>2
    <2>8. \A j \in done : j < x
      <3> SUFFICES ASSUME NEW j \in done, ~(j < x) PROVE FALSE OBVIOUS
      <3>1. j \in 1 .. count /\ j # x BY <1>5, <1>6, <2>6
      <3>2. x < j BY <2>2, <3>1
      <3>3. x \in done BY <1>3, <2>4, <3>2
      <3>4. QED BY <2>6, <3>3
    <2>9. UpTo(U, x) = done \cup {x}
      <3>1. \A j \in UpTo(U, x) : j \in done \cup {x}
        <4> SUFFICES ASSUME NEW j \in U, j <= x, j # x PROVE j \in done BY DEF UpTo
        <4>1. j < x BY <1>5, <2>2
        <4>2. QED BY <2>7, <4>1
      <3>2. \A j \in done \cup {x} : j \in UpTo(U, x)
        <4>1. \A j \in done : j \in U /\ j <= x BY <1>5, <1>6, <2>2, <2>8
        <4>2. x <= x BY <2>2
        <4>3. QED BY <2>4, <4>1, <4>2 DEF UpTo
      <3>3. QED BY <3>1, <3>2
    <2>10. Cardinality(done \cup {x}) = Cardinality(UpTo(B, m + 1))
      <3>1. m + 1 \in B BY <1>1, <1>8 DEF Bares
      <3>2. Cardinality(UpTo(B, m + 1)) = Cardinality(UpTo(B, m)) + 1 BY <1>1, <1>4, <3>1, CountUpTo
      <3>3. IsFiniteSet(done)
        <4>1. done \subseteq 1 .. count BY <1>5, <1>6
        <4>2. IsFiniteSet(1 .. count) BY <1>1, IntervalIsFinite
        <4>3. QED BY <4>1, <4>2, FS_Subset
      <3>4. Cardinality(done \cup {x}) = Cardinality(done) + 1 BY <2>6, <3>3, FS_AddElement
      <3>5. QED BY <1>3, <1>8, <3>2, <3>4
    <2>11. ASSUME NEW n \in done \cup {x} PROVE DestinationOf(r, n, m + 1)
      <3>1. CASE n = x
        <4>1. m + 1 \in B /\ m + 1 <= m + 1 BY <1>1, <1>8 DEF Bares
        <4>2. Cardinality(UpTo(U, n)) = Cardinality(UpTo(B, m + 1)) BY <2>9, <2>10, <3>1
        <4>3. next[n] = r.actions[m + 1].destination BY <2>5, <3>1
        <4> HIDE DEF next
        <4>4. QED BY <4>1, <4>2, <4>3 DEF DestinationOf, next
      <3>2. CASE n \in done /\ n # x
        <4>1. PICK k \in B : /\ k <= m /\ result[n] = r.actions[k].destination
                             /\ Cardinality(UpTo(U, n)) = Cardinality(UpTo(B, k))
          BY <1>3, <3>2 DEF DestinationOf
        <4>2. k <= m + 1 BY <1>1, <1>4, <4>1
        <4>3. next[n] = r.actions[k].destination BY <1>5, <1>6, <2>5, <3>2, <4>1
        <4> HIDE DEF next, result, done
        <4>4. QED BY <4>1, <4>2, <4>3 DEF DestinationOf, next
      <3>3. QED BY <3>1, <3>2
    <2>12. \A n \in (1 .. count) \ U : next[n] = LastMove(r, n, Len(r.actions))
      BY <1>3, <2>4, <2>5
    <2>13. \A n \in done \cup {x}, j \in U : j < n => j \in done \cup {x}
      BY <1>3, <2>7
    <2> HIDE DEF done, result, next
    <2>14. QED BY <2>5, <2>6, <2>10, <2>11, <2>12, <2>13 DEF DestinationsTaken, next
  <1>9. QED
    <2>1. m + 1 \in B <=> Bare(a) BY <1>1 DEF Bares
    <2>2. ~Bare(a) \/ Unresolved(result) = {} => next = result BY <1>2 DEF WithDestination
    <2>3. QED BY <1>7, <1>8, <2>1, <2>2

\* The loops leave each disk what is recommended for it.
LEMMA RecommendationIs ==
  ASSUME NEW r, IsRequested(r), IsOffered(r)
  PROVE  LET result == AfterDestinations(r.actions, Len(r.disks))[Len(r.actions)]
         IN /\ result \in [1 .. Len(r.disks) -> Datastores \cup {None}]
            /\ \A n \in 1 .. Len(r.disks) : result[n] = Recommended(r, n)
  <1> DEFINE N == Len(r.actions)
             count == Len(r.disks)
             result == AfterDestinations(r.actions, count)[N]
             U == Unmoved(r)
             B == Bares(r)
             done == Destined(r, N)
  <1>1. N \in Nat /\ count \in Nat /\ DOMAIN r.actions = 1 .. N /\ None \notin Datastores
    BY RequestType
  <1>2. DestinationsTaken(r, N)
    <2> DEFINE T == {m \in 0 .. N : DestinationsTaken(r, m)}
    <2>1. 0 \in T BY <1>1, NoDestinationsTaken
    <2>2. \A m \in 0 .. N - 1 : m \in T => m + 1 \in T BY <1>1, DestinationTaken
    <2> HIDE DEF T, N
    <2>3. \A m \in 0 .. N : m \in T BY <1>1, <2>1, <2>2, BoundedInduction
    <2>4. QED BY <1>1, <2>3 DEF T
  <1>3. /\ result \in [1 .. count -> Datastores \cup {None}]
        /\ \A n \in (1 .. count) \ U : result[n] = LastMove(r, n, N)
        /\ \A n \in done, j \in U : j < n => j \in done
        /\ \A n \in done : DestinationOf(r, n, N)
        /\ Unresolved(result) # {} => Cardinality(done) = Cardinality(UpTo(B, N))
    BY <1>2 DEF DestinationsTaken
  <1>4. (\A l \in B : l \in Nat /\ l # 0 /\ l <= N) /\ (\A n \in U : n \in 1 .. count /\ n \in Nat /\ n # 0)
    BY <1>1 DEF Bares, Unmoved
  <1>5. done = {n \in U : result[n] # None} BY DEF Destined
  <1>6. ASSUME NEW n \in 1 .. count PROVE result[n] = Recommended(r, n)
    <2> DEFINE moving == {m \in DOMAIN r.actions : n \in Moved(r.actions[m])}
               mine == {m \in B : Cardinality(UpTo(B, m)) = Cardinality(UpTo(U, n))}
    <2>1. moving = Moving(r, n, N) BY <1>1 DEF Moving
    <2>2. Recommended(r, n) = IF moving # {} THEN r.actions[Max(moving)].moves[n]
                              ELSE IF mine # {} THEN r.actions[Min(mine)].destination ELSE None
      <3>1. B = {m \in DOMAIN r.actions : Bare(r.actions[m])} BY <1>1 DEF Bares
      <3>2. UpTo(U, n) = {k \in 1 .. n : {m \in DOMAIN r.actions : k \in Moved(r.actions[m])} = {}}
        BY <1>1 DEF UpTo, Unmoved, Moving
      <3> HIDE DEF B, U
      <3>3. QED BY <3>1, <3>2 DEF Recommended, UpTo
    <2> HIDE DEF moving, mine, result, done
    <2>3. CASE moving # {}
      <3>1. n \notin U BY <2>1, <2>3 DEF Unmoved
      <3>2. result[n] = LastMove(r, n, N) BY <1>3, <3>1
      <3>3. QED BY <2>1, <2>2, <2>3, <3>2 DEF LastMove
    <2>4. CASE moving = {} /\ n \in done
      <3>1. PICK k \in B : /\ k <= N /\ result[n] = r.actions[k].destination
                           /\ Cardinality(UpTo(U, n)) = Cardinality(UpTo(B, k))
        BY <1>3, <2>4 DEF DestinationOf, result
      <3>2. k \in mine BY <3>1 DEF mine
      <3>3. ASSUME NEW m \in mine PROVE m = k
        <4>1. m \in B /\ Cardinality(UpTo(B, m)) = Cardinality(UpTo(B, k)) BY <3>1 DEF mine
        <4>2. m \in Nat /\ k \in Nat BY <1>4, <4>1
        <4>3. ~(m < k) /\ ~(k < m)
          <5>1. Cardinality(UpTo(B, m)) \in Nat BY <1>4, <4>2, CountUpTo
          <5>2. m < k => Cardinality(UpTo(B, m)) < Cardinality(UpTo(B, k))
            BY <1>4, <3>1, <4>2, CountGrows
          <5>3. k < m => Cardinality(UpTo(B, k)) < Cardinality(UpTo(B, m))
            BY <1>4, <4>1, <4>2, CountGrows
          <5>4. QED BY <4>1, <5>1, <5>2, <5>3
        <4>4. QED BY <4>2, <4>3
      <3>4. mine \subseteq Nat /\ mine # {} BY <1>4, <3>2 DEF mine
      <3>5. Min(mine) \in mine BY <3>4, MinIs
      <3>6. Min(mine) = k BY <3>3, <3>5
      <3>7. QED BY <2>2, <2>4, <3>1, <3>4, <3>6
    <2>5. CASE moving = {} /\ n \notin done
      <3>1. n \in U BY <2>1, <2>5 DEF Unmoved
      <3>2. result[n] = None BY <1>5, <2>5, <3>1
      <3>3. Cardinality(done) = Cardinality(UpTo(B, N))
        <4>1. n \in Unresolved(result) BY <1>3, <3>2 DEF Unresolved
        <4>2. QED BY <1>3, <4>1
      <3>4. done \subseteq UpTo(U, n) /\ n \in UpTo(U, n)
        <4>1. \A j \in done : j \in U /\ ~(n < j) BY <1>3, <1>5, <2>5, <3>1
        <4>2. \A j \in done : j <= n BY <1>4, <4>1
        <4>3. n <= n OBVIOUS
        <4>4. QED BY <3>1, <4>1, <4>2, <4>3 DEF UpTo
      <3>5. Cardinality(done) < Cardinality(UpTo(U, n))
        <4>1. IsFiniteSet(UpTo(U, n)) /\ Cardinality(UpTo(U, n)) \in Nat
          <5>1. n \in Nat /\ \A x \in U : x \in Nat /\ x # 0 BY <1>1, <1>4
          <5> HIDE DEF U
          <5>2. QED BY <5>1, CountUpTo
        <4>2. IsFiniteSet(done) /\ Cardinality(done) <= Cardinality(UpTo(U, n))
              /\ (Cardinality(done) = Cardinality(UpTo(U, n)) => UpTo(U, n) = done)
          BY <3>4, <4>1, FS_Subset
        <4>3. Cardinality(done) \in Nat BY <4>2, FS_CardinalityType
        <4>4. Cardinality(done) # Cardinality(UpTo(U, n)) BY <2>5, <3>4, <4>2
        <4>5. QED BY <4>1, <4>2, <4>3, <4>4
      <3>6. ASSUME NEW m \in mine PROVE FALSE
        <4>1. m \in B /\ Cardinality(UpTo(B, m)) = Cardinality(UpTo(U, n)) BY DEF mine
        <4>2. UpTo(B, m) \subseteq UpTo(B, N)
          <5>1. \A l \in B : l <= m => l <= N BY <1>4
          <5>2. QED BY <5>1 DEF UpTo
        <4>3. IsFiniteSet(UpTo(B, N)) /\ Cardinality(UpTo(B, N)) \in Nat BY <1>1, <1>4, CountUpTo
        <4>4. Cardinality(UpTo(B, m)) <= Cardinality(UpTo(B, N)) /\ IsFiniteSet(UpTo(B, m))
          BY <4>2, <4>3, FS_Subset
        <4>5. Cardinality(UpTo(B, m)) \in Nat BY <4>4, FS_CardinalityType
        <4> HIDE DEF U, B, N
        <4>6. QED BY <3>3, <3>5, <4>1, <4>3, <4>4, <4>5
      <3>7. mine = {} BY <3>6
      <3>8. QED BY <2>2, <2>5, <3>2, <3>7
    <2>6. QED BY <2>3, <2>4, <2>5
  <1>7. QED BY <1>3, <1>6

(* The order in which the disks are attached *)

\* Every disk has one place in the order of attachment.
LEMMA AttachOrderIs ==
  ASSUME NEW r, IsRequested(r), IsOffered(r)
  PROVE  DOMAIN AttachOrder(r) = 1 .. Len(r.disks)
  <1> DEFINE indices == [i \in DOMAIN r.disks |-> i]
             explicit == {i \in DOMAIN r.disks : r.disks[i].explicit}
  <1>1. Len(r.disks) \in Nat /\ DOMAIN r.disks = 1 .. Len(r.disks) BY RequestType
  <1>2. indices \in Seq(Nat) /\ Len(indices) = Len(r.disks) BY <1>1
  <1>3. ToSet(indices) = DOMAIN r.disks BY <1>1 DEF ToSet
  <1>4. IsList(indices) BY <1>1, <1>3 DEF IsList
  <1> HIDE DEF indices, explicit
  <1>5. Kept(indices, explicit) \in Seq(DOMAIN r.disks)
        /\ Kept(indices, DOMAIN r.disks \ explicit) \in Seq(DOMAIN r.disks)
    BY <1>3, <1>4, KeptIs
  <1>6. Len(Kept(indices, DOMAIN r.disks \ explicit)) + Len(Kept(indices, explicit)) = Len(r.disks)
    BY <1>2, <1>3, <1>4, KeptLengths
  <1>7. AttachOrder(r) = Kept(indices, DOMAIN r.disks \ explicit) \o Kept(indices, explicit)
    BY DEF AttachOrder, indices, explicit
  <1>8. Len(AttachOrder(r)) = Len(r.disks) /\ DOMAIN AttachOrder(r) = 1 .. Len(AttachOrder(r))
    BY <1>5, <1>6, <1>7
  <1>9. QED BY <1>8

(* The property *)

\* What the disks left over are given is what another disk has.
LEMMA FilledIs ==
  ASSUME NEW count \in Nat, NEW result \in [1 .. count -> Datastores \cup {None}]
  PROVE  \/ Filled(result) = << >> /\ \A n \in 1 .. count : result[n] = None
         \/ /\ DOMAIN Filled(result) = 1 .. count
            /\ \A n \in 1 .. count : Filled(result)[n] # None
            /\ \A n \in 1 .. count : result[n] # None => Filled(result)[n] = result[n]
            /\ \A n \in 1 .. count : \E m \in 1 .. count : Filled(result)[n] = result[m]
  <1> DEFINE resolved == 1 .. count \ Unresolved(result)
  <1>1. resolved = {n \in 1 .. count : result[n] # None} /\ DOMAIN result = 1 .. count
    BY DEF Unresolved
  <1>2. CASE resolved = {} BY <1>1, <1>2 DEF Filled
  <1>3. CASE resolved # {}
    <2>1. resolved \subseteq Nat BY <1>1
    <2>2. Min(resolved) \in resolved
      <3> HIDE DEF resolved
      <3>1. QED BY <1>3, <2>1, MinIs
    <2>3. Filled(result) = [n \in 1 .. count |-> IF n \in resolved THEN result[n] ELSE result[Min(resolved)]]
      BY <1>1, <1>3 DEF Filled
    <2> HIDE DEF resolved
    <2>4. QED BY <1>1, <2>2, <2>3
  <1>4. QED BY <1>2, <1>3

\* Several disks in a cluster are placed as Storage DRS recommends.
LEMMA SeveralPlaced ==
  ASSUME NEW r, IsRequested(r), IsOffered(r), r.useCluster, Len(r.disks) > 1, r.cluster # << >>,
         NEW primary
  PROVE  LET multi == MultiDiskPlacement(r, primary)
             recommended == {Recommended(r, n) : n \in 1 .. Len(r.disks)} \ {None}
         IN /\ DOMAIN multi = 1 .. Len(r.disks) /\ multi # << >>
            /\ \A n \in 1 .. Len(r.disks) :
                 \/ multi[n] = Recommended(r, n)
                 \/ Recommended(r, n) = None /\ multi[n] \in recommended
                 \/ recommended = {} /\ multi[n] \in ToSet(r.cluster)
  <1> DEFINE count == Len(r.disks)
             result == AfterDestinations(r.actions, count)[Len(r.actions)]
             recommended == {Recommended(r, n) : n \in 1 .. count} \ {None}
             first == [n \in DOMAIN r.disks |-> r.cluster[1]]
             selected == OrElse(Filled(result), first)
  <1>1. count \in Nat /\ count > 1 /\ DOMAIN r.disks = 1 .. count /\ count \in 1 .. count
    BY RequestType
  <1>2. result \in [1 .. count -> Datastores \cup {None}]
        /\ \A n \in 1 .. count : result[n] = Recommended(r, n)
    BY RecommendationIs
  <1>3. SelectDatastoresForDisks(r) = selected
    BY DEF SelectDatastoresForDisks, DatastoresForNewDisks
  <1>4. r.cluster[1] \in ToSet(r.cluster)
    <2>1. r.cluster \in Seq(Datastores) BY DEF IsOffered
    <2>2. 1 \in DOMAIN r.cluster BY <2>1
    <2>3. QED BY <2>2 DEF ToSet
  <1> HIDE DEF result
  <1>5. DOMAIN selected = 1 .. count
        /\ \A n \in 1 .. count :
             \/ selected[n] = Recommended(r, n)
             \/ Recommended(r, n) = None /\ selected[n] \in recommended
             \/ recommended = {} /\ selected[n] \in ToSet(r.cluster)
    <2>1. CASE Filled(result) = << >> /\ \A n \in 1 .. count : result[n] = None
      <3>1. selected = first BY <2>1 DEF OrElse
      <3>2. DOMAIN first = 1 .. count /\ \A n \in 1 .. count : first[n] \in ToSet(r.cluster)
        BY <1>1, <1>4
      <3>3. recommended = {} BY <1>2, <2>1
      <3> HIDE DEF first, recommended
      <3>4. QED BY <3>1, <3>2, <3>3
    <2>2. CASE /\ DOMAIN Filled(result) = 1 .. count
               /\ \A n \in 1 .. count : Filled(result)[n] # None
               /\ \A n \in 1 .. count : result[n] # None => Filled(result)[n] = result[n]
               /\ \A n \in 1 .. count : \E m \in 1 .. count : Filled(result)[n] = result[m]
      <3>1. Filled(result) # << >> BY <1>1, <2>2
      <3>2. selected = Filled(result) BY <3>1 DEF OrElse
      <3>3. ASSUME NEW n \in 1 .. count, Recommended(r, n) = None
            PROVE  selected[n] \in recommended
        <4>1. PICK m \in 1 .. count : Filled(result)[n] = result[m] BY <2>2
        <4>2. selected[n] = Recommended(r, m) /\ selected[n] # None BY <1>2, <2>2, <3>2, <4>1
        <4> HIDE DEF selected
        <4>3. QED BY <4>2
      <3>4. \A n \in 1 .. count : Recommended(r, n) # None => selected[n] = Recommended(r, n)
        BY <1>2, <2>2, <3>2
      <3>5. DOMAIN selected = 1 .. count BY <2>2, <3>2
      <3> HIDE DEF selected, recommended
      <3>6. QED BY <3>3, <3>4, <3>5
    <2>3. QED BY ZenonT(30), <1>1, <1>2, <2>1, <2>2, FilledIs
  <1> HIDE DEF selected, recommended
  <1>6. selected # << >> BY <1>1, <1>5
  <1>7. MultiDiskPlacement(r, primary) = selected
    <2>1. ~(Len(r.disks) <= 1) BY <1>1
    <2>2. QED BY <1>3, <1>6, <2>1 DEF MultiDiskPlacement, OrElse
  <1>8. QED BY <1>5, <1>6, <1>7 DEF recommended

\* Every placement, of one disk or several, in a cluster or not, is as recommended.
LEMMA PlacedWell ==
  ASSUME NEW r, IsRequested(r), IsOffered(r)
  PROVE  PlacedAsRecommended(r)
  <1> DEFINE count == Len(r.disks)
             step == StepResolveDatastore(r)
             multi == MultiDiskPlacement(r, step.datastore)
             policies == PolicyPlacement(r, step)
             home == IF multi # << >> /\ r.cluster # << >> THEN multi[1] ELSE step.datastore
             disks == OrElse(multi, policies)
             p == PlacedOn(r, step, home, disks)
             recommended == {Recommended(r, n) : n \in DOMAIN AttachOrder(r)} \ {None}
  <1>1. count \in Nat /\ DOMAIN r.disks = 1 .. count /\ DOMAIN AttachOrder(r) = 1 .. count
        /\ (\A n \in 1 .. count : r.disks[n] \in DiskType) /\ None \notin Datastores
    BY RequestType, AttachOrderIs
  <1>2. Placement(r) = p BY DEF Placement, PlacementAfter
  <1>3. /\ p.ok => step.ok /\ (home = None => r.useCluster)
        /\ p.home = home
        /\ p.disks = [i \in 1 .. count |-> IF disks = << >> THEN home ELSE disks[i]]
    BY <1>1 DEF PlacedOn
  <1>4. r.datastore \in Datastores \cup {None} /\ r.useCluster \in BOOLEAN
        /\ (r.useCluster => r.datastore = None)
    BY DEF IsRequested
  <1> HIDE DEF p, step
  <1>5. CASE r.datastore # None
    <2>1. ~r.useCluster BY <1>4, <1>5
    <2>2. multi = << >> BY <2>1 DEF MultiDiskPlacement
    <2>3. policies = << >> BY <1>5 DEF PolicyPlacement
    <2>4. disks = << >> BY <2>2, <2>3 DEF OrElse
    <2>5. home = r.datastore BY <1>5, <2>2 DEF step, StepResolveDatastore
    <2> HIDE DEF multi, policies, disks, home
    <2>6. \A i \in DOMAIN p.disks : p.disks[i] = r.datastore BY <1>3, <2>4, <2>5
    <2>7. QED BY <1>2, <1>5, <2>1, <2>6 DEF PlacedAsRecommended, IsAsRecommended
  <1>6. CASE r.datastore = None /\ r.useCluster
    <2> SUFFICES ASSUME p.ok, count > 1
                 PROVE  /\ \A n \in 1 .. count :
                             \/ p.disks[n] = Recommended(r, n)
                             \/ Recommended(r, n) = None /\ p.disks[n] \in recommended
                             \/ recommended = {} /\ p.disks[n] \in ToSet(r.cluster)
                        /\ p.home = p.disks[1]
      <3> HIDE DEF count
      <3>1. (\A n \in DOMAIN AttachOrder(r) : AttachOrder(r)[n] = n) =>
              \A n \in DOMAIN AttachOrder(r) : p.disks[AttachOrder(r)[n]] = p.disks[n]
        OBVIOUS
      <3>2. QED BY SMTT(20), <1>1, <1>2, <1>6, <3>1 DEF PlacedAsRecommended, IsAsRecommended, count
    <2>1. r.cluster # << >> BY <1>3, <1>6 DEF step, StepResolveDatastore
    <2>2. /\ DOMAIN multi = 1 .. count /\ multi # << >>
          /\ \A n \in 1 .. count :
               \/ multi[n] = Recommended(r, n)
               \/ Recommended(r, n) = None /\ multi[n] \in recommended
               \/ recommended = {} /\ multi[n] \in ToSet(r.cluster)
      BY <1>1, <1>6, <2>1, SeveralPlaced
    <2>3. disks = multi /\ home = multi[1] BY <2>1, <2>2 DEF OrElse
    <2>4. 1 \in 1 .. count BY <1>1
    <2> HIDE DEF multi, disks, home, recommended, count
    <2>5. \A n \in 1 .. count : p.disks[n] = multi[n] BY <1>3, <2>2, <2>3
    <2>6. QED BY <1>3, <2>2, <2>3, <2>4, <2>5
  <1>7. CASE r.datastore = None /\ ~r.useCluster
    <2> SUFFICES ASSUME NEW i \in 1 .. count, r.disks[i].policy # None
                 PROVE  p.disks[i] = r.compatible[r.disks[i].policy]
      BY <1>1, <1>2, <1>3, <1>7 DEF PlacedAsRecommended, IsAsRecommended
    <2> DEFINE with == {n \in DOMAIN r.disks : r.disks[n].policy # None}
    <2>1. multi = << >> BY <1>7 DEF MultiDiskPlacement
    <2>2. FirstPolicy(r) # None
      <3>1. i \in with /\ with \subseteq Nat BY <1>1
      <3>2. Min(with) \in with
        <4> HIDE DEF with
        <4>1. QED BY <3>1, MinIs
      <3>3. QED BY <3>1, <3>2 DEF FirstPolicy
    <2>3. step.policy = FirstPolicy(r) /\ step.datastore = r.compatible[FirstPolicy(r)]
      BY <1>7, <2>2 DEF step, StepResolveDatastore
    <2>4. policies = [n \in 1 .. count |-> ForPolicy(r, step, r.disks[n].policy)]
      BY <1>1, <1>7, <2>2 DEF PolicyPlacement
    <2>5. policies # << >> BY <1>1, <2>4
    <2>6. disks = policies BY <2>1 DEF OrElse
    <2>7. ForPolicy(r, step, r.disks[i].policy) = r.compatible[r.disks[i].policy]
      BY <2>3 DEF ForPolicy
    <2> HIDE DEF disks, policies, multi, home
    <2>8. p.disks[i] = policies[i] BY <1>3, <2>5, <2>6
    <2>9. QED BY <2>4, <2>7, <2>8
  <1>8. QED BY <1>4, <1>5, <1>6, <1>7

-----------------------------------------------------------------------------
(* The data sources *)

(* The two loops *)

\* The loop of FreeSpace.
FreeLoop(o) ==
  CHOOSE free : free = [n \in 0 .. Len(o.members) |->
    IF n = 0 THEN 0 ELSE free[n - 1] + o.members[n].free]

\* FreeSpace is what its loop ends with.
LEMMA FreeSpaceIs ==
  ASSUME NEW o, IsObject("datastore_cluster", o)
  PROVE  FreeSpace(o) = IF o.readable THEN FreeLoop(o)[Len(o.members)] ELSE Unset
  BY DEF FreeSpace, FreeLoop

\* What is free on a datastore cluster that can be read is a number.
LEMMA FreeSpaceType ==
  ASSUME NEW o, IsObject("datastore_cluster", o)
  PROVE  IF o.readable THEN FreeSpace(o) \in Nat ELSE FreeSpace(o) = Unset
  <1> DEFINE count == Len(o.members)
             Step(x, n) == x + o.members[n].free
             Is(f, N) == f = [n \in 0 .. N |-> IF n = 0 THEN 0 ELSE Step(f[n - 1], n)]
             T == {N \in Nat : \E f : Is(f, N)}
             free == FreeLoop(o)
  <1>1. count \in Nat /\ \A n \in 1 .. count : o.members[n].free \in Nat
    BY DEF IsObject, IsList, ToSet
  <1>2. count \in T
    <2> HIDE DEF Step
    <2>1. 0 \in T
      <3>1. Is([n \in 0 .. 0 |-> 0], 0) OBVIOUS
      <3>2. QED BY <3>1
    <2>2. ASSUME NEW N \in 0 .. count - 1, N \in T PROVE N + 1 \in T
      <3>1. PICK f : Is(f, N) BY <2>2
      <3>2. Is([n \in 0 .. N + 1 |-> IF n = N + 1 THEN Step(f[N], n) ELSE f[n]], N + 1)
        BY <1>1, <3>1
      <3>3. N + 1 \in Nat BY <1>1
      <3>4. QED BY <3>2, <3>3
    <2>3. \A N \in 0 .. count - 1 : N \in T => N + 1 \in T BY <2>2
    <2> HIDE DEF T, count
    <2>4. \A n \in 0 .. count : n \in T BY <1>1, <2>1, <2>3, BoundedInduction
    <2>5. QED BY <1>1, <2>4
  <1>3. Is(free, count) BY <1>2 DEF FreeLoop
  <1>4. \A n \in 0 .. count : free[n] \in Nat
    <2> HIDE DEF free, count
    <2> DEFINE F == {n \in 0 .. count : free[n] \in Nat}
    <2>1. 0 \in F BY <1>1, <1>3
    <2>2. ASSUME NEW n \in 0 .. count - 1, n \in F PROVE n + 1 \in F
      <3>1. n + 1 \in 0 .. count /\ n + 1 # 0 /\ (n + 1) - 1 = n BY <1>1
      <3>2. free[n + 1] = free[n] + o.members[n + 1].free BY <1>3, <3>1
      <3>3. free[n] \in Nat /\ o.members[n + 1].free \in Nat BY <1>1, <2>2
      <3>4. QED BY <3>1, <3>2, <3>3
    <2>3. \A n \in 0 .. count - 1 : n \in F => n + 1 \in F BY <2>2
    <2> HIDE DEF F
    <2>4. \A n \in 0 .. count : n \in F BY <1>1, <2>1, <2>3, BoundedInduction
    <2>5. QED BY <2>4 DEF F
  <1>5. QED BY <1>1, <1>4, FreeSpaceIs

\* The loop of SelectMax.
BestLoop(list, score) ==
  CHOOSE best : best = [n \in 1 .. Len(list) |->
    IF n = 1 \/ score[list[n]] > score[best[n - 1]] THEN list[n] ELSE best[n - 1]]

\* SelectMax takes one with the highest score, if all have one.
LEMMA SelectMaxIs ==
  ASSUME NEW list, IsList(list), Len(list) >= 1, NEW score,
         \A o \in ToSet(list) : score[o] \in Nat
  PROVE  \E o \in ToSet(list) : /\ SelectMax(list, score) = Taken(o)
                                /\ \A other \in ToSet(list) : score[other] <= score[o]
  <1> DEFINE N == Len(list)
             Step(x, n) == IF n = 1 \/ score[list[n]] > score[x] THEN list[n] ELSE x
             Is(f, M) == f = [n \in 1 .. M |-> Step(f[n - 1], n)]
             T == {M \in Nat : \E f : Is(f, M)}
             best == BestLoop(list, score)
             Best(n) == /\ best[n] \in ToSet(list)
                        /\ \A m \in 1 .. n : score[list[m]] <= score[best[n]]
  <1>1. N \in Nat /\ N >= 1 /\ ToSet(list) = {list[n] : n \in 1 .. N}
    BY DEF IsList, ToSet
  <1>2. N \in T
    <2> HIDE DEF Step, N
    <2>1. 0 \in T
      <3>1. Is([n \in 1 .. 0 |-> 0], 0) OBVIOUS
      <3>2. QED BY <3>1
    <2>2. ASSUME NEW M \in 0 .. N - 1, M \in T PROVE M + 1 \in T
      <3>1. PICK f : Is(f, M) BY <2>2
      <3>2. CASE M = 0
        <4>1. Is([n \in 1 .. 1 |-> list[1]], 1) BY DEF Step
        <4>2. QED BY <3>2, <4>1
      <3>3. CASE M # 0
        <4>1. Is([n \in 1 .. M + 1 |-> IF n = M + 1 THEN Step(f[M], n) ELSE f[n]], M + 1)
          <5> DEFINE h == [n \in 1 .. M + 1 |-> IF n = M + 1 THEN Step(f[M], n) ELSE f[n]]
          <5>1. h[1] = Step(h[0], 1)
            <6>1. f[1] = list[1] BY <1>1, <3>1, <3>3 DEF Step
            <6>2. h[1] = list[1] BY <1>1, <3>3, <6>1
            <6> HIDE DEF h
            <6>3. QED BY <6>2 DEF Step
          <5>2. \A n \in 2 .. M + 1 : h[n] = Step(h[n - 1], n) BY <1>1, <3>1, <3>3
          <5>3. h = [n \in 1 .. M + 1 |-> h[n]] OBVIOUS
          <5>4. \A n \in 1 .. M + 1 : n = 1 \/ n \in 2 .. M + 1 BY <1>1
          <5> HIDE DEF h
          <5>5. \A n \in 1 .. M + 1 : h[n] = Step(h[n - 1], n)
            <6>1. h[1] = Step(h[1 - 1], 1) BY <5>1
            <6>2. QED BY <5>2, <5>4, <6>1
          <5>6. Is(h, M + 1) BY <5>3, <5>5
          <5>7. QED BY <5>6 DEF h
        <4>2. M + 1 \in Nat BY <1>1
        <4>3. QED BY <4>1, <4>2
      <3>4. QED BY <3>2, <3>3
    <2>3. \A M \in 0 .. N - 1 : M \in T => M + 1 \in T BY <2>2
    <2> HIDE DEF T
    <2>4. \A n \in 0 .. N : n \in T BY <1>1, <2>1, <2>3, BoundedInduction
    <2>5. QED BY <1>1, <2>4
  <1>3. best = [n \in 1 .. N |-> Step(best[n - 1], n)] BY <1>2 DEF BestLoop
  <1> HIDE DEF best, N
  <1>4. Best(1) BY <1>1, <1>3
  <1>5. ASSUME NEW n \in 1 .. N - 1, Best(n) PROVE Best(n + 1)
    <2>1. n + 1 \in 1 .. N /\ n + 1 # 1 /\ (n + 1) - 1 = n BY <1>1
    <2>2. best[n + 1] = IF score[list[n + 1]] > score[best[n]] THEN list[n + 1] ELSE best[n]
      BY <1>3, <2>1
    <2>3. list[n + 1] \in ToSet(list) BY <1>1, <2>1
    <2>4. score[list[n + 1]] \in Nat /\ score[best[n]] \in Nat BY <1>5, <2>3
    <2>5. \A m \in 1 .. n : score[list[m]] \in Nat /\ score[list[m]] <= score[best[n]]
      BY <1>1, <1>5
    <2>6. \A m \in 1 .. n + 1 : m \in 1 .. n \/ m = n + 1 BY <1>1
    <2>7. CASE score[list[n + 1]] > score[best[n]]
      <3>1. best[n + 1] = list[n + 1] BY <2>2, <2>7
      <3>2. \A m \in 1 .. n : score[list[m]] <= score[list[n + 1]] BY <2>4, <2>5, <2>7
      <3>3. score[list[n + 1]] <= score[list[n + 1]] BY <2>4
      <3>4. QED BY <2>3, <2>6, <3>1, <3>2, <3>3
    <2>8. CASE ~(score[list[n + 1]] > score[best[n]])
      <3>1. best[n + 1] = best[n] BY <2>2, <2>8
      <3>2. score[list[n + 1]] <= score[best[n]] BY <2>4, <2>8
      <3>3. QED BY <1>5, <2>6, <3>1, <3>2
    <2>9. QED BY <2>7, <2>8
  <1>6. Best(N)
    <2> HIDE DEF Best
    <2> DEFINE B == {n \in 0 .. N : n = 0 \/ Best(n)}
    <2>1. 0 \in B BY <1>1
    <2>2. ASSUME NEW n \in 0 .. N - 1, n \in B PROVE n + 1 \in B
      <3>1. n + 1 \in 0 .. N /\ n \in 0 .. N BY <1>1
      <3>2. CASE n = 0
        <4>1. n + 1 = 1 BY <3>2
        <4>2. QED BY <1>4, <3>1, <4>1
      <3>3. CASE n # 0
        <4>1. n \in 1 .. N - 1 BY <1>1, <3>3
        <4>2. QED BY <1>5, <2>2, <3>1, <3>3, <4>1
      <3>4. QED BY <3>2, <3>3
    <2>3. \A n \in 0 .. N - 1 : n \in B => n + 1 \in B BY <2>2
    <2> HIDE DEF B
    <2>4. \A n \in 0 .. N : n \in B BY <1>1, <2>1, <2>3, BoundedInduction
    <2>5. N \in 0 .. N /\ N # 0 BY <1>1
    <2>6. QED BY <2>4, <2>5 DEF B
  <1>7. SelectMax(list, score) = Taken(best[N])
    <2>1. \A o \in ToSet(list) : score[o] # Unset BY DataSourcesAssumption
    <2>2. QED BY <2>1 DEF SelectMax, best, BestLoop, N
  <1>8. \A other \in ToSet(list) : score[other] <= score[best[N]] BY <1>1, <1>6
  <1>9. QED BY <1>6, <1>7, <1>8

(* The filters *)

\* An object passes if all verdicts are yes; else it fails at the first that is not.
LEMMA FirstNoIs ==
  ASSUME NEW v, \A i \in DOMAIN v : i \in Nat
  PROVE  /\ FirstNo(v) = "yes" <=> \A i \in DOMAIN v : v[i] = "yes"
         /\ FirstNo(v) # "yes" =>
              \E i \in DOMAIN v : v[i] = FirstNo(v) /\ \A j \in DOMAIN v : j < i => v[j] = "yes"
  <1> DEFINE stops == {i \in DOMAIN v : v[i] # "yes"}
  <1>1. CASE stops = {} BY <1>1 DEF FirstNo
  <1>2. CASE stops # {}
    <2>1. Min(stops) \in stops /\ \A j \in stops : Min(stops) <= j
      <3>1. stops \subseteq Nat OBVIOUS
      <3> HIDE DEF stops
      <3>2. QED BY <1>2, <3>1, MinIs
    <2>2. FirstNo(v) = v[Min(stops)] BY <1>2 DEF FirstNo
    <2>3. \A j \in DOMAIN v : j < Min(stops) => v[j] = "yes" BY <2>1
    <2>4. QED BY <2>1, <2>2, <2>3
  <1>3. QED BY <1>1, <1>2

\* What is asked of an object, but for its place in the list.
Fits(q, inv, o) ==
  /\ o.name \in q.glob \cap q.regex
  /\ ToSet(q.tags) \subseteq o.tags
  /\ \A place \in {q.host, q.cluster} \ {Unset} : IsAt(q, place, inv, o)
  /\ q.type # Unset => o.type = q.type
  /\ q.kind = "network" => o.type \in NetworkTypes
  /\ q.kind = "virtual_machine" /\ q.template => o.template

\* What the verdicts v on an object say of it.
Judges(v, q, inv, o) ==
  /\ \A i \in DOMAIN v : i \in Nat
  /\ (\A i \in DOMAIN v : v[i] = "yes") => Fits(q, inv, o)
  /\ Fits(q, inv, o) => \A i \in DOMAIN v : v[i] \in {"yes", "error"}
  /\ \A i \in DOMAIN v : v[i] = "error" => ~o.readable
  /\ q.kind # "compute_cluster" => v[1] \in {"yes", "no"} /\ 1 \in DOMAIN v
                                   /\ (v[1] = "yes" => o.name \in q.regex)

\* Where an object is asked for, and machines elsewhere have names of their own.
Query(q, inv, o) ==
  /\ IsQuery(q) /\ IsInventory(inv) /\ q.kind = inv.kind /\ ~NameIsShared(q, inv)
  /\ PlacesFound(q, inv) /\ o \in Named(q, inv)

\* The filter of the tags says yes only of an object that has them all, and does not
\* say no of such an object.
LEMMA HasAllIs ==
  ASSUME NEW q, IsQuery(q), NEW o, o.readable \in BOOLEAN
  PROVE  /\ HasAll(q, o) = "yes" => ToSet(q.tags) \subseteq o.tags
         /\ ToSet(q.tags) \subseteq o.tags => HasAll(q, o) \in {"yes", "error"}
         /\ HasAll(q, o) \in {"yes", "no", "error"}
         /\ HasAll(q, o) = "error" => ~o.readable
  <1>1. q.tags = << >> => ToSet(q.tags) = {} BY DEF ToSet
  <1>2. QED BY <1>1 DEF HasAll, Reading, Verdict

\* What is known of an object of the name.
LEMMA NamedIs ==
  ASSUME NEW q, NEW inv, NEW o, Query(q, inv, o)
  PROVE  /\ IsObject(q.kind, o) /\ o.readable \in BOOLEAN /\ o.name \in q.glob
         /\ o \in ToSet(inv.objects)
         /\ q.kind = "network" => o.type \in NetworkTypes
         /\ q.host # Unset => q.host \in DOMAIN inv.at
         /\ q.cluster # Unset => q.cluster \in DOMAIN inv.at
  BY DEF Query, Named, IsInventory, IsObject, PlacesFound

\* The filters of the compute clusters judge as asked.
LEMMA ComputeClusterJudged ==
  ASSUME NEW q, NEW inv, NEW o, Query(q, inv, o), q.kind = "compute_cluster"
  PROVE  Judges(ComputeClusterFilters(q, inv, o), q, inv, o)
  <1>1. q.host = Unset /\ q.cluster = Unset /\ q.type = Unset BY DEF Query, IsQuery
  <1>2. o.name \in Names BY NamedIs DEF IsObject
  <1>3. IsQuery(q) BY DEF Query
  <1>4. QED BY <1>1, <1>2, <1>3, NamedIs, HasAllIs DEF Judges, Fits, ComputeClusterFilters, Reading, Verdict

\* So do those of the content libraries,
LEMMA ContentLibraryJudged ==
  ASSUME NEW q, NEW inv, NEW o, Query(q, inv, o), q.kind = "content_library"
  PROVE  Judges(ContentLibraryFilters(q, inv, o), q, inv, o)
  <1>1. q.host = Unset /\ q.cluster = Unset /\ q.type = Unset BY DEF Query, IsQuery
  <1>2. IsQuery(q) BY DEF Query
  <1>3. QED BY <1>1, <1>2, NamedIs, HasAllIs DEF Judges, Fits, ContentLibraryFilters, NameRegex, Verdict

\* of the items of a content library,
LEMMA ContentLibraryItemJudged ==
  ASSUME NEW q, NEW inv, NEW o, Query(q, inv, o), q.kind = "content_library_item"
  PROVE  Judges(ContentLibraryItemFilters(q, inv, o), q, inv, o)
  <1>1. q.host = Unset /\ q.cluster = Unset BY DEF Query, IsQuery
  <1>2. IsQuery(q) BY DEF Query
  <1>3. QED BY <1>1, <1>2, NamedIs, HasAllIs DEF Judges, Fits, ContentLibraryItemFilters, NameRegex, Verdict

\* A place that is there and has objects: At.
LEMMA AtIs ==
  ASSUME NEW q, NEW inv, NEW o, Query(q, inv, o),
         q.kind \in {"datastore", "host", "network"}
  PROVE  /\ \A place : At(place, inv, o) \in {"yes", "no"}
         /\ At(q.host, inv, o) = "yes" <=> (q.host # Unset => IsAt(q, q.host, inv, o))
         /\ At(q.cluster, inv, o) = "yes" <=> (q.cluster # Unset => IsAt(q, q.cluster, inv, o))
  BY DEF At, Verdict, IsAt

\* The filters of the datastores judge as asked,
LEMMA DatastoreJudged ==
  ASSUME NEW q, NEW inv, NEW o, Query(q, inv, o), q.kind = "datastore"
  PROVE  Judges(DatastoreFilters(q, inv, o), q, inv, o)
  <1>1. q.type = Unset BY DEF Query, IsQuery
  <1>2. IsQuery(q) BY DEF Query
  <1>3. QED BY <1>1, <1>2, NamedIs, HasAllIs, AtIs DEF Judges, Fits, DatastoreFilters, NameRegex, Verdict

\* those of the hosts,
LEMMA HostJudged ==
  ASSUME NEW q, NEW inv, NEW o, Query(q, inv, o), q.kind = "host"
  PROVE  Judges(HostFilters(q, inv, o), q, inv, o)
  <1>1. q.type = Unset /\ q.host = Unset BY DEF Query, IsQuery
  <1>2. IsQuery(q) BY DEF Query
  <1>3. QED BY <1>1, <1>2, NamedIs, HasAllIs, AtIs DEF Judges, Fits, HostFilters, NameRegex, Verdict

\* and those of the networks.
LEMMA NetworkJudged ==
  ASSUME NEW q, NEW inv, NEW o, Query(q, inv, o), q.kind = "network"
  PROVE  Judges(NetworkFilters(q, inv, o), q, inv, o)
  <1>1. IsQuery(q) BY DEF Query
  <1>2. QED BY <1>1, NamedIs, HasAllIs, AtIs DEF Judges, Fits, NetworkFilters, NameRegex, Verdict

\* A datastore cluster is at a place if all of its datastores are.
LEMMA AllMembersAtIs ==
  ASSUME NEW q, NEW inv, NEW o, Query(q, inv, o), q.kind = "datastore_cluster", NEW place
  PROVE  /\ AllMembersAt(place, inv, o) \in {"yes", "no", "error"}
         /\ AllMembersAt(place, inv, o) = "error" => ~o.readable
         /\ AllMembersAt(place, inv, o) = "yes" => (place # Unset => IsAt(q, place, inv, o))
         /\ (place # Unset => IsAt(q, place, inv, o)) => AllMembersAt(place, inv, o) \in {"yes", "error"}
  BY NamedIs DEF AllMembersAt, Reading, Verdict, IsAt

\* The filters of the datastore clusters judge as asked.
LEMMA DatastoreClusterJudged ==
  ASSUME NEW q, NEW inv, NEW o, Query(q, inv, o), q.kind = "datastore_cluster"
  PROVE  Judges(DatastoreClusterFilters(q, inv, o), q, inv, o)
  <1>1. q.type = Unset BY DEF Query, IsQuery
  <1>2. IsQuery(q) BY DEF Query
  <1>3. QED BY <1>1, <1>2, NamedIs, HasAllIs, AllMembersAtIs
            DEF Judges, Fits, DatastoreClusterFilters, NameRegex, Verdict

\* A list is a prefix if it is what another begins with.
LEMMA PrefixIs ==
  ASSUME NEW s, IsList(s), NEW t, IsList(t)
  PROVE  IsPrefix(s, t) <=> \E n \in 0 .. Len(t) : SubSeq(t, 1, n) = s
  <1>1. Len(s) \in Nat /\ Len(t) \in Nat /\ SubSeq(s, 1, Len(s)) = s
    BY DEF IsList
  <1>2. ASSUME IsPrefix(s, t) PROVE \E n \in 0 .. Len(t) : SubSeq(t, 1, n) = s
    <2>1. Len(s) \in 0 .. Len(t) /\ SubSeq(t, 1, Len(s)) = s BY <1>1, <1>2 DEF IsPrefix
    <2>2. QED BY <2>1
  <1>3. ASSUME NEW n \in 0 .. Len(t), SubSeq(t, 1, n) = s PROVE IsPrefix(s, t)
    <2>1. Len(SubSeq(t, 1, n)) = n BY <1>1 DEF IsList
    <2>2. Len(s) = n BY <1>3, <2>1
    <2>3. QED BY <1>1, <1>3, <2>2 DEF IsPrefix
  <1>4. QED BY <1>2, <1>3

\* A resource pool is at a place if it is under its root.
LEMMA UnderPathIs ==
  ASSUME NEW q, NEW inv, NEW o, Query(q, inv, o), q.kind = "resource_pool",
         NEW place, place # Unset => place \in DOMAIN inv.at
  PROVE  /\ UnderPath(place, inv, o) \in {"yes", "no", "error"}
         /\ UnderPath(place, inv, o) = "error" => ~o.readable
         /\ UnderPath(place, inv, o) = "yes" => (place # Unset => IsAt(q, place, inv, o))
         /\ (place # Unset => IsAt(q, place, inv, o)) => UnderPath(place, inv, o) \in {"yes", "error"}
  <1>1. CASE place = Unset BY <1>1 DEF UnderPath
  <1>2. CASE place # Unset
    <2>1. IsList(inv.at[place]) /\ IsList(o.path)
      BY <1>2, NamedIs DEF IsObject, Query, IsInventory
    <2>2. IsAt(q, place, inv, o) <=> IsPrefix(inv.at[place], o.path) BY <2>1, PrefixIs DEF IsAt
    <2>3. QED BY <1>2, <2>2 DEF UnderPath, Reading, Verdict
  <1>3. QED BY <1>1, <1>2

\* The filters of the resource pools judge as asked,
LEMMA ResourcePoolJudged ==
  ASSUME NEW q, NEW inv, NEW o, Query(q, inv, o), q.kind = "resource_pool"
  PROVE  Judges(ResourcePoolFilters(q, inv, o), q, inv, o)
  <1>1. q.type = Unset BY DEF Query, IsQuery
  <1>2. IsQuery(q) BY DEF Query
  <1>3. QED BY <1>1, <1>2, NamedIs, HasAllIs, UnderPathIs
            DEF Judges, Fits, ResourcePoolFilters, NameRegex, Verdict

\* and those of the machines.
LEMMA VirtualMachineJudged ==
  ASSUME NEW q, NEW inv, NEW o, Query(q, inv, o), q.kind = "virtual_machine"
  PROVE  Judges(VirtualMachineFilters(q, inv, o), q, inv, o)
  <1>1. q.type = Unset /\ q.cluster = Unset BY DEF Query, IsQuery
  <1>2. IsQuery(q) BY DEF Query
  <1>3. OnHost(q, inv, o) \in {"yes", "no"}
        /\ (OnHost(q, inv, o) = "yes" <=> (q.host # Unset => IsAt(q, q.host, inv, o)))
    <2>1. CASE q.host = Unset BY <2>1 DEF OnHost, Verdict
    <2>2. CASE q.host # Unset
      <3>1. \A other \in ToSet(inv.objects) :
               other.id \in inv.at[q.host] /\ other.name = o.name => o.id \in inv.at[q.host]
        BY <2>2, NamedIs DEF Query, NameIsShared
      <3>2. o \in ToSet(inv.objects) BY NamedIs
      <3>3. IsAt(q, q.host, inv, o) <=> o.id \in inv.at[q.host] BY DEF IsAt
      <3>4. QED BY <2>2, <3>1, <3>2, <3>3 DEF OnHost, Verdict
    <2>3. QED BY <2>1, <2>2
  <1>4. QED BY <1>1, <1>2, <1>3, NamedIs, HasAllIs
            DEF Judges, Fits, VirtualMachineFilters, NameRegex, Verdict, Reading

\* So do the filters of every data source.
LEMMA FiltersJudge ==
  ASSUME NEW q, NEW inv, NEW o, Query(q, inv, o)
  PROVE  Judges(Filters(q, inv, o), q, inv, o)
  <1>1. q.kind \in DataSourceKinds BY DEF Query, IsQuery
  <1>2. QED BY <1>1, ComputeClusterJudged, ContentLibraryJudged, ContentLibraryItemJudged, DatastoreJudged,
               DatastoreClusterJudged, HostJudged, NetworkJudged, ResourcePoolJudged, VirtualMachineJudged
            DEF Filters, DataSourceKinds

(* What is left of the objects *)

\* An error of a filter comes of an object that cannot be read.
LEMMA FailingIsUnclear ==
  ASSUME NEW q, NEW inv, NEW o, Query(q, inv, o), o \in Failing(q, inv)
  PROVE  Unclear(q, inv)
  <1> DEFINE v == Filters(q, inv, o)
  <1>1. FirstNo(v) = "error" BY DEF Failing
  <1>2. Judges(v, q, inv, o) BY FiltersJudge
  <1> HIDE DEF v
  <1>3. PICK i \in DOMAIN v : v[i] = "error" /\ \A j \in DOMAIN v : j < i => v[j] = "yes"
    <2>1. \A i \in DOMAIN v : i \in Nat BY <1>2 DEF Judges
    <2>2. QED BY <1>1, <2>1, FirstNoIs
  <1>4. ~o.readable BY <1>2, <1>3 DEF Judges
  <1>5. q.kind # "compute_cluster" => o.name \in q.regex
    <2> SUFFICES ASSUME q.kind # "compute_cluster" PROVE v[1] = "yes" BY <1>2 DEF Judges
    <2>1. v[1] \in {"yes", "no"} /\ 1 \in DOMAIN v BY <1>2 DEF Judges
    <2>2. i \in Nat /\ i # 1 BY <1>2, <1>3, <2>1 DEF Judges
    <2>3. CASE 1 < i BY <1>3, <2>1, <2>3
    <2>4. CASE i = 0
      <3>1. i \in DOMAIN v OBVIOUS
      <3>2. v \in {ContentLibraryFilters(q, inv, o), ContentLibraryItemFilters(q, inv, o),
                    DatastoreFilters(q, inv, o), DatastoreClusterFilters(q, inv, o),
                    HostFilters(q, inv, o), NetworkFilters(q, inv, o),
                    ResourcePoolFilters(q, inv, o), VirtualMachineFilters(q, inv, o)}
        BY DEF v, Filters, Query, IsQuery, DataSourceKinds
      <3>3. 0 \notin DOMAIN v
        BY <3>2 DEF ContentLibraryFilters, ContentLibraryItemFilters, DatastoreFilters,
                    DatastoreClusterFilters, HostFilters, NetworkFilters, ResourcePoolFilters,
                    VirtualMachineFilters
      <3>4. QED BY <2>4, <3>1, <3>3
    <2>5. QED BY <2>2, <2>3, <2>4
  <1>6. QED BY <1>4, <1>5, NamedIs DEF Unclear

\* Without an error, the objects that pass are those that are asked for.
LEMMA PassingIsMatching ==
  ASSUME NEW q, NEW inv, IsQuery(q), IsInventory(inv), q.kind = inv.kind,
         ~NameIsShared(q, inv), PlacesFound(q, inv), Failing(q, inv) = {}
  PROVE  Passing(q, inv) = Matching(q, inv)
  <1>1. ASSUME NEW o \in Passing(q, inv) PROVE o \in Matching(q, inv)
    <2>1. Query(q, inv, o) /\ FirstNo(Filters(q, inv, o)) = "yes" BY DEF Passing, Query
    <2>2. Judges(Filters(q, inv, o), q, inv, o) BY <2>1, FiltersJudge
    <2>3. Fits(q, inv, o)
      <3> DEFINE v == Filters(q, inv, o)
      <3> HIDE DEF v
      <3>1. \A i \in DOMAIN v : v[i] = "yes" BY <2>1, <2>2, FirstNoIs DEF Judges, v
      <3>2. QED BY <2>2, <3>1 DEF Judges, v
    <2>4. QED BY <2>1, <2>3, NamedIs DEF Fits, Matching
  <1>2. ASSUME NEW o \in Matching(q, inv) PROVE o \in Passing(q, inv)
    <2>1. o \in Named(q, inv) /\ Fits(q, inv, o) BY DEF Matching, Named, Fits
    <2>2. Query(q, inv, o) BY <2>1 DEF Query
    <2>3. Judges(Filters(q, inv, o), q, inv, o) BY <2>2, FiltersJudge
    <2>4. FirstNo(Filters(q, inv, o)) \in {"yes", "error"}
      <3> DEFINE v == Filters(q, inv, o)
      <3> HIDE DEF v
      <3>1. \A i \in DOMAIN v : v[i] \in {"yes", "error"} /\ i \in Nat BY <2>1, <2>3 DEF Judges, v
      <3>2. FirstNo(v) \in {"yes", "error"} BY <3>1, FirstNoIs
      <3>3. QED BY <3>2 DEF v
    <2>5. QED BY <2>1, <2>4 DEF Passing, Failing
  <1>3. QED BY <1>1, <1>2

\* What is left is what is asked for, or nothing if an object is unclear.
LEMMA FilteredIs ==
  ASSUME NEW q, NEW inv, IsQuery(q), IsInventory(inv), q.kind = inv.kind, ~NameIsShared(q, inv)
  PROVE  /\ IsList(Filtered(q, inv)) /\ IsInjective(Filtered(q, inv))
         /\ ToSet(Filtered(q, inv)) \subseteq ToSet(inv.objects)
         /\ ToSet(Filtered(q, inv)) \subseteq Matching(q, inv)
         /\ \/ Unclear(q, inv) /\ Filtered(q, inv) = << >>
            \/ ToSet(Filtered(q, inv)) = Matching(q, inv)
  <1>1. CASE ~PlacesFound(q, inv) \/ Failing(q, inv) # {}
    <2>1. Filtered(q, inv) = << >> BY <1>1 DEF Filtered
    <2>2. IsList(<< >>) /\ IsInjective(<< >>) /\ ToSet(<< >>) = {}
      BY DEF IsList, IsInjective, ToSet
    <2>3. ~PlacesFound(q, inv) => Matching(q, inv) = {} BY DEF Matching
    <2>4. PlacesFound(q, inv) => Unclear(q, inv)
      <3> SUFFICES ASSUME PlacesFound(q, inv) PROVE Unclear(q, inv) OBVIOUS
      <3>1. PICK o : o \in Failing(q, inv) BY <1>1
      <3>2. Query(q, inv, o) BY <3>1 DEF Failing, Query
      <3>3. QED BY <3>1, <3>2, FailingIsUnclear
    <2>5. QED BY <2>1, <2>2, <2>3, <2>4
  <1>2. CASE PlacesFound(q, inv) /\ Failing(q, inv) = {}
    <2> DEFINE list == Kept(inv.objects, Matching(q, inv))
    <2>1. Filtered(q, inv) = list BY <1>2, PassingIsMatching DEF Filtered
    <2>2. IsList(inv.objects) /\ IsInjective(inv.objects) BY DEF IsInventory
    <2>3. /\ list \in Seq(ToSet(inv.objects)) /\ IsInjective(list)
          /\ ToSet(list) = ToSet(inv.objects) \cap Matching(q, inv)
      BY <2>2, KeptIs
    <2>4. Matching(q, inv) \subseteq ToSet(inv.objects) BY DEF Matching
    <2> HIDE DEF list
    <2>5. IsList(list) BY <2>3 DEF IsList, ToSet
    <2>6. QED BY <2>1, <2>3, <2>4, <2>5
  <1>3. QED BY <1>1, <1>2

(* The selection *)

\* How many members a list without duplicates has.
LEMMA ListMembers ==
  ASSUME NEW list, IsList(list), IsInjective(list)
  PROVE  /\ Len(list) \in Nat /\ IsFiniteSet(ToSet(list))
         /\ Len(list) = 0 => ToSet(list) = {}
         /\ Len(list) = 1 => ToSet(list) = {list[1]}
         /\ Len(list) > 1 => Cardinality(ToSet(list)) > 1
         /\ Len(list) # 0 => ToSet(list) # {}
  <1>1. Len(list) \in Nat /\ ToSet(list) = {list[n] : n \in 1 .. Len(list)}
        /\ list \in [1 .. Len(list) -> ToSet(list)]
    BY DEF IsList, ToSet
  <1>2. IsFiniteSet(ToSet(list))
    <2>1. list \in Surjection(1 .. Len(list), ToSet(list)) BY <1>1 DEF Surjection
    <2>2. IsFiniteSet(1 .. Len(list)) BY <1>1, IntervalIsFinite
    <2>3. QED BY <2>1, <2>2, FS_Surjection
  <1>3. ASSUME Len(list) > 1 PROVE Cardinality(ToSet(list)) > 1
    <2>1. 1 \in 1 .. Len(list) /\ 2 \in 1 .. Len(list) BY <1>1, <1>3
    <2>2. list[1] # list[2] /\ {list[1], list[2]} \in SUBSET ToSet(list)
      <3>1. DOMAIN list = 1 .. Len(list) BY <1>1
      <3>2. QED BY <1>1, <2>1, <3>1 DEF IsInjective
    <2>3. IsFiniteSet({list[1]}) /\ Cardinality({list[1]}) = 1 BY FS_Singleton
    <2>4. Cardinality({list[1]} \cup {list[2]}) = 2 BY <2>2, <2>3, FS_AddElement
    <2>5. {list[1], list[2]} = {list[1]} \cup {list[2]} OBVIOUS
    <2>6. Cardinality({list[1], list[2]}) <= Cardinality(ToSet(list)) BY <1>2, <2>2, FS_Subset
    <2>7. Cardinality(ToSet(list)) \in Nat BY <1>2, FS_CardinalityType
    <2>8. QED BY <2>4, <2>5, <2>6, <2>7
  <1>4. QED BY <1>1, <1>2, <1>3

\* ResolveOne takes the only member or one with the highest score, and refuses an empty
\* list, several members without a score to choose by, or one that cannot be read.
LEMMA ResolveOneIs ==
  ASSUME NEW list, IsList(list), IsInjective(list),
         \A o \in ToSet(list) : o.readable \in BOOLEAN, NEW alt \in BOOLEAN, NEW score,
         alt => \A o \in ToSet(list) : score[o] \in Nat \cup {Unset}, NEW r,
         r = ResolveOne(list, alt, score)
  PROVE  /\ r.ok \in BOOLEAN
         /\ r.ok => /\ r.object \in ToSet(list) /\ (alt \/ ToSet(list) = {r.object})
                    /\ \/ ToSet(list) = {r.object}
                       \/ \A o \in ToSet(list) : score[o] \in Nat /\ score[o] <= score[r.object]
         /\ ~r.ok => \/ ToSet(list) = {}
                     \/ Cardinality(ToSet(list)) > 1 /\ ~alt
                     \/ \E o \in ToSet(list) : ~o.readable \/ (alt /\ score[o] = Unset)
  <1>0. /\ Error.ok = FALSE /\ \A o : Answer(o).ok = TRUE /\ Answer(o).object = o
    BY DEF Error, Answer
  <1>1. ASSUME NEW o \in ToSet(list), r = Taken(o)
        PROVE  IF o.readable THEN r.ok = TRUE /\ r.object = o ELSE r.ok = FALSE
    BY <1>0, <1>1 DEF Taken
  <1>2. CASE Len(list) > 1 /\ alt
    <2>1. r = SelectMax(list, score) BY <1>2 DEF ResolveOne
    <2>2. CASE \E o \in ToSet(list) : score[o] = Unset
      BY <1>0, <1>2, <2>1, <2>2 DEF SelectMax
    <2>3. CASE \A o \in ToSet(list) : score[o] # Unset
      <3>1. \A o \in ToSet(list) : score[o] \in Nat BY <1>2, <2>3
      <3>2. Len(list) >= 1 BY <1>2, ListMembers
      <3>3. PICK o \in ToSet(list) : /\ r = Taken(o)
                                     /\ \A other \in ToSet(list) : score[other] <= score[o]
        BY <2>1, <3>1, <3>2, SelectMaxIs
      <3>4. QED BY <1>1, <1>2, <3>1, <3>3
    <2>4. QED BY <2>2, <2>3
  <1>3. CASE ~(Len(list) > 1 /\ alt)
    <2>1. r = IF Len(list) = 1 THEN Taken(list[1]) ELSE Error
      BY <1>3 DEF ResolveOne, ExactlyOne
    <2>2. CASE Len(list) = 1
      <3>1. ToSet(list) = {list[1]} BY <2>2, ListMembers
      <3>2. QED BY <1>1, <2>1, <2>2, <3>1
    <2>3. CASE Len(list) # 1
      <3>1. r.ok = FALSE BY <1>0, <2>1, <2>3
      <3>2. Len(list) = 0 \/ (Len(list) > 1 /\ ~alt)
        <4>1. Len(list) \in Nat BY ListMembers
        <4>2. \A n \in Nat : n # 1 => n = 0 \/ n > 1 OBVIOUS
        <4>3. QED BY <1>3, <2>3, <4>1, <4>2
      <3>3. QED BY <3>1, <3>2, ListMembers
    <2>4. QED BY <2>2, <2>3
  <1>4. QED BY <1>2, <1>3

\* The data sources that may choose among several objects.
Scored == {"content_library_item", "datastore", "datastore_cluster", "host", "virtual_machine"}

\* An object that can be read has a score, unless it has no value.
LEMMA ScoreType ==
  ASSUME NEW q, q.kind \in Scored, NEW o, IsObject(q.kind, o)
  PROVE  /\ ScoreOf(q, o) \in Nat \cup {Unset}
         /\ ScoreOf(q, o) = Unset =>
              ~o.readable \/ (q.kind \in {"virtual_machine", "host"} /\ o.value = Unset)
  <1>1. CASE q.kind = "content_library_item"
    <2>1. o.modified \in Nat \cup {Unset} /\ o.created \in Nat \cup {Unset} BY <1>1 DEF IsObject
    <2>2. ItemModTime(o) \in Nat BY <2>1 DEF ItemModTime
    <2>3. QED BY <1>1, <2>2, DataSourcesAssumption DEF ScoreOf
  <1>2. CASE q.kind = "datastore_cluster"
    <2>1. IF o.readable THEN FreeSpace(o) \in Nat ELSE FreeSpace(o) = Unset
      BY <1>2, FreeSpaceType
    <2>2. ScoreOf(q, o) = FreeSpace(o) BY <1>2 DEF ScoreOf
    <2>3. QED BY <2>1, <2>2, DataSourcesAssumption
  <1>3. CASE q.kind \in {"datastore", "host", "virtual_machine"}
    <2>1. ScoreOf(q, o) = IF o.readable THEN o.value ELSE Unset BY <1>3 DEF ScoreOf, ValueOf
    <2>2. o.value \in Nat \/ (q.kind # "datastore" /\ o.value = Unset) BY <1>3 DEF IsObject
    <2>3. QED BY <1>3, <2>1, <2>2, DataSourcesAssumption
  <1>4. QED BY <1>1, <1>2, <1>3 DEF Scored

\* What is taken of the objects that are left.
Best(q, inv) ==
  ResolveOne(Filtered(q, inv), q.alt, [o \in ToSet(Filtered(q, inv)) |-> ScoreOf(q, o)])

\* Every data source takes the best of what is left.
LEMMA ExecuteIs ==
  ASSUME NEW q, NEW inv, IsQuery(q)
  PROVE  Execute(q, inv) =
           IF q.kind = "content_library_item" /\ inv.libraries # 1 THEN Error
           ELSE IF q.kind = "host" /\ Best(q, inv).ok /\ Best(q, inv).object.value = Unset
                THEN Error ELSE Best(q, inv)
  <1> DEFINE list == Filtered(q, inv)
             scores == [o \in ToSet(list) |-> ScoreOf(q, o)]
  <1>1. q.kind \in DataSourceKinds /\ (q.alt => q.kind \in Scored) BY DEF IsQuery, Scored
  <1>2. CASE q.kind \notin Scored
    <2>1. Best(q, inv) = ExactlyOne(list)
      BY <1>1, <1>2 DEF Best, ResolveOne
    <2>2. Execute(q, inv) = ExactlyOne(list)
      BY <1>1, <1>2 DEF Execute, DataSourceKinds, Scored, ComputeCluster, ContentLibrary, Network, ResourcePool
    <2>3. QED BY <1>2, <2>1, <2>2 DEF Scored
  <1>3. CASE q.kind = "content_library_item"
    <2>1. scores = [o \in ToSet(list) |-> ItemModTime(o)] BY <1>3 DEF ScoreOf
    <2>2. Execute(q, inv) = ContentLibraryItem(q, inv) BY <1>3 DEF Execute
    <2>3. QED BY <1>3, <2>1, <2>2 DEF ContentLibraryItem, Best
  <1>4. CASE q.kind = "datastore_cluster"
    <2>1. scores = [o \in ToSet(list) |-> FreeSpace(o)] BY <1>4 DEF ScoreOf
    <2>2. Execute(q, inv) = DatastoreCluster(q, inv) BY <1>4 DEF Execute
    <2>3. QED BY <1>4, <2>1, <2>2 DEF DatastoreCluster, Best
  <1>5. CASE q.kind \in {"datastore", "host", "virtual_machine"}
    <2>1. scores = [o \in ToSet(list) |-> ValueOf(o)] BY <1>5 DEF ScoreOf
    <2>2. CASE q.kind = "datastore"
      <3>1. Execute(q, inv) = Datastore(q, inv) BY <2>2 DEF Execute
      <3>2. QED BY <2>1, <2>2, <3>1 DEF Datastore, Best
    <2>3. CASE q.kind = "virtual_machine"
      <3>1. Execute(q, inv) = VirtualMachine(q, inv) BY <2>3 DEF Execute
      <3>2. QED BY <2>1, <2>3, <3>1 DEF VirtualMachine, Best
    <2>4. CASE q.kind = "host"
      <3>1. Execute(q, inv) = Host(q, inv) BY <2>4 DEF Execute
      <3>2. Host(q, inv) = IF Best(q, inv).ok
                           THEN IF Best(q, inv).object.value = Unset THEN Error ELSE Best(q, inv)
                           ELSE Best(q, inv)
        BY <2>1 DEF Host, Best
      <3>3. QED BY <2>4, <3>1, <3>2
    <2>5. QED BY <1>5, <2>2, <2>3, <2>4
  <1>6. QED BY <1>2, <1>3, <1>4, <1>5 DEF Scored

\* What a data source finds.
LEMMA ExecuteFinds ==
  ASSUME NEW q, NEW inv, IsQuery(q), IsInventory(inv), q.kind = inv.kind,
         ~NameIsShared(q, inv), NEW r, r = Execute(q, inv)
  PROVE  /\ r.ok \in BOOLEAN
         /\ AnswersWithTheOne(q, inv, r)
         /\ RefusesForAReason(q, inv, r)
         /\ r.ok => /\ q.kind = "content_library_item" => inv.libraries = 1
                    /\ \/ Matching(q, inv) = {r.object}
                       \/ \A o \in Matching(q, inv) : ScoreOf(q, o) \in Nat
  <1> DEFINE list == Filtered(q, inv)
             score == [o \in ToSet(list) |-> ScoreOf(q, o)]
             best == Best(q, inv)
  <1>1. /\ IsList(list) /\ IsInjective(list) /\ ToSet(list) \subseteq ToSet(inv.objects)
        /\ ToSet(list) \subseteq Matching(q, inv)
        /\ ToSet(list) = Matching(q, inv) \/ (Unclear(q, inv) /\ ToSet(list) = {})
    <2>1. ToSet(<< >>) = {} BY DEF ToSet
    <2>2. QED BY <2>1, FilteredIs
  <1>2. \A o \in ToSet(list) : IsObject(q.kind, o) /\ o.readable \in BOOLEAN
    <2>1. \A o \in ToSet(inv.objects) : IsObject(q.kind, o) BY DEF IsInventory
    <2>2. QED BY <1>1, <2>1 DEF IsObject
  <1>3. q.alt \in BOOLEAN /\ (q.alt => q.kind \in Scored) BY DEF IsQuery, Scored
  <1>4. \A o \in ToSet(list) : score[o] = ScoreOf(q, o) OBVIOUS
  <1>5. best = ResolveOne(list, q.alt, score) BY DEF Best
  <1>6. r = IF q.kind = "content_library_item" /\ inv.libraries # 1 THEN Error
            ELSE IF q.kind = "host" /\ best.ok /\ best.object.value = Unset THEN Error ELSE best
    BY ExecuteIs
  <1> HIDE DEF list, score, best
  <1>7. q.alt => \A o \in ToSet(list) : score[o] \in Nat \cup {Unset}
    BY <1>2, <1>3, <1>4, ScoreType
  <1>8. /\ best.ok \in BOOLEAN
        /\ best.ok =>
             /\ best.object \in ToSet(list) /\ (q.alt \/ ToSet(list) = {best.object})
             /\ \/ ToSet(list) = {best.object}
                \/ \A o \in ToSet(list) : score[o] \in Nat /\ score[o] <= score[best.object]
        /\ ~best.ok => \/ ToSet(list) = {}
                       \/ Cardinality(ToSet(list)) > 1 /\ ~q.alt
                       \/ \E o \in ToSet(list) : ~o.readable \/ (q.alt /\ score[o] = Unset)
    BY <1>1, <1>2, <1>3, <1>5, <1>7, ResolveOneIs
  <1>9. ASSUME NEW o \in ToSet(list),
               ~o.readable \/ (q.kind \in {"virtual_machine", "host"} /\ o.value = Unset)
        PROVE  Unclear(q, inv)
    <2>1. o \in Matching(q, inv) /\ o \in ToSet(inv.objects) BY <1>1
    <2>2. o.name \in q.glob /\ o.name \in q.regex BY <2>1 DEF Matching
    <2>3. QED BY <1>9, <2>1, <2>2 DEF Unclear
  <1>10. Error.ok = FALSE BY DEF Error
  <1>11. CASE r = best
    <2>1. ASSUME best.ok
          PROVE  /\ AnswersWithTheOne(q, inv, best)
                 /\ \/ Matching(q, inv) = {best.object}
                    \/ \A o \in Matching(q, inv) : ScoreOf(q, o) \in Nat
      <3>1. ToSet(list) = Matching(q, inv) BY <1>1, <1>8, <2>1
      <3>2. CASE Matching(q, inv) = {best.object} BY <2>1, <3>2 DEF AnswersWithTheOne
      <3>3. CASE Matching(q, inv) # {best.object}
        <4>1. \A o \in ToSet(list) : ScoreOf(q, o) \in Nat /\ ScoreOf(q, o) <= ScoreOf(q, best.object)
          BY <1>4, <1>8, <2>1, <3>1, <3>3
        <4>2. QED BY <1>8, <2>1, <3>1, <3>3, <4>1 DEF AnswersWithTheOne
      <3>4. QED BY <3>2, <3>3
    <2>2. ASSUME ~best.ok PROVE RefusesForAReason(q, inv, best)
      <3>1. CASE ToSet(list) = {} BY <1>1, <3>1 DEF RefusesForAReason
      <3>2. CASE Cardinality(ToSet(list)) > 1 /\ ~q.alt
        <4>1. CASE ToSet(list) = {} BY <3>1, <4>1
        <4>2. CASE ToSet(list) # {} BY <1>1, <3>2, <4>2 DEF RefusesForAReason
        <4>3. QED BY <4>1, <4>2
      <3>3. CASE \E o \in ToSet(list) : ~o.readable \/ (q.alt /\ score[o] = Unset)
        <4>1. PICK o \in ToSet(list) : ~o.readable \/ (q.alt /\ ScoreOf(q, o) = Unset)
          BY <1>4, <3>3
        <4>2. Unclear(q, inv) BY <1>2, <1>3, <1>9, <4>1, ScoreType
        <4>3. QED BY <4>2 DEF RefusesForAReason
      <3>4. QED BY <1>8, <2>2, <3>1, <3>2, <3>3
    <2>3. best.ok => RefusesForAReason(q, inv, best) BY DEF RefusesForAReason
    <2>4. ~best.ok => AnswersWithTheOne(q, inv, best) BY DEF AnswersWithTheOne
    <2>5. best.ok /\ q.kind = "content_library_item" => inv.libraries = 1
      BY <1>6, <1>10, <1>11
    <2>6. QED BY <1>8, <1>11, <2>1, <2>2, <2>3, <2>4, <2>5
  <1>12. CASE r = Error /\ r # best
    <2>1. r.ok = FALSE BY <1>10, <1>12
    <2>2. RefusesForAReason(q, inv, r)
      <3>1. CASE q.kind = "content_library_item" /\ inv.libraries # 1
        BY <3>1 DEF RefusesForAReason
      <3>2. CASE q.kind = "host" /\ best.ok /\ best.object.value = Unset
        BY <1>8, <1>9, <3>2 DEF RefusesForAReason
      <3>3. QED BY <1>6, <1>12, <3>1, <3>2
    <2>3. AnswersWithTheOne(q, inv, r) BY <2>1 DEF AnswersWithTheOne
    <2>4. QED BY <2>1, <2>2, <2>3
  <1>13. QED BY <1>6, <1>11, <1>12

(* The other order *)

\* The order of the objects does not change which are asked for.
LEMMA BackwardsIs ==
  ASSUME NEW q, NEW inv, IsInventory(inv)
  PROVE  /\ IsInventory(Backwards(inv)) /\ Backwards(inv).kind = inv.kind
         /\ Backwards(inv).libraries = inv.libraries
         /\ Matching(q, Backwards(inv)) = Matching(q, inv)
         /\ Unclear(q, Backwards(inv)) = Unclear(q, inv)
         /\ NameIsShared(q, Backwards(inv)) = NameIsShared(q, inv)
  <1> DEFINE list == inv.objects
             back == Backwards(inv)
             N == Len(list)
  <1>1. /\ N \in Nat /\ list \in [1 .. N -> ToSet(list)] /\ ToSet(list) = {list[n] : n \in 1 .. N}
        /\ \A m, n \in 1 .. N : list[m] = list[n] => m = n
    <2>1. IsList(list) /\ IsInjective(list) BY DEF IsInventory
    <2>2. QED BY <2>1 DEF IsList, ToSet, IsInjective
  <1>2. /\ back.objects = Reverse(list) /\ back.kind = inv.kind /\ back.at = inv.at
        /\ back.libraries = inv.libraries
    BY DEF Backwards
  <1>3. Reverse(list) = [n \in 1 .. N |-> list[(N - n) + 1]] BY DEF Reverse
  <1> HIDE DEF back, N
  <1>4. Reverse(list) \in [1 .. N -> ToSet(list)] /\ DOMAIN Reverse(list) = 1 .. N
    BY <1>1, <1>3
  <1>5. ToSet(Reverse(list)) = ToSet(list)
    <2>1. ASSUME NEW x \in ToSet(list) PROVE x \in ToSet(Reverse(list))
      <3>1. PICK n \in 1 .. N : x = list[n] BY <1>1
      <3>2. (N - n) + 1 \in 1 .. N /\ (N - ((N - n) + 1)) + 1 = n BY <1>1
      <3>3. Reverse(list)[(N - n) + 1] = x BY <1>3, <3>1, <3>2
      <3>4. QED BY <1>4, <3>2, <3>3 DEF ToSet
    <2>2. ASSUME NEW x \in ToSet(Reverse(list)) PROVE x \in ToSet(list)
      BY <1>4, <2>2 DEF ToSet
    <2>3. QED BY <2>1, <2>2
  <1>6. IsList(Reverse(list))
    <2>1. \A S, f : \A n \in Nat : f \in [1 .. n -> S] => f \in Seq(S) OBVIOUS
    <2>2. Reverse(list) \in Seq(ToSet(list)) BY <1>1, <1>4, <2>1, Zenon
    <2>3. QED BY <1>5, <2>2, Zenon DEF IsList
  <1>7. IsInjective(Reverse(list))
    <2> SUFFICES ASSUME NEW m \in 1 .. N, NEW n \in 1 .. N, Reverse(list)[m] = Reverse(list)[n]
                 PROVE  m = n
      BY <1>4 DEF IsInjective
    <2>1. (N - m) + 1 \in 1 .. N /\ (N - n) + 1 \in 1 .. N BY <1>1
    <2>2. (N - m) + 1 = (N - n) + 1 BY <1>1, <1>3, <2>1
    <2>3. QED BY <1>1, <2>2
  <1>8. ToSet(back.objects) = ToSet(inv.objects) BY <1>2, <1>5
  <1>9. IsInventory(back) BY <1>2, <1>5, <1>6, <1>7, <1>8 DEF IsInventory
  <1>10. PlacesFound(q, back) <=> PlacesFound(q, inv) BY <1>2 DEF PlacesFound
  <1>11. ASSUME NEW place, NEW o PROVE IsAt(q, place, back, o) <=> IsAt(q, place, inv, o)
    BY <1>2 DEF IsAt
  <1>12. Matching(q, back) = Matching(q, inv)
    <2>1. ASSUME NEW o PROVE o \in Matching(q, back) <=> o \in Matching(q, inv)
      BY <1>8, <1>10, <1>11 DEF Matching
    <2>2. QED BY <2>1
  <1>13. Unclear(q, back) = Unclear(q, inv) BY <1>8 DEF Unclear
  <1>14. NameIsShared(q, back) = NameIsShared(q, inv) BY <1>2, <1>8 DEF NameIsShared
  <1>15. QED BY <1>2, <1>9, <1>12, <1>13, <1>14 DEF back

\* Every data source finds the one, whatever the inventory.
LEMMA DataSourceFindsTheOne ==
  ASSUME NEW q, NEW inv, IsQuery(q), IsInventory(inv), q.kind = inv.kind
  PROVE  FindsTheOne(q, inv)
  <1> SUFFICES ASSUME ~NameIsShared(q, inv) PROVE FindsTheOne(q, inv) BY DEF FindsTheOne
  <1> DEFINE r == Execute(q, inv)
             back == Backwards(inv)
             other == Execute(q, back)
             all == Matching(q, inv)
  <1>1. /\ r.ok \in BOOLEAN /\ AnswersWithTheOne(q, inv, r) /\ RefusesForAReason(q, inv, r)
        /\ r.ok => /\ q.kind = "content_library_item" => inv.libraries = 1
                   /\ all = {r.object} \/ \A o \in all : ScoreOf(q, o) \in Nat
    BY ExecuteFinds
  <1>2. /\ IsInventory(back) /\ back.kind = inv.kind /\ back.libraries = inv.libraries
        /\ Matching(q, back) = all /\ Unclear(q, back) = Unclear(q, inv)
        /\ ~NameIsShared(q, back)
    BY BackwardsIs
  <1> HIDE DEF back
  <1>3. /\ other.ok \in BOOLEAN /\ AnswersWithTheOne(q, back, other)
        /\ RefusesForAReason(q, back, other)
        /\ other.ok => /\ q.kind = "content_library_item" => back.libraries = 1
                       /\ Matching(q, back) = {other.object}
                          \/ \A o \in Matching(q, back) : ScoreOf(q, o) \in Nat
    BY <1>2, ExecuteFinds
  <1> HIDE DEF r, other, all
  <1>4. r.ok => /\ r.object \in all /\ (q.alt \/ all = {r.object})
                /\ \A o \in all \ {r.object} : ScoreOf(q, o) <= ScoreOf(q, r.object)
    BY <1>1 DEF AnswersWithTheOne, all
  <1>5. other.ok => /\ other.object \in all /\ (q.alt \/ all = {other.object})
                    /\ \A o \in all \ {other.object} : ScoreOf(q, o) <= ScoreOf(q, other.object)
    BY <1>2, <1>3 DEF AnswersWithTheOne
  <1>6. \/ r.ok \/ Unclear(q, inv) \/ all = {} \/ (Cardinality(all) > 1 /\ ~q.alt)
        \/ (q.kind = "content_library_item" /\ inv.libraries # 1)
    BY <1>1 DEF RefusesForAReason, all
  <1>7. \/ other.ok \/ Unclear(q, inv) \/ all = {} \/ (Cardinality(all) > 1 /\ ~q.alt)
        \/ (q.kind = "content_library_item" /\ inv.libraries # 1)
    BY <1>2, <1>3 DEF RefusesForAReason
  <1>8. ASSUME NEW o, all = {o} PROVE ~(Cardinality(all) > 1)
    <2>1. Cardinality({o}) = 1 BY FS_Singleton
    <2>2. ~(1 > 1) OBVIOUS
    <2>3. QED BY <1>8, <2>1, <2>2
  <1>9. r.ok = other.ok \/ Unclear(q, inv)
    <2>1. CASE r.ok BY <1>1, <1>3, <1>4, <1>7, <1>8, <2>1
    <2>2. CASE other.ok BY <1>1, <1>2, <1>3, <1>5, <1>6, <1>8, <2>2
    <2>3. QED BY <1>1, <1>3, <2>1, <2>2
  <1>10. ASSUME r.ok, other.ok, r.object # other.object
         PROVE  ScoreOf(q, r.object) = ScoreOf(q, other.object)
    <2>1. r.object \in all /\ other.object \in all BY <1>4, <1>5, <1>10
    <2>2. ScoreOf(q, r.object) \in Nat /\ ScoreOf(q, other.object) \in Nat
      BY <1>1, <1>10, <2>1
    <2>3. ScoreOf(q, r.object) <= ScoreOf(q, other.object) BY <1>5, <1>10, <2>1
    <2>4. ScoreOf(q, other.object) <= ScoreOf(q, r.object) BY <1>4, <1>10, <2>1
    <2>5. QED BY <2>2, <2>3, <2>4
  <1>11. QED BY <1>1, <1>9, <1>10 DEF FindsTheOne, r, other, back

-----------------------------------------------------------------------------
(* The attachment of disks *)

(* The turns of the three loops of the allocation *)

\* One turn of the loop that makes the controllers of the disks without an address.
LEMMA LegacyControllersTurn ==
  ASSUME NEW c, NEW s, Len(c.types) \in Nat
  PROVE  \E after :
            /\ after[0] = s /\ LegacyControllers(c, s) = after[Len(c.types)]
            /\ \A n \in 0 .. Len(c.types) - 1 : after[n + 1] = AddLegacyController(after[n], c.types[n + 1])
  <1> DEFINE N == Len(c.types)
             Step(x, n) == AddLegacyController(x, c.types[n])
             Is(f, M) == f = [n \in 0 .. M |-> IF n = 0 THEN s ELSE Step(f[n - 1], n)]
             T == {M \in Nat : \E f : Is(f, M)}
             after == CHOOSE f : Is(f, N)
  <1>1. N \in T
    <2> HIDE DEF Step, N
    <2>1. 0 \in T
      <3>1. Is([n \in 0 .. 0 |-> s], 0) OBVIOUS
      <3>2. QED BY <3>1
    <2>2. ASSUME NEW M \in 0 .. N - 1, M \in T PROVE M + 1 \in T
      <3>1. PICK f : Is(f, M) BY <2>2
      <3>2. Is([n \in 0 .. M + 1 |-> IF n = M + 1 THEN Step(f[M], n) ELSE f[n]], M + 1)
        BY <3>1
      <3>3. M + 1 \in Nat BY DEF N
      <3>4. QED BY <3>2, <3>3
    <2>3. \A M \in 0 .. N - 1 : M \in T => M + 1 \in T BY <2>2
    <2> HIDE DEF T
    <2>4. N \in Nat BY DEF N
    <2>5. \A n \in 0 .. N : n \in T BY <2>1, <2>3, <2>4, BoundedInduction
    <2>6. QED BY <2>4, <2>5
  <1>2. Is(after, N) BY <1>1
  <1>3. LegacyControllers(c, s) = after[N] BY DEF LegacyControllers
  <1> HIDE DEF after, Step
  <1>4. after[0] = s BY <1>2
  <1>5. ASSUME NEW n \in 0 .. N - 1 PROVE after[n + 1] = Step(after[n], n + 1)
    <2>1. n + 1 \in 0 .. N /\ n + 1 # 0 /\ (n + 1) - 1 = n OBVIOUS
    <2>2. QED BY <1>2, <2>1
  <1>6. QED BY <1>3, <1>4, <1>5 DEF Step

\* One turn of the loop that attaches these disks.
LEMMA LegacyDisksTurn ==
  ASSUME NEW c, NEW s, Len(c.storage) \in Nat
  PROVE  \E after :
            /\ after[0] = s /\ LegacyDisks(c, s) = after[Len(c.storage)]
            /\ \A n \in 0 .. Len(c.storage) - 1 :
              after[n + 1] = IF n + 1 \in Legacy(c) THEN AddLegacyDisk(c, after[n], n + 1) ELSE after[n]
  <1> DEFINE N == Len(c.storage)
             Step(x, n) == IF n \in Legacy(c) THEN AddLegacyDisk(c, x, n) ELSE x
             Is(f, M) == f = [n \in 0 .. M |-> IF n = 0 THEN s ELSE Step(f[n - 1], n)]
             T == {M \in Nat : \E f : Is(f, M)}
             after == CHOOSE f : Is(f, N)
  <1>1. N \in T
    <2> HIDE DEF Step, N
    <2>1. 0 \in T
      <3>1. Is([n \in 0 .. 0 |-> s], 0) OBVIOUS
      <3>2. QED BY <3>1
    <2>2. ASSUME NEW M \in 0 .. N - 1, M \in T PROVE M + 1 \in T
      <3>1. PICK f : Is(f, M) BY <2>2
      <3>2. Is([n \in 0 .. M + 1 |-> IF n = M + 1 THEN Step(f[M], n) ELSE f[n]], M + 1)
        BY <3>1
      <3>3. M + 1 \in Nat BY DEF N
      <3>4. QED BY <3>2, <3>3
    <2>3. \A M \in 0 .. N - 1 : M \in T => M + 1 \in T BY <2>2
    <2> HIDE DEF T
    <2>4. N \in Nat BY DEF N
    <2>5. \A n \in 0 .. N : n \in T BY <2>1, <2>3, <2>4, BoundedInduction
    <2>6. QED BY <2>4, <2>5
  <1>2. Is(after, N) BY <1>1
  <1>3. LegacyDisks(c, s) = after[N] BY DEF LegacyDisks
  <1> HIDE DEF after, Step
  <1>4. after[0] = s BY <1>2
  <1>5. ASSUME NEW n \in 0 .. N - 1 PROVE after[n + 1] = Step(after[n], n + 1)
    <2>1. n + 1 \in 0 .. N /\ n + 1 # 0 /\ (n + 1) - 1 = n OBVIOUS
    <2>2. QED BY <1>2, <2>1
  <1>6. QED BY <1>3, <1>4, <1>5 DEF Step

\* One turn of the loop that attaches the disks with an address.
LEMMA ExplicitDisksTurn ==
  ASSUME NEW c, NEW s, Len(c.storage) \in Nat
  PROVE  \E after :
            /\ after[0] = s /\ ExplicitDisks(c, s) = after[Len(c.storage)]
            /\ \A n \in 0 .. Len(c.storage) - 1 :
              after[n + 1] = IF n + 1 \in Explicit(c) THEN AddExplicitDisk(c, after[n], n + 1) ELSE after[n]
  <1> DEFINE N == Len(c.storage)
             Step(x, n) == IF n \in Explicit(c) THEN AddExplicitDisk(c, x, n) ELSE x
             Is(f, M) == f = [n \in 0 .. M |-> IF n = 0 THEN s ELSE Step(f[n - 1], n)]
             T == {M \in Nat : \E f : Is(f, M)}
             after == CHOOSE f : Is(f, N)
  <1>1. N \in T
    <2> HIDE DEF Step, N
    <2>1. 0 \in T
      <3>1. Is([n \in 0 .. 0 |-> s], 0) OBVIOUS
      <3>2. QED BY <3>1
    <2>2. ASSUME NEW M \in 0 .. N - 1, M \in T PROVE M + 1 \in T
      <3>1. PICK f : Is(f, M) BY <2>2
      <3>2. Is([n \in 0 .. M + 1 |-> IF n = M + 1 THEN Step(f[M], n) ELSE f[n]], M + 1)
        BY <3>1
      <3>3. M + 1 \in Nat BY DEF N
      <3>4. QED BY <3>2, <3>3
    <2>3. \A M \in 0 .. N - 1 : M \in T => M + 1 \in T BY <2>2
    <2> HIDE DEF T
    <2>4. N \in Nat BY DEF N
    <2>5. \A n \in 0 .. N : n \in T BY <2>1, <2>3, <2>4, BoundedInduction
    <2>6. QED BY <2>4, <2>5
  <1>2. Is(after, N) BY <1>1
  <1>3. ExplicitDisks(c, s) = after[N] BY DEF ExplicitDisks
  <1> HIDE DEF after, Step
  <1>4. after[0] = s BY <1>2
  <1>5. ASSUME NEW n \in 0 .. N - 1 PROVE after[n + 1] = Step(after[n], n + 1)
    <2>1. n + 1 \in 0 .. N /\ n + 1 # 0 /\ (n + 1) - 1 = n OBVIOUS
    <2>2. QED BY <1>2, <2>1
  <1>6. QED BY <1>3, <1>4, <1>5 DEF Step

(* Sequences that grow *)

\* A list with one more member.
LEMMA AppendIs ==
  ASSUME NEW S, NEW list \in Seq(S), NEW x \in S
  PROVE  /\ Append(list, x) \in Seq(S) /\ Len(list) \in Nat
         /\ DOMAIN list = 1 .. Len(list) /\ DOMAIN Append(list, x) = 1 .. Len(list) + 1
         /\ Len(Append(list, x)) = Len(list) + 1
         /\ \A n \in 1 .. Len(list) : Append(list, x)[n] = list[n]
         /\ Append(list, x)[Len(list) + 1] = x
         /\ ToSet(Append(list, x)) = ToSet(list) \cup {x}
         /\ IsInjective(list) /\ x \notin ToSet(list) => IsInjective(Append(list, x))
  <1> DEFINE more == Append(list, x)
             N == Len(list)
  <1>1. /\ more \in Seq(S) /\ N \in Nat /\ DOMAIN list = 1 .. N /\ DOMAIN more = 1 .. N + 1
        /\ Len(more) = N + 1 /\ more[N + 1] = x
    OBVIOUS
  <1>2. \A n \in 1 .. N : more[n] = list[n] OBVIOUS
  <1>3. ToSet(more) = ToSet(list) \cup {x} BY ToSetAppend
  <1> HIDE DEF more, N
  <1>4. ASSUME IsInjective(list), x \notin ToSet(list) PROVE IsInjective(more)
    <2>1. \A n \in 1 .. N + 1 : n \in 1 .. N \/ n = N + 1 BY <1>1
    <2>2. \A n \in 1 .. N : more[n] # x BY <1>1, <1>2, <1>4 DEF ToSet
    <2>3. QED BY <1>1, <1>2, <1>4, <2>1, <2>2 DEF IsInjective
  <1>5. QED BY <1>1, <1>2, <1>3, <1>4 DEF more, N

\* A list without repetitions is as long as it has members.
LEMMA ListSize ==
  ASSUME NEW S, NEW list \in Seq(S), IsInjective(list)
  PROVE  IsFiniteSet(ToSet(list)) /\ Cardinality(ToSet(list)) = Len(list)
  <1>1. Len(list) \in Nat /\ list \in [1 .. Len(list) -> ToSet(list)] BY DEF ToSet
  <1>2. \A x \in ToSet(list) : \E n \in 1 .. Len(list) : list[n] = x BY <1>1 DEF ToSet
  <1>3. list \in Bijection(1 .. Len(list), ToSet(list))
    BY <1>1, <1>2 DEF Bijection, Injection, Surjection
  <1>4. IsFiniteSet(1 .. Len(list)) /\ Cardinality(1 .. Len(list)) = Len(list)
    BY <1>1, IntervalIsFinite
  <1>5. ExistsBijection(1 .. Len(list), ToSet(list)) BY <1>3 DEF ExistsBijection
  <1>6. QED BY <1>4, <1>5, FS_Bijection

(* The configuration *)

\* What Prepare and prepareStorage have made sure of.
LEMMA ConfigurationIs ==
  ASSUME NEW c, IsConfiguration(c), Prepared(c)
  PROVE  /\ Len(c.storage) \in Nat /\ DOMAIN c.storage = 1 .. Len(c.storage)
         /\ Len(c.types) \in Nat
         /\ Explicit(c) \subseteq 1 .. Len(c.storage) /\ Explicit(c) = Parsed(c)
         /\ \A i \in 1 .. Len(c.storage) : i \in Legacy(c) <=> i \notin Explicit(c)
         /\ \A i \in Explicit(c) :
              /\ c.storage[i].address \in Addresses /\ c.storage[i].explicit
              /\ ValidateControllerUnitStatic(c, i)
         /\ \A i \in Legacy(c) :
              /\ ~c.storage[i].explicit
              /\ c.storage[i].index \in Nat /\ c.storage[i].index + 1 \in 1 .. Len(c.types)
         /\ c.storage # << >> => \A n \in 1 .. Len(c.types) : c.types[n] \in SupportedDiskControllerTypes
         /\ Len(c.storage) # 0 => c.storage # << >>
         /\ Len(c.storage) = 0 => Explicit(c) = {} /\ Legacy(c) = {}
  <1>1. /\ Len(c.storage) \in Nat /\ DOMAIN c.storage = 1 .. Len(c.storage)
        /\ Len(c.types) \in Nat /\ DOMAIN c.types = 1 .. Len(c.types)
        /\ \A i \in 1 .. Len(c.storage) : IsDisk(c.storage[i])
        /\ Len(c.storage) # 0 => c.storage # << >>
    <2>1. c.storage \in Seq(ToSet(c.storage)) /\ c.types \in Seq(ToSet(c.types))
      BY DEF IsConfiguration, IsList
    <2>2. DOMAIN c.storage = 1 .. Len(c.storage) BY <2>1
    <2>3. Len(c.storage) # 0 => c.storage # << >> OBVIOUS
    <2>4. QED BY <2>1, <2>2, <2>3 DEF IsConfiguration
  <1>2. Explicit(c) \subseteq 1 .. Len(c.storage)
        /\ \A i \in 1 .. Len(c.storage) : i \in Legacy(c) <=> i \notin Explicit(c)
    BY <1>1 DEF Explicit, Legacy
  <1>3. ASSUME NEW i \in Explicit(c)
        PROVE  /\ c.storage[i].address \in Addresses /\ c.storage[i].explicit
               /\ ValidateControllerUnitStatic(c, i) /\ i \in Parsed(c)
    <2>1. i \in 1 .. Len(c.storage) /\ c.storage[i].explicit BY <1>2 DEF Explicit
    <2>2. c.storage # << >> BY <1>1, <2>1
    <2>3. ValidateControllerUnitStatic(c, i) BY <2>2 DEF Prepared
    <2>4. QED BY <1>1, <2>1, <2>3 DEF IsDisk, ValidateControllerUnitStatic
  <1>4. ASSUME NEW i \in Legacy(c)
        PROVE  /\ ~c.storage[i].explicit
               /\ c.storage[i].index \in Nat /\ c.storage[i].index + 1 \in 1 .. Len(c.types)
    <2>1. i \in 1 .. Len(c.storage) /\ ~c.storage[i].explicit BY <1>1 DEF Explicit, Legacy
    <2>2. c.storage[i].index \in Nat BY <1>1, <2>1 DEF IsDisk
    <2>3. c.storage[i].index < Len(c.types) BY DEF Prepared
    <2>4. QED BY <1>1, <2>1, <2>2, <2>3
  <1>5. Parsed(c) \subseteq Explicit(c) BY DEF Parsed
  <1>6. ASSUME c.storage # << >>
        PROVE  \A n \in 1 .. Len(c.types) : c.types[n] \in SupportedDiskControllerTypes
    BY <1>1, <1>6 DEF Prepared
  <1>7. Len(c.storage) = 0 => Explicit(c) = {} /\ Legacy(c) = {}
    BY <1>1 DEF Explicit, Legacy
  <1>8. QED BY <1>1, <1>2, <1>3, <1>4, <1>5, <1>6, <1>7

(* The state of the allocation *)

\* The buses that have a controller.
Buses(controllers) == {<<k.kind, k.bus>> : k \in controllers}
\* What a controller is.
ControllerType == [kind : Kinds, bus : 0 .. MaxBus, type : SupportedDiskControllerTypes]
\* What the place of a disk is.
PlaceType == [kind : Kinds, bus : 0 .. MaxBus, unit : Nat]

\* A bus of the template that an explicit disk asks for.
OldBus(c, t) == \E i \in Explicit(c) : BusAt(c, i) \in Buses(t.controllers)

\* The state of the allocation is a record of these fields.
Shape(s) ==
  /\ s = [ok |-> s.ok, controllers |-> s.controllers, devices |-> s.devices,
          made |-> s.made, next |-> s.next, order |-> s.order, place |-> s.place]
  /\ s.ok \in BOOLEAN

\* The controllers that are there, no two on one bus.
ControllersFit(t, s) ==
  /\ t.controllers \subseteq s.controllers /\ s.controllers \subseteq ControllerType
  /\ \A k, l \in s.controllers : k.kind = l.kind /\ k.bus = l.bus => k = l

\* The disk i fits at the place p: on a controller, at a unit of it.
Seat(c, t, s, i, p) ==
  \E k \in s.controllers :
    /\ k.kind = p.kind /\ k.bus = p.bus
    /\ p.unit <= LastUnit(k.type) \/ OldBus(c, t)
    /\ ~(p.kind = "scsi" /\ p.unit = Reserved)
    /\ IF c.storage[i].explicit THEN p = PlaceOf(c.storage[i].address)
       ELSE k = s.made[c.storage[i].index + 1]

\* The disks D are attached, each at a place of its own.
DisksFit(c, t, s, D) ==
  /\ s.order \in Seq(Nat) /\ IsInjective(s.order) /\ ToSet(s.order) = D
  /\ s.place \in Seq(PlaceType) /\ IsInjective(s.place) /\ Len(s.place) = Len(s.order)
  /\ s.devices = t.devices \cup ToSet(s.place) /\ ToSet(s.place) \cap t.devices = {}
  /\ \A n \in 1 .. Len(s.order) : Seat(c, t, s, s.order[n], s.place[n])

\* The controllers of the disks without an address are there.
MadeFit(s) == s.made \in Seq(ControllerType) /\ ToSet(s.made) \subseteq s.controllers

\* The disks D are attached as asked: the invariant of the allocation.
Fine(c, t, s, D) == ControllersFit(t, s) /\ DisksFit(c, t, s, D) /\ MadeFit(s)

\* A controller that is made is of a kind there is.
LEMMA KindOfType == \A type \in SupportedDiskControllerTypes : KindOf(type) \in Kinds
  BY DEF SupportedDiskControllerTypes, SCSITypes, KindOf, Kinds

\* The last unit is a number.
LEMMA LastUnitType == \A type : LastUnit(type) \in Nat
  BY DiskAttachmentAssumption DEF LastUnit, Families

\* With one controller on each bus, there are finitely many.
LEMMA ControllersFinite ==
  ASSUME NEW controllers, controllers \subseteq ControllerType,
         \A k, l \in controllers : k.kind = l.kind /\ k.bus = l.bus => k = l
  PROVE  IsFiniteSet(controllers)
  <1> DEFINE all == Kinds \X (0 .. MaxBus)
             f == [k \in controllers |-> <<k.kind, k.bus>>]
  <1>1. IsFiniteSet(Kinds)
    <2>1. IsFiniteSet({"scsi"}) BY FS_Singleton
    <2>2. IsFiniteSet({"scsi"} \cup {"nvme"}) BY <2>1, FS_AddElement
    <2>3. IsFiniteSet(({"scsi"} \cup {"nvme"}) \cup {"sata"}) BY <2>2, FS_AddElement
    <2>4. Kinds = ({"scsi"} \cup {"nvme"}) \cup {"sata"} BY DEF Kinds
    <2>5. QED BY <2>3, <2>4
  <1>2. IsFiniteSet(0 .. MaxBus) BY DiskAttachmentAssumption, IntervalIsFinite
  <1>3. IsFiniteSet(all) BY <1>1, <1>2, FS_Product
  <1>4. f \in Injection(controllers, all)
    BY DEF ControllerType, Injection, IsInjective
  <1>5. QED BY <1>3, <1>4, FS_Injection

\* A new controller is on the lowest bus of its kind that has none.
LEMMA FreeBusIs ==
  ASSUME NEW s, NEW type \in SupportedDiskControllerTypes, FreeBuses(s, KindOf(type)) # {},
         NEW k, k = NewController(s, type)
  PROVE  /\ k \in ControllerType /\ k.kind = KindOf(type) /\ k.type = type
         /\ \A l \in s.controllers : ~(l.kind = k.kind /\ l.bus = k.bus)
         /\ \A b \in 0 .. k.bus - 1 : OnBus(s, k.kind, b) # {}
  <1> DEFINE free == FreeBuses(s, KindOf(type))
  <1>1. free \subseteq 0 .. MaxBus /\ free # {} BY DEF FreeBuses
  <1>2. Min(free) \in free /\ \A y \in free : Min(free) <= y
    <2>1. free \subseteq Nat BY <1>1
    <2> HIDE DEF free
    <2>2. QED BY <1>1, <2>1, MinIs
  <1>3. k = [kind |-> KindOf(type), bus |-> Min(free), type |-> type]
    BY DEF NewController, Controller
  <1>4. Min(free) \in 0 .. MaxBus BY <1>1, <1>2
  <1>5. k \in ControllerType BY <1>3, <1>4, KindOfType DEF ControllerType
  <1>6. \A l \in s.controllers : ~(l.kind = k.kind /\ l.bus = k.bus)
    <2>1. OnBus(s, k.kind, k.bus) = {} BY <1>2, <1>3 DEF FreeBuses
    <2>2. QED BY <2>1 DEF OnBus
  <1>7. ASSUME NEW b \in 0 .. k.bus - 1 PROVE OnBus(s, k.kind, b) # {}
    <2>1. k.bus = Min(free) /\ k.kind = KindOf(type) BY <1>3
    <2>2. b \in 0 .. MaxBus /\ ~(Min(free) <= b)
      <3> HIDE DEF free
      <3>1. MaxBus \in Nat BY DiskAttachmentAssumption
      <3>2. QED BY <1>4, <2>1, <3>1
    <2>3. b \notin free BY <1>2, <2>2
    <2>4. QED BY <2>1, <2>2, <2>3 DEF FreeBuses
  <1>8. QED BY <1>3, <1>5, <1>6, <1>7

\* A bus is taken if a controller is on it.
LEMMA BusTaken ==
  ASSUME NEW s, NEW kind, NEW bus
  PROVE  OnBus(s, kind, bus) # {} <=> <<kind, bus>> \in Buses(s.controllers)
  BY DEF OnBus, Buses

\* The start.
LEMMA StartIsFine ==
  ASSUME NEW c, NEW t, IsTemplate(t), NEW s, s = Start(t)
  PROVE  /\ Shape(s) /\ s.ok /\ Fine(c, t, s, {}) /\ s.controllers = t.controllers
         /\ s.made = << >> /\ s.next = 1
  <1>1. /\ Shape(s) /\ s.ok /\ s.controllers = t.controllers /\ s.devices = t.devices
        /\ s.made = << >> /\ s.next = 1 /\ s.order = << >> /\ s.place = << >>
    BY DEF Start, Shape
  <1>2. \A S : << >> \in Seq(S) OBVIOUS
  <1>3. ToSet(<< >>) = {} /\ IsInjective(<< >>) /\ Len(<< >>) = 0 BY DEF ToSet, IsInjective
  <1>4. ControllersFit(t, s) BY <1>1 DEF ControllersFit, IsTemplate, ControllerType
  <1>5. DisksFit(c, t, s, {}) BY <1>1, <1>2, <1>3 DEF DisksFit
  <1>6. MadeFit(s) BY <1>1, <1>2, <1>3 DEF MadeFit
  <1>7. QED BY <1>1, <1>4, <1>5, <1>6 DEF Fine

\* A refusal changes nothing but ok.
LEMMA RefuseIs ==
  ASSUME NEW s, Shape(s) PROVE Shape(Refuse(s)) /\ Refuse(s).ok = FALSE
  <1> DEFINE r == Refuse(s)
  <1>1. /\ r.controllers = s.controllers /\ r.devices = s.devices /\ r.made = s.made
        /\ r.next = s.next /\ r.order = s.order /\ r.place = s.place
    BY DEF Shape, Refuse
  <1>2. r.ok = FALSE
    <2>1. "ok" \in DOMAIN s BY DEF Shape
    <2>2. QED BY <2>1, Zenon DEF Refuse
  <1>3. DOMAIN r = {"ok", "controllers", "devices", "made", "next", "order", "place"}
        /\ r = [x \in DOMAIN r |-> r[x]]
    <2>1. DOMAIN s = {"ok", "controllers", "devices", "made", "next", "order", "place"}
      BY DEF Shape
    <2>2. QED BY <2>1 DEF Refuse
  <1> HIDE DEF r
  <1>4. r = [ok |-> r.ok, controllers |-> r.controllers, devices |-> r.devices,
             made |-> r.made, next |-> r.next, order |-> r.order, place |-> r.place]
    BY <1>3
  <1>5. QED BY <1>2, <1>4 DEF Shape, r

\* One controller more.
LEMMA OneController ==
  ASSUME NEW c, NEW t, NEW D, NEW s, Shape(s), Fine(c, t, s, D),
         NEW k \in ControllerType, \A l \in s.controllers : ~(l.kind = k.kind /\ l.bus = k.bus),
         NEW r, Shape(r), r.controllers = s.controllers \cup {k}, r.devices = s.devices,
         r.order = s.order, r.place = s.place, r.made = s.made \/ s.order = << >>, MadeFit(r)
  PROVE  Fine(c, t, r, D)
  <1>1. ControllersFit(t, r) BY DEF Fine, ControllersFit
  <1>2. ASSUME NEW n \in 1 .. Len(s.order), Seat(c, t, s, s.order[n], s.place[n])
        PROVE  Seat(c, t, r, s.order[n], s.place[n])
    <2>1. r.made = s.made
      <3>1. CASE s.order = << >>
        <4>1. Len(s.order) = 0 BY <3>1
        <4>2. QED BY <4>1
      <3>2. QED BY <3>1
    <2>2. QED BY <1>2, <2>1 DEF Seat
  <1>3. DisksFit(c, t, r, D) BY <1>2 DEF Fine, DisksFit
  <1>4. QED BY <1>1, <1>3 DEF Fine

\* What Attach does to each field.
LEMMA AttachIs ==
  ASSUME NEW s, Shape(s), NEW i, NEW p, NEW r, r = Attach(s, i, p)
  PROVE  /\ Shape(r) /\ r.ok = s.ok /\ r.controllers = s.controllers /\ r.made = s.made
         /\ r.next = s.next /\ r.devices = s.devices \cup {p}
         /\ r.order = Append(s.order, i) /\ r.place = Append(s.place, p)
  BY DEF Shape, Attach

\* What one disk more leaves as it is.
Attached(c, t, D, s, r, i) ==
  /\ Shape(r) /\ r.ok = s.ok /\ r.controllers = s.controllers /\ r.next = s.next
  /\ Fine(c, t, r, D \cup {i})

\* A disk more, at a place of its own, is fine.
LEMMA OneDisk ==
  ASSUME NEW c, NEW t, NEW D, NEW s, Shape(s), Fine(c, t, s, D), NEW i \in Nat, i \notin D,
         NEW p \in PlaceType, p \notin s.devices, Seat(c, t, s, i, p)
  PROVE  Attached(c, t, D, s, Attach(s, i, p), i)
  <1> DEFINE r == Attach(s, i, p)
  <1>1. /\ Shape(r) /\ r.ok = s.ok /\ r.controllers = s.controllers /\ r.made = s.made
        /\ r.next = s.next /\ r.devices = s.devices \cup {p}
        /\ r.order = Append(s.order, i) /\ r.place = Append(s.place, p)
    BY AttachIs
  <1> HIDE DEF r
  <1>2. /\ s.order \in Seq(Nat) /\ IsInjective(s.order) /\ ToSet(s.order) = D
        /\ s.place \in Seq(PlaceType) /\ IsInjective(s.place) /\ Len(s.place) = Len(s.order)
        /\ s.devices = t.devices \cup ToSet(s.place) /\ ToSet(s.place) \cap t.devices = {}
        /\ \A n \in 1 .. Len(s.order) : Seat(c, t, s, s.order[n], s.place[n])
    BY DEF Fine, DisksFit
  <1>3. /\ r.order \in Seq(Nat) /\ Len(s.order) \in Nat /\ Len(r.order) = Len(s.order) + 1
        /\ \A n \in 1 .. Len(s.order) : r.order[n] = s.order[n]
        /\ r.order[Len(s.order) + 1] = i
        /\ ToSet(r.order) = D \cup {i} /\ IsInjective(r.order)
    BY <1>1, <1>2, AppendIs
  <1>4. /\ r.place \in Seq(PlaceType) /\ Len(r.place) = Len(s.place) + 1
        /\ \A n \in 1 .. Len(s.place) : r.place[n] = s.place[n]
        /\ r.place[Len(s.place) + 1] = p
        /\ ToSet(r.place) = ToSet(s.place) \cup {p} /\ IsInjective(r.place)
    BY <1>1, <1>2, AppendIs
  <1>5. \A j, q : Seat(c, t, s, j, q) => Seat(c, t, r, j, q) BY <1>1 DEF Seat
  <1>6. ASSUME NEW n \in 1 .. Len(r.order) PROVE Seat(c, t, r, r.order[n], r.place[n])
    <2>1. n \in 1 .. Len(s.order) \/ n = Len(s.order) + 1 BY <1>3
    <2>2. CASE n \in 1 .. Len(s.order) BY <1>2, <1>3, <1>4, <1>5, <2>2
    <2>3. CASE n = Len(s.order) + 1 BY <1>2, <1>3, <1>4, <1>5, <2>3
    <2>4. QED BY <2>1, <2>2, <2>3
  <1>7. r.devices = t.devices \cup ToSet(r.place) /\ ToSet(r.place) \cap t.devices = {}
    BY <1>1, <1>2, <1>4
  <1>8. DisksFit(c, t, r, D \cup {i})
    <2>1. Len(r.place) = Len(r.order) BY <1>2, <1>3, <1>4
    <2>2. QED BY <1>3, <1>4, <1>6, <1>7, <2>1 DEF DisksFit
  <1>9. ControllersFit(t, r) /\ MadeFit(r) BY <1>1 DEF Fine, ControllersFit, MadeFit
  <1>10. QED BY <1>1, <1>8, <1>9 DEF Fine, Attached, r

(* The steps *)

\* A controller for disks without an address keeps what holds.
LEMMA LegacyControllerStep ==
  ASSUME NEW c, NEW t, NEW s, Shape(s), NEW type \in SupportedDiskControllerTypes,
         s.ok => Fine(c, t, s, {}) /\ s.order = << >>,
         NEW r, r = AddLegacyController(s, type)
  PROVE  /\ Shape(r)
         /\ r.ok => /\ s.ok /\ Fine(c, t, r, {}) /\ r.order = << >> /\ r.next = s.next
                    /\ Len(r.made) = Len(s.made) + 1
                    /\ Cardinality(r.controllers) = Cardinality(s.controllers) + 1
  <1>1. CASE ~s.ok \/ FreeBuses(s, KindOf(type)) = {}
    BY <1>1, RefuseIs DEF AddLegacyController
  <1>2. CASE s.ok /\ FreeBuses(s, KindOf(type)) # {}
    <2> DEFINE k == NewController(s, type)
    <2>1. /\ k \in ControllerType /\ \A l \in s.controllers : ~(l.kind = k.kind /\ l.bus = k.bus)
      BY <1>2, FreeBusIs
    <2>2. r = [s EXCEPT !.controllers = @ \cup {k}, !.made = Append(@, k)]
      BY <1>2 DEF AddLegacyController
    <2> HIDE DEF k
    <2>3. /\ Shape(r) /\ r.ok = s.ok /\ r.controllers = s.controllers \cup {k}
          /\ r.devices = s.devices /\ r.order = s.order /\ r.place = s.place /\ r.next = s.next
          /\ r.made = Append(s.made, k)
      BY <2>2 DEF Shape
    <2>4. s.made \in Seq(ControllerType) /\ ToSet(s.made) \subseteq s.controllers
      BY <1>2 DEF Fine, MadeFit
    <2>5. /\ r.made \in Seq(ControllerType) /\ Len(r.made) = Len(s.made) + 1
          /\ ToSet(r.made) = ToSet(s.made) \cup {k}
      BY <2>1, <2>3, <2>4, AppendIs
    <2>6. MadeFit(r) BY <2>3, <2>4, <2>5 DEF MadeFit
    <2>7. Fine(c, t, r, {}) BY <1>2, <2>1, <2>3, <2>6, OneController
    <2>8. Cardinality(r.controllers) = Cardinality(s.controllers) + 1
      <3>1. s.controllers \subseteq ControllerType
            /\ \A j, l \in s.controllers : j.kind = l.kind /\ j.bus = l.bus => j = l
        BY <1>2 DEF Fine, ControllersFit
      <3>2. IsFiniteSet(s.controllers) BY <3>1, ControllersFinite
      <3>3. k \notin s.controllers BY <2>1
      <3>4. QED BY ZenonT(30), <2>3, <3>2, <3>3, FS_AddElement
    <2>9. QED BY <1>2, <2>3, <2>5, <2>7, <2>8
  <1>3. QED BY <1>1, <1>2

\* The next state r has the disk i, if it is attached.
OneMore(c, t, D, s, r, i) ==
  /\ Shape(r)
  /\ r.ok => /\ s.ok /\ Fine(c, t, r, D \cup {i}) /\ r.next = s.next
             /\ r.controllers = s.controllers

\* A disk without an address is attached on the controller of its index, or refused.
LEMMA LegacyDiskStep ==
  ASSUME NEW c, NEW t, IsConfiguration(c), Prepared(c), NEW D, NEW s, Shape(s),
         s.ok => Fine(c, t, s, D), NEW i \in Legacy(c), i \notin D
  PROVE  OneMore(c, t, D, s, AddLegacyDisk(c, s, i), i)
  <1> SUFFICES ASSUME NEW r, r = AddLegacyDisk(c, s, i)
               PROVE  /\ Shape(r)
                      /\ r.ok => /\ s.ok /\ Fine(c, t, r, D \cup {i}) /\ r.next = s.next
                                 /\ r.controllers = s.controllers
    BY DEF OneMore
  <1> DEFINE n == c.storage[i].index + 1
             k == s.made[n]
             p == Place(k.kind, k.bus, Min(FreeUnits(s, k)))
             refused == ~s.ok \/ n > Len(s.made) \/ ~HasRoom(s, k) \/ FreeUnits(s, k) = {}
  <1>1. r = IF refused THEN Refuse(s) ELSE Attach(s, i, p) BY DEF AddLegacyDisk
  <1>2. CASE refused
    <2>1. r = Refuse(s) BY <1>1, <1>2
    <2>2. QED BY <2>1, RefuseIs
  <1>3. CASE ~refused
    <2>1. s.ok /\ ~(n > Len(s.made)) /\ FreeUnits(s, k) # {} BY <1>3
    <2>2. ~c.storage[i].explicit /\ n \in Nat /\ n >= 1 /\ i \in Nat
      <3>1. n \in 1 .. Len(c.types) BY ConfigurationIs
      <3>2. Len(c.types) \in Nat BY ConfigurationIs
      <3>3. i \in DOMAIN c.storage /\ DOMAIN c.storage = 1 .. Len(c.storage) /\ Len(c.storage) \in Nat
        BY ConfigurationIs DEF Legacy
      <3>4. ~c.storage[i].explicit BY ConfigurationIs
      <3>5. i \in Nat BY <3>3
      <3> HIDE DEF n
      <3>6. QED BY <3>1, <3>2, <3>4, <3>5
    <2> HIDE DEF n
    <2>3. k \in s.controllers /\ k \in ControllerType
      <3>1. s.made \in Seq(ControllerType) /\ ToSet(s.made) \subseteq s.controllers
        BY <2>1 DEF Fine, MadeFit
      <3>2. Len(s.made) \in Nat /\ DOMAIN s.made = 1 .. Len(s.made) BY <3>1
      <3>3. n \in DOMAIN s.made BY <2>1, <2>2, <3>2
      <3>4. s.made[n] \in ToSet(s.made) BY <3>3 DEF ToSet
      <3>5. s.controllers \subseteq ControllerType BY <2>1 DEF Fine, ControllersFit
      <3>6. QED BY <3>1, <3>4, <3>5
    <2> HIDE DEF k
    <2>4. Min(FreeUnits(s, k)) \in FreeUnits(s, k)
      <3>1. FreeUnits(s, k) \subseteq Nat BY LastUnitType DEF FreeUnits
      <3>2. QED BY <2>1, <3>1, MinIs
    <2>5. /\ p = [kind |-> k.kind, bus |-> k.bus, unit |-> Min(FreeUnits(s, k))]
          /\ p.unit \in Nat /\ p.unit <= LastUnit(k.type) /\ p \notin s.devices
          /\ (k.kind = "scsi" => p.unit # Reserved)
      BY <2>4, LastUnitType DEF FreeUnits, Place
    <2>6. p \in PlaceType BY <2>3, <2>5 DEF PlaceType, ControllerType
    <2>7. r = Attach(s, i, p) BY <1>1, <1>3
    <2> HIDE DEF p
    <2>8. Seat(c, t, s, i, p) BY <2>2, <2>3, <2>5 DEF Seat, k, n
    <2>9. s.ok /\ Fine(c, t, s, D) /\ i \in Nat /\ p \notin s.devices BY <2>1, <2>2, <2>5
    <2>10. Attached(c, t, D, s, Attach(s, i, p), i) BY <2>6, <2>8, <2>9, OneDisk
    <2>11. QED BY <2>7, <2>9, <2>10 DEF Attached
  <1>4. QED BY <1>2, <1>3

\* A disk is on a controller that is there.
LEMMA OnControllersOnly ==
  ASSUME NEW c, NEW t, IsTemplate(t), NEW D, NEW s, Fine(c, t, s, D), NEW d \in s.devices
  PROVE  <<d.kind, d.bus>> \in Buses(s.controllers)
  <1>1. CASE d \in t.devices
    BY <1>1 DEF IsTemplate, Fine, ControllersFit, Buses
  <1>2. CASE d \in ToSet(s.place)
    <2>1. DOMAIN s.place = 1 .. Len(s.place) /\ Len(s.place) = Len(s.order)
      BY DEF Fine, DisksFit
    <2>2. PICK n \in 1 .. Len(s.order) : d = s.place[n] BY <1>2, <2>1 DEF ToSet
    <2>3. Seat(c, t, s, s.order[n], d) BY <2>2 DEF Fine, DisksFit
    <2>4. QED BY <2>3 DEF Seat, Buses
  <1>3. QED BY <1>1, <1>2 DEF Fine, DisksFit

(* The types of the controllers of the explicit disks *)

\* The disks that are the first to mention a bus that the template has not.
New(c, t) == {i \in Mentions(c) : BusAt(c, i) \notin Buses(t.controllers)}

\* The entry of disk_controller_type that the bus takes.
Entry(c, t, i) == LegacyTypes(c) + Cardinality(UpTo(New(c, t), i))

\* A bus is there when the disk i is attached: of the template, or new before it.
There(c, t, i, bus) ==
  bus \in Buses(t.controllers) \/ \E j \in New(c, t) : j < i /\ BusAt(c, j) = bus

\* The entry makes a controller on the bus of the disk i.
EntryFits(c, t, i) ==
  /\ Entry(c, t, i) <= Len(c.types)
  /\ KindOf(c.types[Entry(c, t, i)]) = BusAt(c, i)[1]
  /\ \A b \in 0 .. BusAt(c, i)[2] - 1 : There(c, t, i, <<BusAt(c, i)[1], b>>)

\* TypesFit, bus by bus.
LEMMA TypesFitIs ==
  ASSUME NEW c, NEW t
  PROVE  TypesFit(c, Buses(t.controllers)) <=> \A i \in New(c, t) : EntryFits(c, t, i)
  <1>1. \A i : UpTo(New(c, t), i) = {j \in New(c, t) : j <= i} BY DEF UpTo
  <1>2. New(c, t) = {i \in Mentions(c) : BusAt(c, i) \notin Buses(t.controllers)} BY DEF New
  <1>3. QED BY <1>1, <1>2 DEF TypesFit, EntryFits, Entry, There

\* The disks that mention a bus first are disks with an address.
LEMMA MentionsAre ==
  ASSUME NEW c, IsConfiguration(c), Prepared(c), NEW t
  PROVE  /\ Mentions(c) \subseteq Explicit(c) /\ New(c, t) \subseteq Mentions(c)
         /\ \A i \in Explicit(c) : i \in Nat /\ i # 0
         /\ \A i \in New(c, t) : i \in Nat /\ i # 0
  <1>1. Explicit(c) = Parsed(c) /\ Explicit(c) \subseteq 1 .. Len(c.storage) /\ Len(c.storage) \in Nat
    BY ConfigurationIs
  <1>2. \A i \in Explicit(c) : i \in Nat /\ i # 0 BY <1>1
  <1>3. QED BY <1>1, <1>2 DEF Mentions, New

\* Every bus that is mentioned is mentioned first by a disk.
LEMMA FirstMention ==
  ASSUME NEW c, IsConfiguration(c), Prepared(c), NEW i \in Explicit(c)
  PROVE  \E j \in Mentions(c) : j <= i /\ BusAt(c, j) = BusAt(c, i)
  <1> DEFINE same == {j \in Explicit(c) : BusAt(c, j) = BusAt(c, i)}
  <1>1. same \subseteq Nat /\ same # {} BY MentionsAre
  <1>2. Min(same) \in same /\ \A j \in same : Min(same) <= j
    <2> HIDE DEF same
    <2>1. QED BY <1>1, MinIs
  <1>3. Explicit(c) = Parsed(c) BY ConfigurationIs
  <1>4. Min(same) \in Mentions(c) BY <1>2, <1>3 DEF Mentions
  <1>5. i \in same OBVIOUS
  <1>6. QED BY <1>2, <1>4, <1>5

\* The type that the check of the configuration takes for a bus is the one that the
\* controller of the bus is made of.
LEMMA TypeIndexIs ==
  ASSUME NEW c, IsConfiguration(c), Prepared(c), NEW t, ~OldBus(c, t),
         NEW i \in Explicit(c), NEW j \in Mentions(c), BusAt(c, j) = BusAt(c, i)
  PROVE  /\ TypeIndex(c, i) = Entry(c, t, j) /\ j \in New(c, t)
         /\ Entry(c, t, j) <= Len(c.types) =>
              c.storage[i].address.unit <= LastUnit(c.types[Entry(c, t, j)])
  <1>1. New(c, t) = Mentions(c) BY MentionsAre DEF New, OldBus
  <1> DEFINE first == {m \in Mentions(c) : \A k \in Parsed(c) : BusAt(c, k) = BusAt(c, i) => m <= k}
  <1>2. first = UpTo(Mentions(c), j)
    <2>1. Explicit(c) = Parsed(c) BY ConfigurationIs
    <2>2. \A m \in Parsed(c) : m \in Nat BY <2>1, MentionsAre
    <2>3. j \in Parsed(c) /\ Mentions(c) \subseteq Parsed(c) BY <2>1, MentionsAre
    <2>4. \A k \in Parsed(c) : BusAt(c, k) = BusAt(c, i) => j <= k BY DEF Mentions
    <2>5. ASSUME NEW m \in Mentions(c), m <= j, NEW k \in Parsed(c), BusAt(c, k) = BusAt(c, i)
          PROVE  m <= k
      <3>1. m \in Nat /\ k \in Nat /\ j \in Nat BY <2>2, <2>3
      <3>2. j <= k BY <2>4, <2>5
      <3>3. QED BY <2>5, <3>1, <3>2
    <2>6. QED BY <2>3, <2>5 DEF UpTo
  <1>3. TypeIndex(c, i) = LegacyTypes(c) + Cardinality(first) BY DEF TypeIndex
  <1>4. TypeIndex(c, i) = Entry(c, t, j) BY <1>1, <1>2, <1>3 DEF Entry
  <1>5. ValidateControllerUnitStatic(c, i) BY ConfigurationIs
  <1>6. QED BY <1>1, <1>4, <1>5 DEF ValidateControllerUnitStatic, StaticLastUnit

(* The explicit disks, one by one *)

\* An entry of disk_controller_type makes at most one controller.
Counted(c, t, s) ==
  /\ s.next \in Nat /\ s.next >= 1 /\ s.next <= Len(c.types) + 1
  /\ Cardinality(s.controllers) <= Cardinality(t.controllers) + s.next - 1
  /\ Legacy(c) # {} => s.next = Len(c.types) + 1

\* Without disks that have no address: what there is after the first n disks.
ExplicitFit(c, t, s, n) ==
  /\ s.next = Cardinality(UpTo(New(c, t), n)) + 1
  /\ Buses(s.controllers) = Buses(t.controllers) \cup {BusAt(c, i) : i \in 1 .. n}
  /\ \A i \in UpTo(New(c, t), n) : EntryFits(c, t, i)
  /\ \A k \in s.controllers \ t.controllers :
       \E j \in UpTo(New(c, t), n) :
         BusAt(c, j) = <<k.kind, k.bus>> /\ k.type = c.types[Entry(c, t, j)]

\* Without disks that have no address, all have one and the types are theirs.
LEMMA AllExplicit ==
  ASSUME NEW c, IsConfiguration(c), Prepared(c), Legacy(c) = {}
  PROVE  Explicit(c) = 1 .. Len(c.storage) /\ LegacyTypes(c) = 0
  BY ConfigurationIs DEF LegacyTypes

\* A bus that is not there is mentioned for the first time.
LEMMA NewBus ==
  ASSUME NEW c, IsConfiguration(c), Prepared(c), Legacy(c) = {}, NEW t, NEW s,
         NEW n \in Nat, n + 1 \in Explicit(c), ExplicitFit(c, t, s, n)
  PROVE  BusAt(c, n + 1) \notin Buses(s.controllers) <=> n + 1 \in New(c, t)
  <1>1. /\ Explicit(c) = Parsed(c) /\ Explicit(c) = 1 .. Len(c.storage) /\ Len(c.storage) \in Nat
    BY AllExplicit, ConfigurationIs
  <1>2. Buses(s.controllers) = Buses(t.controllers) \cup {BusAt(c, i) : i \in 1 .. n}
    BY DEF ExplicitFit
  <1>3. ASSUME BusAt(c, n + 1) \notin Buses(s.controllers) PROVE n + 1 \in New(c, t)
    <2>1. ASSUME NEW j \in Parsed(c), BusAt(c, j) = BusAt(c, n + 1) PROVE n + 1 <= j
      <3>1. j \notin 1 .. n BY <1>2, <1>3, <2>1
      <3>2. j \in 1 .. Len(c.storage) BY <1>1
      <3>3. QED BY <1>1, <3>1, <3>2
    <2>2. BusAt(c, n + 1) \notin Buses(t.controllers) BY <1>2, <1>3
    <2>3. n + 1 \in Parsed(c) BY <1>1
    <2>4. QED BY <2>1, <2>2, <2>3 DEF New, Mentions
  <1>4. ASSUME n + 1 \in New(c, t), BusAt(c, n + 1) \in Buses(s.controllers) PROVE FALSE
    <2>1. BusAt(c, n + 1) \notin Buses(t.controllers) BY <1>4 DEF New
    <2>2. PICK j \in 1 .. n : BusAt(c, j) = BusAt(c, n + 1) BY <1>2, <1>4, <2>1
    <2>3. j \in Parsed(c)
      <3>1. n + 1 \in 1 .. Len(c.storage) BY <1>1
      <3>2. QED BY <1>1, <3>1
    <2>4. n + 1 <= j BY <1>4, <2>2, <2>3 DEF New, Mentions
    <2>5. QED BY <2>4
  <1>5. QED BY <1>3, <1>4

\* What a valid address consists of.
LEMMA AddressIs ==
  ASSUME NEW c, IsConfiguration(c), Prepared(c), NEW i \in Explicit(c),
         NEW address, address = c.storage[i].address
  PROVE  /\ address.kind \in Kinds /\ address.bus \in 0 .. MaxBus /\ address.unit \in Nat
         /\ ~(address.kind = "scsi" /\ address.unit = Reserved)
         /\ PlaceOf(address) \in PlaceType /\ PlaceOf(address).kind = address.kind
         /\ PlaceOf(address).bus = address.bus /\ PlaceOf(address).unit = address.unit
         /\ BusAt(c, i) = <<address.kind, address.bus>> /\ BusOf(address) = <<address.kind, address.bus>>
         /\ c.storage[i].explicit
  <1>1. address \in Addresses /\ ValidateControllerUnitStatic(c, i) /\ c.storage[i].explicit
    BY ConfigurationIs
  <1>2. address.kind \in Kinds /\ address.bus \in 0 .. MaxBus /\ address.unit \in Nat
    BY <1>1 DEF Addresses
  <1>3. ~(address.kind = "scsi" /\ address.unit = Reserved)
    BY <1>1 DEF ValidateControllerUnitStatic
  <1>4. PlaceOf(address) = [kind |-> address.kind, bus |-> address.bus, unit |-> address.unit]
    BY DEF PlaceOf, Place
  <1>5. PlaceOf(address) \in PlaceType BY <1>2, <1>4 DEF PlaceType
  <1>6. QED BY <1>1, <1>2, <1>3, <1>4, <1>5 DEF BusAt, BusOf

\* A disk on a controller that is there.
LEMMA ToControllerStep ==
  ASSUME NEW c, IsConfiguration(c), Prepared(c), NEW t, IsTemplate(t), NEW D, NEW s, Shape(s),
         s.ok, Fine(c, t, s, D), NEW i \in Explicit(c), i \notin D,
         NEW k \in s.controllers, <<k.kind, k.bus>> = BusAt(c, i)
  PROVE  LET r == AddToController(s, i, c.storage[i].address, k)
         IN /\ OneMore(c, t, D, s, r, i)
            /\ c.storage[i].address.unit \in FreeUnits(s, k) /\ HasRoom(s, k) => r.ok
  <1> SUFFICES ASSUME NEW r, r = AddToController(s, i, c.storage[i].address, k)
               PROVE  /\ Shape(r)
                      /\ r.ok => /\ Fine(c, t, r, D \cup {i}) /\ r.controllers = s.controllers
                                 /\ r.next = s.next
                      /\ c.storage[i].address.unit \in FreeUnits(s, k) /\ HasRoom(s, k) => r.ok
    BY DEF OneMore
  <1> DEFINE address == c.storage[i].address
             p == PlaceOf(address)
  <1>1. /\ p \in PlaceType /\ p.kind = address.kind /\ p.bus = address.bus
        /\ p.unit = address.unit /\ c.storage[i].explicit
        /\ ~(p.kind = "scsi" /\ p.unit = Reserved)
        /\ k.kind = p.kind /\ k.bus = p.bus /\ p = Place(k.kind, k.bus, address.unit)
    <2>1. k.kind = address.kind /\ k.bus = address.bus BY AddressIs
    <2>2. p = Place(k.kind, k.bus, address.unit) BY <2>1 DEF PlaceOf
    <2>3. /\ p \in PlaceType /\ p.kind = address.kind /\ p.bus = address.bus
          /\ p.unit = address.unit /\ c.storage[i].explicit
          /\ ~(address.kind = "scsi" /\ address.unit = Reserved)
      BY AddressIs
    <2> HIDE DEF p, address
    <2>4. QED BY <2>1, <2>2, <2>3
  <1>2. r = IF address.unit \in FreeUnits(s, k) /\ HasRoom(s, k) THEN Attach(s, i, p) ELSE Refuse(s)
    BY DEF AddToController
  <1>3. i \in Nat BY MentionsAre
  <1> HIDE DEF p
  <1>4. CASE address.unit \in FreeUnits(s, k) /\ HasRoom(s, k)
    <2>1. r = Attach(s, i, p) BY <1>2, <1>4
    <2>2. p \notin s.devices /\ p.unit <= LastUnit(k.type)
      <3> DEFINE last == LastUnit(k.type)
      <3>1. address.unit \in 0 .. last BY <1>4 DEF FreeUnits
      <3>2. Place(k.kind, k.bus, address.unit) \notin s.devices BY <1>4 DEF FreeUnits
      <3>3. last \in Nat BY LastUnitType
      <3>4. p.unit = address.unit BY <1>1
      <3> HIDE DEF last, address
      <3>5. p.unit <= last BY <3>1, <3>3, <3>4
      <3>6. QED BY <1>1, <3>2, <3>5 DEF last, address
    <2>3. Seat(c, t, s, i, p) BY <1>1, <2>2 DEF Seat, p
    <2>4. p \in PlaceType BY <1>1
    <2>5. Attached(c, t, D, s, Attach(s, i, p), i) BY <1>3, <2>2, <2>3, <2>4, OneDisk
    <2>6. QED BY <2>1, <2>5 DEF Attached
  <1>5. CASE ~(address.unit \in FreeUnits(s, k) /\ HasRoom(s, k))
    <2>1. r = Refuse(s) BY <1>2, <1>5
    <2>2. Shape(r) /\ r.ok = FALSE BY <2>1, RefuseIs
    <2>3. QED BY <1>5, <2>2
  <1>6. QED BY <1>4, <1>5

\* The next state r has the disk i and a controller for it, or is refused.
OneMoreController(c, t, D, s, r, i) ==
  /\ Shape(r)
  /\ r.ok => /\ Fine(c, t, r, D \cup {i}) /\ s.next <= Len(c.types) /\ r.next = s.next + 1
             /\ Counted(c, t, r)
             /\ KindOf(c.types[s.next]) = BusAt(c, i)[1]
             /\ \A b \in 0 .. BusAt(c, i)[2] - 1 : <<BusAt(c, i)[1], b>> \in Buses(s.controllers)
             /\ \E k \in ControllerType :
                  /\ r.controllers = s.controllers \cup {k} /\ k \notin s.controllers
                  /\ <<k.kind, k.bus>> = BusAt(c, i) /\ k.type = c.types[s.next]
  /\ ~r.ok => \/ s.next > Len(c.types)
              \/ FreeBuses(s, KindOf(c.types[s.next])) = {}
              \/ <<KindOf(c.types[s.next]), Min(FreeBuses(s, KindOf(c.types[s.next])))>>
                   # BusAt(c, i)

\* A disk with a controller of its own.
LEMMA WithControllerStep ==
  ASSUME NEW c, IsConfiguration(c), Prepared(c), NEW t, IsTemplate(t), NEW D, NEW s, Shape(s),
         s.ok, Fine(c, t, s, D), Counted(c, t, s), NEW i \in Explicit(c), i \notin D,
         BusAt(c, i) \notin Buses(s.controllers),
         ~OldBus(c, t) /\ s.next <= Len(c.types) =>
           c.storage[i].address.unit <= LastUnit(c.types[s.next])
  PROVE  OneMoreController(c, t, D, s, AddWithController(c, s, i, c.storage[i].address), i)
  <1> SUFFICES ASSUME NEW r, r = AddWithController(c, s, i, c.storage[i].address)
               PROVE
                 /\ Shape(r)
                 /\ r.ok => /\ Fine(c, t, r, D \cup {i}) /\ s.next <= Len(c.types) /\ r.next = s.next + 1
                            /\ Counted(c, t, r)
                            /\ KindOf(c.types[s.next]) = BusAt(c, i)[1]
                            /\ \A b \in 0 .. BusAt(c, i)[2] - 1 : <<BusAt(c, i)[1], b>> \in Buses(s.controllers)
                            /\ \E k \in ControllerType :
                                 /\ r.controllers = s.controllers \cup {k} /\ k \notin s.controllers
                                 /\ <<k.kind, k.bus>> = BusAt(c, i) /\ k.type = c.types[s.next]
                 /\ ~r.ok => \/ s.next > Len(c.types)
                             \/ FreeBuses(s, KindOf(c.types[s.next])) = {}
                             \/ <<KindOf(c.types[s.next]), Min(FreeBuses(s, KindOf(c.types[s.next])))>>
                                  # BusAt(c, i)
    BY DEF OneMoreController
  <1> DEFINE address == c.storage[i].address
             p == PlaceOf(address)
             type == c.types[s.next]
             k == NewController(s, type)
             m == [s EXCEPT !.controllers = @ \cup {k}, !.next = @ + 1]
  <1>1. Shape(Refuse(s)) /\ Refuse(s).ok = FALSE BY RefuseIs
  <1>2. BusOf(address) = BusAt(c, i) BY AddressIs
  <1>3. CASE s.next > Len(c.types) \/ FreeBuses(s, KindOf(type)) = {}
    <2>1. r = Refuse(s) BY <1>3 DEF AddWithController
    <2>2. QED BY <1>1, <1>3, <2>1
  <1>4. CASE ~(s.next > Len(c.types) \/ FreeBuses(s, KindOf(type)) = {})
    <2>0. /\ k.kind = KindOf(type) /\ k.bus = Min(FreeBuses(s, KindOf(type))) /\ k.type = type
      BY DEF NewController, Controller
    <2>1. r = IF <<k.kind, k.bus>> # BusOf(address) THEN Refuse(s) ELSE Attach(m, i, p)
      BY <1>4 DEF AddWithController
    <2> HIDE DEF k, p
    <2>2. CASE <<k.kind, k.bus>> # BusOf(address)
      <3>1. r = Refuse(s) BY <2>1, <2>2
      <3>2. <<KindOf(type), Min(FreeBuses(s, KindOf(type)))>> # BusAt(c, i) BY <1>2, <2>0, <2>2
      <3>3. QED BY <1>1, <3>1, <3>2
    <2>3. CASE <<k.kind, k.bus>> = BusOf(address)
      <3>1. r = Attach(m, i, p) BY <2>1, <2>3
      <3>2. s.next \in Nat /\ s.next >= 1 /\ s.next <= Len(c.types) /\ Len(c.types) \in Nat
            /\ type \in SupportedDiskControllerTypes
        <4>1. s.next \in Nat /\ s.next >= 1 BY DEF Counted
        <4>2. Len(c.types) \in Nat BY ConfigurationIs
        <4>3. s.next <= Len(c.types) BY <1>4, <4>1, <4>2
        <4>4. s.next \in 1 .. Len(c.types) BY <4>1, <4>2, <4>3
        <4>5. Len(c.storage) # 0 BY ConfigurationIs
        <4>6. type \in SupportedDiskControllerTypes BY <4>4, <4>5, ConfigurationIs
        <4>7. QED BY <4>1, <4>2, <4>3, <4>6
      <3>3. /\ k \in ControllerType
            /\ \A l \in s.controllers : ~(l.kind = k.kind /\ l.bus = k.bus)
            /\ \A b \in 0 .. k.bus - 1 : OnBus(s, k.kind, b) # {}
        BY <1>4, <3>2, FreeBusIs DEF k
      <3>4. /\ Shape(m) /\ m.ok = s.ok /\ m.controllers = s.controllers \cup {k}
            /\ m.devices = s.devices /\ m.order = s.order /\ m.place = s.place
            /\ m.made = s.made /\ m.next = s.next + 1
        <4> DEFINE more == s.controllers \cup {k}
                   after == s.next + 1
        <4>1. m = [s EXCEPT !.controllers = more, !.next = after] OBVIOUS
        <4> HIDE DEF m, more, after
        <4>2. /\ Shape(m) /\ m.ok = s.ok /\ m.controllers = more
              /\ m.devices = s.devices /\ m.order = s.order /\ m.place = s.place
              /\ m.made = s.made /\ m.next = after
          BY <4>1 DEF Shape
        <4>3. QED BY <4>2 DEF more, after
      <3> HIDE DEF m, type
      <3>5. MadeFit(m) BY <3>4 DEF Fine, MadeFit
      <3>6. Fine(c, t, m, D) BY <3>3, <3>4, <3>5, OneController
      <3>7. /\ p \in PlaceType /\ p.kind = k.kind /\ p.bus = k.bus /\ p.unit = address.unit
            /\ ~(p.kind = "scsi" /\ p.unit = Reserved) /\ c.storage[i].explicit
            /\ <<p.kind, p.bus>> = BusAt(c, i)
        <4>1. k.kind = address.kind /\ k.bus = address.bus BY <2>3, AddressIs
        <4>2. QED BY <4>1, AddressIs DEF p
      <3>8. p \notin m.devices
        <4>1. CASE p \in s.devices
          <5>1. <<p.kind, p.bus>> \in Buses(s.controllers) BY <4>1, OnControllersOnly
          <5>2. QED BY <3>7, <5>1
        <4>2. QED BY <3>4, <4>1
      <3>9. Seat(c, t, m, i, p)
        <4>1. p.unit <= LastUnit(k.type) \/ OldBus(c, t) BY <2>0, <3>2, <3>7 DEF type
        <4>2. k \in m.controllers BY <3>4
        <4>3. p = PlaceOf(c.storage[i].address) BY DEF p
        <4>4. QED BY <3>7, <4>1, <4>2, <4>3 DEF Seat
      <3>10. i \in Nat /\ p \in PlaceType BY <3>7, MentionsAre
      <3>11. Attached(c, t, D, m, Attach(m, i, p), i)
        BY <3>4, <3>6, <3>8, <3>9, <3>10, OneDisk
      <3>14. /\ Shape(r) /\ r.ok /\ Fine(c, t, r, D \cup {i}) /\ r.next = s.next + 1
             /\ r.controllers = s.controllers \cup {k}
        BY <3>1, <3>4, <3>11 DEF Attached
      <3>15. k \notin s.controllers BY <3>3
      <3>16. Cardinality(r.controllers) = Cardinality(s.controllers) + 1
             /\ Cardinality(s.controllers) \in Nat
        <4>1. s.controllers \subseteq ControllerType
              /\ \A j, l \in s.controllers : j.kind = l.kind /\ j.bus = l.bus => j = l
          BY DEF Fine, ControllersFit
        <4>2. IsFiniteSet(s.controllers) BY <4>1, ControllersFinite
        <4>3. QED BY <3>14, <3>15, <4>2, FS_AddElement, FS_CardinalityType
      <3>17. Cardinality(t.controllers) \in Nat
        <4>1. IsFiniteSet(t.controllers)
          BY ControllersFinite DEF IsTemplate, ControllerType
        <4>2. QED BY <4>1, FS_CardinalityType
      <3>18. Counted(c, t, r)
        <4>1. /\ Cardinality(s.controllers) <= Cardinality(t.controllers) + s.next - 1
              /\ Legacy(c) # {} => s.next = Len(c.types) + 1
          BY DEF Counted
        <4>2. Legacy(c) = {} BY <3>2, <4>1
        <4>3. r.next \in Nat /\ r.next >= 1 /\ r.next <= Len(c.types) + 1 BY <3>2, <3>14
        <4>4. Cardinality(r.controllers) <= Cardinality(t.controllers) + r.next - 1
          BY <3>2, <3>14, <3>16, <3>17, <4>1
        <4>5. QED BY <4>2, <4>3, <4>4 DEF Counted
      <3>19. KindOf(c.types[s.next]) = BusAt(c, i)[1] /\ BusAt(c, i)[2] = k.bus
             /\ BusAt(c, i) = <<k.kind, k.bus>> /\ k.type = c.types[s.next]
        BY <1>2, <2>0, <2>3 DEF type
      <3>20. ASSUME NEW b \in 0 .. BusAt(c, i)[2] - 1
             PROVE  <<BusAt(c, i)[1], b>> \in Buses(s.controllers)
        <4>1. OnBus(s, k.kind, b) # {} /\ BusAt(c, i)[1] = k.kind BY <3>3, <3>19
        <4>2. QED BY <4>1, BusTaken
      <3>21. QED BY <3>2, <3>3, <3>14, <3>15, <3>18, <3>19, <3>20
    <2>4. QED BY <2>2, <2>3
  <1>5. QED BY <1>3, <1>4

\* The next entry is the one of the next new bus.
LEMMA NextEntry ==
  ASSUME NEW c, IsConfiguration(c), Prepared(c), Legacy(c) = {}, NEW t, NEW s,
         NEW n \in Nat, ExplicitFit(c, t, s, n), n + 1 \in New(c, t)
  PROVE  Entry(c, t, n + 1) = s.next /\ Cardinality(UpTo(New(c, t), n + 1)) = s.next
  <1>1. \A i \in New(c, t) : i \in Nat /\ i # 0 BY MentionsAre
  <1>2. /\ Cardinality(UpTo(New(c, t), n)) \in Nat
        /\ Cardinality(UpTo(New(c, t), n + 1)) = Cardinality(UpTo(New(c, t), n)) + 1
    BY <1>1, CountUpTo
  <1>3. s.next = Cardinality(UpTo(New(c, t), n)) + 1 BY DEF ExplicitFit
  <1>4. LegacyTypes(c) = 0 BY DEF LegacyTypes
  <1>5. QED BY <1>2, <1>3, <1>4 DEF Entry

\* A disk on a new bus keeps what holds of the types and the buses.
LEMMA FitWithController ==
  ASSUME NEW c, IsConfiguration(c), Prepared(c), Legacy(c) = {}, NEW t, NEW s,
         NEW n \in Nat, n + 1 \in Explicit(c), ExplicitFit(c, t, s, n),
         n + 1 \in New(c, t), s.next <= Len(c.types),
         KindOf(c.types[s.next]) = BusAt(c, n + 1)[1],
         \A b \in 0 .. BusAt(c, n + 1)[2] - 1 : <<BusAt(c, n + 1)[1], b>> \in Buses(s.controllers),
         NEW k, <<k.kind, k.bus>> = BusAt(c, n + 1), k.type = c.types[s.next],
         NEW r, r.controllers = s.controllers \cup {k}, r.next = s.next + 1
  PROVE  ExplicitFit(c, t, r, n + 1)
  <1> DEFINE i == n + 1
             new == New(c, t)
  <1>1. Entry(c, t, i) = s.next /\ Cardinality(UpTo(new, i)) = s.next BY NextEntry
  <1>2. /\ Buses(s.controllers) = Buses(t.controllers) \cup {BusAt(c, j) : j \in 1 .. n}
        /\ \A j \in UpTo(new, n) : EntryFits(c, t, j)
        /\ \A l \in s.controllers \ t.controllers :
             \E j \in UpTo(new, n) :
               BusAt(c, j) = <<l.kind, l.bus>> /\ l.type = c.types[Entry(c, t, j)]
    BY DEF ExplicitFit
  <1>3. \A j \in new : j \in Nat /\ j # 0 BY MentionsAre
  <1>4. UpTo(new, i) = UpTo(new, n) \cup {i}
    <2>1. \A j \in Nat : j <= n + 1 <=> j <= n \/ j = n + 1 OBVIOUS
    <2>2. QED BY <1>3, <2>1 DEF UpTo
  <1>5. 1 .. n + 1 = (1 .. n) \cup {i} OBVIOUS
  <1>6. Buses(r.controllers) = Buses(t.controllers) \cup {BusAt(c, j) : j \in 1 .. n + 1}
    <2>1. Buses(r.controllers) = Buses(s.controllers) \cup {BusAt(c, i)} BY DEF Buses
    <2>2. QED BY <1>2, <1>5, <2>1
  <1>7. EntryFits(c, t, i)
    <2>1. ASSUME NEW b \in 0 .. BusAt(c, i)[2] - 1 PROVE There(c, t, i, <<BusAt(c, i)[1], b>>)
      <3> SUFFICES ASSUME NEW bus, bus = <<BusAt(c, i)[1], b>> PROVE There(c, t, i, bus)
        OBVIOUS
      <3>1. bus \in Buses(s.controllers) OBVIOUS
      <3>2. CASE bus \in Buses(t.controllers) BY <3>2 DEF There
      <3>3. CASE bus \notin Buses(t.controllers)
        <4>1. PICK j \in 1 .. n : BusAt(c, j) = bus BY <1>2, <3>1, <3>3
        <4>2. j \in Explicit(c)
          <5>1. Explicit(c) = 1 .. Len(c.storage) /\ Len(c.storage) \in Nat
            BY AllExplicit, ConfigurationIs
          <5>2. QED BY <5>1
        <4>3. PICK f \in Mentions(c) : f <= j /\ BusAt(c, f) = BusAt(c, j) BY <4>2, FirstMention
        <4>4. f \in new BY <3>3, <4>1, <4>3 DEF New
        <4>5. f \in Nat BY <1>3, <4>4
        <4>6. f < n + 1 BY <4>3, <4>5
        <4>7. QED BY <4>1, <4>3, <4>4, <4>6 DEF There
      <3>4. QED BY <3>2, <3>3
    <2>2. QED BY <1>1, <2>1 DEF EntryFits
  <1>8. \A j \in UpTo(new, n + 1) : EntryFits(c, t, j) BY <1>2, <1>4, <1>7
  <1>9. ASSUME NEW l \in r.controllers \ t.controllers
        PROVE  \E j \in UpTo(new, n + 1) :
                 BusAt(c, j) = <<l.kind, l.bus>> /\ l.type = c.types[Entry(c, t, j)]
    <2>1. CASE l \in s.controllers BY <1>2, <1>4, <1>9, <2>1
    <2>2. CASE l = k
      <3>1. i \in UpTo(new, n + 1) BY <1>4
      <3>2. QED BY <1>1, <2>2, <3>1
    <2>3. QED BY <1>9, <2>1, <2>2
  <1>10. r.next = Cardinality(UpTo(new, n + 1)) + 1 BY <1>1
  <1>11. QED BY <1>6, <1>8, <1>9, <1>10 DEF ExplicitFit

\* So does a disk on a bus that is there.
LEMMA FitToController ==
  ASSUME NEW c, IsConfiguration(c), Prepared(c), Legacy(c) = {}, NEW t, NEW s,
         NEW n \in Nat, n + 1 \in Explicit(c), ExplicitFit(c, t, s, n),
         BusAt(c, n + 1) \in Buses(s.controllers),
         NEW r, r.controllers = s.controllers, r.next = s.next
  PROVE  ExplicitFit(c, t, r, n + 1)
  <1>1. n + 1 \notin New(c, t) BY NewBus
  <1>2. \A j \in New(c, t) : j \in Nat /\ j # 0 BY MentionsAre
  <1>3. UpTo(New(c, t), n + 1) = UpTo(New(c, t), n) BY <1>1, <1>2, CountUpTo
  <1>4. 1 .. n + 1 = (1 .. n) \cup {n + 1} OBVIOUS
  <1>5. Buses(r.controllers) = Buses(t.controllers) \cup {BusAt(c, j) : j \in 1 .. n + 1}
    BY <1>4 DEF ExplicitFit
  <1>6. QED BY <1>3, <1>5 DEF ExplicitFit

\* What holds after the first n disks that have an address.
Turn(c, t, s, n) ==
  /\ Shape(s)
  /\ s.ok => /\ Fine(c, t, s, Legacy(c) \cup UpTo(Explicit(c), n)) /\ Counted(c, t, s)
             /\ Legacy(c) = {} => ExplicitFit(c, t, s, n)

\* A disk with an address keeps what holds.
LEMMA ExplicitStep ==
  ASSUME NEW c, IsConfiguration(c), Prepared(c), NEW t, IsTemplate(t), NEW s,
         NEW n \in Nat, n + 1 \in Explicit(c), Turn(c, t, s, n)
  PROVE  Turn(c, t, AddExplicitDisk(c, s, n + 1), n + 1)
  <1> DEFINE i == n + 1
             address == c.storage[i].address
             there == OnBus(s, address.kind, address.bus)
             D == Legacy(c) \cup UpTo(Explicit(c), n)
             r == AddExplicitDisk(c, s, i)
  <1>1. \A j \in Explicit(c) : j \in Nat /\ j # 0 BY MentionsAre
  <1>2. Legacy(c) \cup UpTo(Explicit(c), n + 1) = D \cup {i} /\ i \notin D
    <2>1. \A j \in Nat : j <= n + 1 <=> j <= n \/ j = n + 1 OBVIOUS
    <2>2. UpTo(Explicit(c), n + 1) = UpTo(Explicit(c), n) \cup {i} BY <1>1, <2>1 DEF UpTo
    <2>3. i \notin UpTo(Explicit(c), n) BY DEF UpTo
    <2>4. i \notin Legacy(c) BY DEF Legacy
    <2>5. QED BY <2>2, <2>3, <2>4
  <1>3. BusAt(c, i) = <<address.kind, address.bus>> BY AddressIs
  <1>4. there # {} <=> BusAt(c, i) \in Buses(s.controllers) BY <1>3, BusTaken
  <1> HIDE DEF D
  <1>5. CASE ~s.ok
    <2>1. r = s BY <1>5 DEF AddExplicitDisk
    <2>2. QED BY <1>5, <2>1 DEF Turn
  <1>6. CASE s.ok /\ there = {}
    <2>1. r = AddWithController(c, s, i, address) BY <1>6 DEF AddExplicitDisk
    <2>2. Fine(c, t, s, D) /\ Counted(c, t, s) /\ Shape(s) BY <1>6 DEF Turn, D
    <2>3. Legacy(c) = {} => ExplicitFit(c, t, s, n) BY <1>6 DEF Turn
    <2>4. Legacy(c) = {} => i \in New(c, t) BY <1>4, <1>6, <2>3, NewBus
    <2>5. ~OldBus(c, t) /\ s.next <= Len(c.types) => address.unit <= LastUnit(c.types[s.next])
      <3> SUFFICES ASSUME ~OldBus(c, t), s.next <= Len(c.types)
                   PROVE  address.unit <= LastUnit(c.types[s.next])
        OBVIOUS
      <3>1. Legacy(c) = {}
        <4>1. Legacy(c) # {} => s.next = Len(c.types) + 1 BY <2>2 DEF Counted
        <4>2. Len(c.types) \in Nat BY ConfigurationIs
        <4>3. QED BY <4>1, <4>2
      <3>2. i \in Mentions(c) /\ Entry(c, t, i) = s.next
        BY <2>3, <2>4, <3>1, NextEntry, MentionsAre
      <3>3. QED BY <3>2, TypeIndexIs
    <2>6. OneMoreController(c, t, D, s, r, i)
      <3>1. BusAt(c, i) \notin Buses(s.controllers) BY <1>4, <1>6
      <3>2. i \in Explicit(c) /\ i \notin D /\ s.ok BY <1>2, <1>6
      <3> HIDE DEF r, i
      <3>3. QED BY <2>1, <2>2, <2>5, <3>1, <3>2, WithControllerStep DEF address
    <2> HIDE DEF r
    <2>7. ASSUME r.ok, Legacy(c) = {} PROVE ExplicitFit(c, t, r, i)
      <3>1. PICK k \in ControllerType :
                   /\ r.controllers = s.controllers \cup {k}
                   /\ <<k.kind, k.bus>> = BusAt(c, i) /\ k.type = c.types[s.next]
        BY <2>6, <2>7 DEF OneMoreController
      <3>2. /\ s.next <= Len(c.types) /\ r.next = s.next + 1
            /\ KindOf(c.types[s.next]) = BusAt(c, i)[1]
            /\ \A b \in 0 .. BusAt(c, i)[2] - 1 :
                 <<BusAt(c, i)[1], b>> \in Buses(s.controllers)
        BY <2>6, <2>7 DEF OneMoreController
      <3>3. QED BY <2>3, <2>4, <2>7, <3>1, <3>2, FitWithController
    <2>8. Shape(r) /\ (r.ok => Fine(c, t, r, D \cup {i}) /\ Counted(c, t, r))
      BY <2>6 DEF OneMoreController
    <2>9. QED BY <1>2, <2>7, <2>8 DEF Turn, r
  <1>7. CASE s.ok /\ there # {}
    <2> DEFINE k == CHOOSE k \in there : TRUE
    <2>1. r = AddToController(s, i, address, k) BY <1>7 DEF AddExplicitDisk
    <2>2. k \in there BY <1>7
    <2> HIDE DEF k, r
    <2>3. k \in s.controllers /\ <<k.kind, k.bus>> = BusAt(c, i) BY <1>3, <2>2 DEF OnBus
    <2>4. Fine(c, t, s, D) /\ Counted(c, t, s) /\ Shape(s) BY <1>7 DEF Turn, D
    <2>5. /\ Shape(r)
          /\ r.ok => /\ Fine(c, t, r, D \cup {i}) /\ r.controllers = s.controllers
                     /\ r.next = s.next
      <3>1. i \in Explicit(c) /\ i \notin D /\ s.ok BY <1>2, <1>7
      <3> HIDE DEF i
      <3>2. OneMore(c, t, D, s, r, i) BY <2>1, <2>3, <2>4, <3>1, ToControllerStep DEF address
      <3>3. QED BY <3>2 DEF OneMore
    <2>6. r.ok => Counted(c, t, r) BY <2>4, <2>5 DEF Counted
    <2>7. ASSUME r.ok, Legacy(c) = {} PROVE ExplicitFit(c, t, r, i)
      <3>1. ExplicitFit(c, t, s, n) BY <1>7, <2>7 DEF Turn
      <3>2. BusAt(c, i) \in Buses(s.controllers) BY <1>4, <1>7
      <3>3. QED BY <2>5, <2>7, <3>1, <3>2, FitToController
    <2>8. QED BY <1>2, <2>5, <2>6, <2>7 DEF Turn, r
  <1>8. QED BY <1>5, <1>6, <1>7 DEF Turn, Shape

(* The disks without an address *)

\* A template has a number of controllers.
LEMMA TemplateCount == ASSUME NEW t, IsTemplate(t) PROVE Cardinality(t.controllers) \in Nat
  <1>1. IsFiniteSet(t.controllers) BY ControllersFinite DEF IsTemplate, ControllerType
  <1>2. QED BY <1>1, FS_CardinalityType

\* After the first loop: one controller more for each type.
LEMMA LegacyControllersAre ==
  ASSUME NEW c, IsConfiguration(c), Prepared(c), c.storage # << >>, NEW t, IsTemplate(t),
         NEW s, s = LegacyControllers(c, Start(t))
  PROVE  /\ Shape(s)
         /\ s.ok => /\ Fine(c, t, s, {})
                    /\ Cardinality(s.controllers) = Cardinality(t.controllers) + Len(c.types)
  <1> DEFINE N == Len(c.types)
  <1>1. N \in Nat /\ \A n \in 1 .. N : c.types[n] \in SupportedDiskControllerTypes
    BY ConfigurationIs
  <1>2. PICK after : /\ after[0] = Start(t) /\ s = after[N]
                     /\ \A n \in 0 .. N - 1 :
                          after[n + 1] = AddLegacyController(after[n], c.types[n + 1])
    BY <1>1, LegacyControllersTurn
  <1> HIDE DEF N
  <1> DEFINE Good(n) == /\ Shape(after[n])
                        /\ after[n].ok =>
                             /\ Fine(c, t, after[n], {}) /\ after[n].order = << >>
                             /\ Cardinality(after[n].controllers) = Cardinality(t.controllers) + n
             T == {n \in 0 .. N : Good(n)}
  <1>3. Good(0)
    <2>1. /\ Shape(after[0]) /\ Fine(c, t, after[0], {}) /\ after[0].controllers = t.controllers
      BY <1>2, StartIsFine
    <2>2. after[0].order = << >> BY <1>2 DEF Start
    <2>3. QED BY <2>1, <2>2, TemplateCount
  <1>4. ASSUME NEW n \in 0 .. N - 1, Good(n) PROVE Good(n + 1)
    <2> DEFINE x == after[n]
               y == after[n + 1]
    <2>1. n + 1 \in 1 .. N BY <1>1
    <2>2. y = AddLegacyController(x, c.types[n + 1]) BY <1>2
    <2>3. c.types[n + 1] \in SupportedDiskControllerTypes BY <1>1, <2>1
    <2>4. Shape(x) /\ (x.ok => Fine(c, t, x, {}) /\ x.order = << >>) BY <1>4
    <2>5. x.ok => Cardinality(x.controllers) = Cardinality(t.controllers) + n BY <1>4
    <2> HIDE DEF x, y
    <2>6. /\ Shape(y)
          /\ y.ok => /\ x.ok /\ Fine(c, t, y, {}) /\ y.order = << >>
                     /\ Cardinality(y.controllers) = Cardinality(x.controllers) + 1
      BY <2>2, <2>3, <2>4, LegacyControllerStep
    <2>7. y.ok => Cardinality(y.controllers) = Cardinality(t.controllers) + (n + 1)
      BY <2>5, <2>6, TemplateCount
    <2>8. QED BY <2>6, <2>7 DEF y
  <1> HIDE DEF Good
  <1>5. 0 \in T /\ \A n \in 0 .. N - 1 : n \in T => n + 1 \in T
    <2>1. \A n \in 0 .. N - 1 : n + 1 \in 0 .. N BY <1>1
    <2>2. 0 \in 0 .. N BY <1>1
    <2>3. QED BY <1>3, <1>4, <2>1, <2>2
  <1> HIDE DEF T
  <1>6. \A n \in 0 .. N : n \in T BY <1>1, <1>5, BoundedInduction
  <1>7. Good(N) BY <1>1, <1>6 DEF T
  <1>8. QED BY <1>2, <1>7 DEF Good, N

\* After the second loop: the disks without an address are attached.
LEMMA LegacyDisksAre ==
  ASSUME NEW c, IsConfiguration(c), Prepared(c), c.storage # << >>, NEW t, IsTemplate(t),
         NEW s, s = LegacyDisks(c, LegacyControllers(c, Start(t)))
  PROVE  /\ Shape(s)
         /\ s.ok => /\ Fine(c, t, s, Legacy(c))
                    /\ Cardinality(s.controllers) = Cardinality(t.controllers) + Len(c.types)
  <1> DEFINE N == Len(c.storage)
             start == LegacyControllers(c, Start(t))
  <1>1. N \in Nat /\ Legacy(c) \subseteq 1 .. N BY ConfigurationIs DEF Legacy
  <1>2. PICK after : /\ after[0] = start /\ s = after[N]
                     /\ \A n \in 0 .. N - 1 :
                          after[n + 1] = IF n + 1 \in Legacy(c) THEN AddLegacyDisk(c, after[n], n + 1)
                                         ELSE after[n]
    BY <1>1, LegacyDisksTurn
  <1>3. /\ Shape(start)
        /\ start.ok => /\ Fine(c, t, start, {})
                       /\ Cardinality(start.controllers) = Cardinality(t.controllers) + Len(c.types)
    BY LegacyControllersAre
  <1> HIDE DEF N, start
  <1>4. \A i \in Legacy(c) : i \in Nat /\ i # 0 BY <1>1
  <1> DEFINE Good(n) == /\ Shape(after[n])
                        /\ after[n].ok =>
                             /\ Fine(c, t, after[n], UpTo(Legacy(c), n))
                             /\ Cardinality(after[n].controllers)
                                  = Cardinality(t.controllers) + Len(c.types)
             T == {n \in 0 .. N : Good(n)}
  <1>5. Good(0)
    <2>1. UpTo(Legacy(c), 0) = {} BY <1>4 DEF UpTo
    <2>2. QED BY <1>2, <1>3, <2>1
  <1>6. ASSUME NEW n \in 0 .. N - 1, Good(n) PROVE Good(n + 1)
    <2> DEFINE x == after[n]
               y == after[n + 1]
               D == UpTo(Legacy(c), n)
    <2>1. y = IF n + 1 \in Legacy(c) THEN AddLegacyDisk(c, x, n + 1) ELSE x BY <1>2
    <2>2. Shape(x) /\ (x.ok => Fine(c, t, x, D)) BY <1>6
    <2>3. x.ok => Cardinality(x.controllers) = Cardinality(t.controllers) + Len(c.types)
      BY <1>6
    <2>4. \A j \in Nat : j <= n + 1 <=> j <= n \/ j = n + 1 OBVIOUS
    <2>5. CASE n + 1 \notin Legacy(c)
      <3>1. y = x BY <2>1, <2>5
      <3>2. UpTo(Legacy(c), n + 1) = D BY <1>4, <2>4, <2>5 DEF UpTo
      <3> HIDE DEF x, y
      <3>3. Shape(y) /\ (y.ok => Fine(c, t, y, UpTo(Legacy(c), n + 1)))
        BY <2>2, <3>1, <3>2
      <3>4. y.ok => Cardinality(y.controllers) = Cardinality(t.controllers) + Len(c.types)
        BY <2>3, <3>1
      <3>5. QED BY <3>3, <3>4 DEF y
    <2>6. CASE n + 1 \in Legacy(c)
      <3>1. y = AddLegacyDisk(c, x, n + 1) BY <2>1, <2>6
      <3>2. UpTo(Legacy(c), n + 1) = D \cup {n + 1} /\ n + 1 \notin D
        BY <1>4, <2>4, <2>6 DEF UpTo
      <3> HIDE DEF x, y, D
      <3>3. /\ Shape(y)
            /\ y.ok => /\ x.ok /\ Fine(c, t, y, D \cup {n + 1})
                       /\ y.controllers = x.controllers
        <4> DEFINE i == n + 1
        <4>1. i \in Legacy(c) /\ i \notin D /\ y = AddLegacyDisk(c, x, i) BY <2>6, <3>1, <3>2
        <4>2. i = n + 1 OBVIOUS
        <4> HIDE DEF i
        <4>3. OneMore(c, t, D, x, y, i) BY <2>2, <4>1, LegacyDiskStep
        <4>4. QED BY <4>2, <4>3 DEF OneMore
      <3>4. Shape(y) /\ (y.ok => Fine(c, t, y, UpTo(Legacy(c), n + 1))) BY <3>2, <3>3
      <3>5. y.ok => Cardinality(y.controllers) = Cardinality(t.controllers) + Len(c.types)
        BY <2>3, <3>3
      <3>6. QED BY <3>4, <3>5 DEF y
    <2>7. QED BY <2>5, <2>6
  <1> HIDE DEF Good
  <1>7. 0 \in T /\ \A n \in 0 .. N - 1 : n \in T => n + 1 \in T
    <2>1. \A n \in 0 .. N - 1 : n + 1 \in 0 .. N BY <1>1
    <2>2. 0 \in 0 .. N BY <1>1
    <2>3. QED BY <1>5, <1>6, <2>1, <2>2
  <1> HIDE DEF T
  <1>8. \A n \in 0 .. N : n \in T BY <1>1, <1>7, BoundedInduction
  <1>9. Good(N) BY <1>1, <1>8 DEF T
  <1>10. UpTo(Legacy(c), N) = Legacy(c) BY <1>1 DEF UpTo
  <1>11. QED BY <1>2, <1>9, <1>10 DEF Good

\* What holds before the first disk with an address.
LEMMA BeforeExplicit ==
  ASSUME NEW c, IsConfiguration(c), Prepared(c), NEW t, IsTemplate(t),
         NEW s, s = [AddLegacyDisks(c, Start(t)) EXCEPT !.next = LegacyTypes(c) + 1]
  PROVE  Turn(c, t, s, 0) /\ (Legacy(c) = {} => s.ok)
  <1> DEFINE legacy == AddLegacyDisks(c, Start(t))
             after == LegacyTypes(c) + 1
  <1>1. /\ Shape(legacy)
        /\ legacy.ok => /\ Fine(c, t, legacy, Legacy(c))
                        /\ Cardinality(legacy.controllers)
                             = Cardinality(t.controllers) + LegacyTypes(c)
        /\ Legacy(c) = {} => legacy = Start(t) /\ legacy.ok
    <2>1. CASE Legacy(c) = {}
      <3>1. legacy = Start(t) /\ LegacyTypes(c) = 0 BY <2>1 DEF AddLegacyDisks, LegacyTypes
      <3> HIDE DEF legacy
      <3>2. /\ Shape(legacy) /\ legacy.ok /\ Fine(c, t, legacy, {})
            /\ legacy.controllers = t.controllers
        BY <3>1, StartIsFine
      <3>3. QED BY <2>1, <3>1, <3>2, TemplateCount
    <2>2. CASE Legacy(c) # {}
      <3>1. legacy = LegacyDisks(c, LegacyControllers(c, Start(t))) /\ LegacyTypes(c) = Len(c.types)
        BY <2>2 DEF AddLegacyDisks, LegacyTypes
      <3>2. c.storage # << >> BY <2>2 DEF Legacy
      <3> HIDE DEF legacy
      <3>3. QED BY <2>2, <3>1, <3>2, LegacyDisksAre
    <2>3. QED BY <2>1, <2>2
  <1>2. s = [legacy EXCEPT !.next = after] OBVIOUS
  <1>3. LegacyTypes(c) \in Nat /\ LegacyTypes(c) <= Len(c.types) /\ Len(c.types) \in Nat
    BY ConfigurationIs DEF LegacyTypes
  <1> HIDE DEF legacy
  <1>4. /\ Shape(s) /\ s.ok = legacy.ok /\ s.controllers = legacy.controllers
        /\ s.devices = legacy.devices /\ s.made = legacy.made /\ s.order = legacy.order
        /\ s.place = legacy.place /\ s.next = after
    <2> HIDE DEF after
    <2>1. QED BY <1>1, <1>2 DEF Shape
  <1>5. UpTo(Explicit(c), 0) = {} BY MentionsAre DEF UpTo
  <1>6. s.ok => Fine(c, t, s, Legacy(c) \cup UpTo(Explicit(c), 0))
    <2>1. \A i, p : Seat(c, t, legacy, i, p) => Seat(c, t, s, i, p) BY <1>4 DEF Seat
    <2>2. QED BY <1>1, <1>4, <1>5, <2>1 DEF Fine, ControllersFit, DisksFit, MadeFit
  <1>7. s.ok => Counted(c, t, s)
    <2>1. Legacy(c) # {} => LegacyTypes(c) = Len(c.types) BY DEF LegacyTypes
    <2>2. s.ok => Cardinality(s.controllers) <= Cardinality(t.controllers) + s.next - 1
      BY <1>1, <1>3, <1>4, TemplateCount
    <2>3. QED BY <1>3, <1>4, <2>1, <2>2 DEF Counted
  <1>8. ASSUME Legacy(c) = {} PROVE ExplicitFit(c, t, s, 0)
    <2>1. \A j \in New(c, t) : j \in Nat /\ j # 0 BY MentionsAre
    <2>2. Cardinality(UpTo(New(c, t), 0)) = 0 /\ UpTo(New(c, t), 0) = {}
      <3>1. UpTo(New(c, t), 0) = {} BY <2>1 DEF UpTo
      <3>2. QED BY <3>1, FS_EmptySet
    <2>3. s.next = 1 BY <1>4, <1>8 DEF LegacyTypes
    <2>4. s.controllers = t.controllers BY <1>1, <1>4, <1>8 DEF Start
    <2>5. {BusAt(c, i) : i \in 1 .. 0} = {} OBVIOUS
    <2>6. QED BY <2>2, <2>3, <2>4, <2>5 DEF ExplicitFit
  <1>9. QED BY <1>1, <1>4, <1>6, <1>7, <1>8 DEF Turn

\* What holds after every disk with an address, by induction on their number.
LEMMA AllDisks ==
  ASSUME NEW c, IsConfiguration(c), Prepared(c), NEW t, IsTemplate(t), NEW start, Turn(c, t, start, 0),
         NEW after, after[0] = start,
         \A n \in 0 .. Len(c.storage) - 1 :
           after[n + 1] = IF n + 1 \in Explicit(c) THEN AddExplicitDisk(c, after[n], n + 1)
                          ELSE after[n]
  PROVE  \A n \in 0 .. Len(c.storage) : Turn(c, t, after[n], n)
  <1> DEFINE N == Len(c.storage)
             T == {n \in 0 .. N : Turn(c, t, after[n], n)}
  <1>1. N \in Nat BY ConfigurationIs
  <1>2. ASSUME NEW n \in 0 .. N - 1, Turn(c, t, after[n], n) PROVE Turn(c, t, after[n + 1], n + 1)
    <2>1. n \in Nat /\ n + 1 \in 1 .. N BY <1>1
    <2>2. CASE n + 1 \in Explicit(c)
      <3>1. after[n + 1] = AddExplicitDisk(c, after[n], n + 1) BY <2>2
      <3>2. QED BY <1>2, <2>1, <2>2, <3>1, ExplicitStep
    <2>3. CASE n + 1 \notin Explicit(c)
      <3>1. after[n + 1] = after[n] BY <2>3
      <3>2. Legacy(c) # {} BY <2>1, <2>3, ConfigurationIs
      <3>3. UpTo(Explicit(c), n + 1) = UpTo(Explicit(c), n)
        BY <2>1, <2>3, MentionsAre, CountUpTo
      <3>4. QED BY <1>2, <3>1, <3>2, <3>3 DEF Turn
    <2>4. QED BY <2>2, <2>3
  <1> HIDE DEF N
  <1>3. 0 \in T /\ \A n \in 0 .. N - 1 : n \in T => n + 1 \in T
    <2>1. \A n \in 0 .. N - 1 : n + 1 \in 0 .. N BY <1>1
    <2>2. 0 \in 0 .. N BY <1>1
    <2>3. QED BY <1>2, <2>1, <2>2
  <1> HIDE DEF T
  <1>4. \A n \in 0 .. N : n \in T BY <1>1, <1>3, BoundedInduction
  <1>5. QED BY <1>4 DEF T, N

(* What the allocation accepts *)

\* What the allocation accepts is attached as asked.
LEMMA Accepted ==
  ASSUME NEW c, IsConfiguration(c), Prepared(c), NEW t, IsTemplate(t), NEW r,
         Turn(c, t, r, Len(c.storage)), r.ok
  PROVE  /\ ToSet(r.order) = DOMAIN c.storage /\ Len(r.order) = Len(c.storage)
         /\ IsInjective(r.place) /\ ToSet(r.place) \cap t.devices = {}
         /\ \A k, l \in r.controllers : k.kind = l.kind /\ k.bus = l.bus => k = l
         /\ \A n \in DOMAIN r.order :
              LET On == CHOOSE k \in r.controllers : k.kind = r.place[n].kind /\ k.bus = r.place[n].bus
                  disk == c.storage[r.order[n]]
              IN /\ On \in r.controllers
                 /\ r.place[n].unit <= LastUnit(On.type) \/ OldBus(c, t)
                 /\ ~(r.place[n].kind = "scsi" /\ r.place[n].unit = Reserved)
                 /\ IF disk.explicit THEN r.place[n] = PlaceOf(disk.address)
                    ELSE On = r.made[disk.index + 1]
         /\ Cardinality(r.controllers) - Cardinality(t.controllers) <= Len(c.types)
         /\ Legacy(c) = {} => TypesFit(c, Buses(t.controllers))
  <1> DEFINE N == Len(c.storage)
             D == Legacy(c) \cup UpTo(Explicit(c), N)
  <1>1. /\ N \in Nat /\ DOMAIN c.storage = 1 .. N /\ Explicit(c) \subseteq 1 .. N
        /\ Len(c.types) \in Nat
    BY ConfigurationIs
  <1>2. UpTo(Explicit(c), N) = Explicit(c) BY <1>1 DEF UpTo
  <1>3. D = 1 .. N BY <1>1, <1>2, ConfigurationIs DEF Legacy
  <1>4. Fine(c, t, r, D) /\ Counted(c, t, r) /\ (Legacy(c) = {} => ExplicitFit(c, t, r, N))
    BY DEF Turn
  <1> HIDE DEF D
  <1>5. /\ r.order \in Seq(Nat) /\ IsInjective(r.order) /\ ToSet(r.order) = 1 .. N
        /\ IsInjective(r.place) /\ ToSet(r.place) \cap t.devices = {}
        /\ \A n \in 1 .. Len(r.order) : Seat(c, t, r, r.order[n], r.place[n])
        /\ \A k, l \in r.controllers : k.kind = l.kind /\ k.bus = l.bus => k = l
    BY <1>3, <1>4 DEF Fine, DisksFit, ControllersFit
  <1>6. Len(r.order) = N
    <2>1. Cardinality(1 .. N) = N BY <1>1, IntervalIsFinite
    <2>2. Cardinality(ToSet(r.order)) = Len(r.order) BY <1>5, ListSize
    <2>3. QED BY <1>5, <2>1, <2>2
  <1>7. ASSUME NEW n \in DOMAIN r.order
        PROVE  LET On == CHOOSE k \in r.controllers :
                           k.kind = r.place[n].kind /\ k.bus = r.place[n].bus
                   disk == c.storage[r.order[n]]
               IN /\ On \in r.controllers
                  /\ r.place[n].unit <= LastUnit(On.type) \/ OldBus(c, t)
                  /\ ~(r.place[n].kind = "scsi" /\ r.place[n].unit = Reserved)
                  /\ IF disk.explicit THEN r.place[n] = PlaceOf(disk.address)
                     ELSE On = r.made[disk.index + 1]
    <2> DEFINE On == CHOOSE k \in r.controllers :
                       k.kind = r.place[n].kind /\ k.bus = r.place[n].bus
    <2>1. n \in 1 .. Len(r.order) BY <1>5
    <2>2. Seat(c, t, r, r.order[n], r.place[n]) BY <1>5, <2>1
    <2>3. PICK k \in r.controllers :
            /\ k.kind = r.place[n].kind /\ k.bus = r.place[n].bus
            /\ r.place[n].unit <= LastUnit(k.type) \/ OldBus(c, t)
            /\ ~(r.place[n].kind = "scsi" /\ r.place[n].unit = Reserved)
            /\ IF c.storage[r.order[n]].explicit
               THEN r.place[n] = PlaceOf(c.storage[r.order[n]].address)
               ELSE k = r.made[c.storage[r.order[n]].index + 1]
      BY <2>2 DEF Seat
    <2>4. On \in r.controllers /\ On.kind = r.place[n].kind /\ On.bus = r.place[n].bus
      BY <2>3
    <2>5. On = k BY <1>5, <2>3, <2>4
    <2> HIDE DEF On
    <2>6. /\ On \in r.controllers
          /\ r.place[n].unit <= LastUnit(On.type) \/ OldBus(c, t)
          /\ ~(r.place[n].kind = "scsi" /\ r.place[n].unit = Reserved)
          /\ IF c.storage[r.order[n]].explicit
             THEN r.place[n] = PlaceOf(c.storage[r.order[n]].address)
             ELSE On = r.made[c.storage[r.order[n]].index + 1]
      BY <2>3, <2>5
    <2>7. QED BY <2>6 DEF On
  <1>8. Cardinality(r.controllers) - Cardinality(t.controllers) <= Len(c.types)
    <2>1. Cardinality(t.controllers) \in Nat BY TemplateCount
    <2>2. Cardinality(r.controllers) \in Nat
      <3>1. r.controllers \subseteq ControllerType BY <1>4 DEF Fine, ControllersFit
      <3>2. QED BY <1>5, <3>1, ControllersFinite, FS_CardinalityType
    <2>3. /\ r.next \in Nat /\ r.next <= Len(c.types) + 1
          /\ Cardinality(r.controllers) <= Cardinality(t.controllers) + r.next - 1
      BY <1>4 DEF Counted
    <2>4. QED BY <1>1, <2>1, <2>2, <2>3
  <1>9. ASSUME Legacy(c) = {} PROVE TypesFit(c, Buses(t.controllers))
    <2>1. \A i \in UpTo(New(c, t), N) : EntryFits(c, t, i) BY <1>4, <1>9 DEF ExplicitFit
    <2>2. New(c, t) \subseteq 1 .. N BY <1>1, MentionsAre
    <2>3. \A i \in New(c, t) : i \in UpTo(New(c, t), N) BY <1>1, <2>2 DEF UpTo
    <2>4. QED BY <2>1, <2>3, TypesFitIs
  <1>10. QED BY <1>1, <1>5, <1>6, <1>7, <1>8, <1>9

(* What the allocation does not refuse *)

\* Where the disks with an address are to be.
PlacesOf(c) == {PlaceOf(c.storage[i].address) : i \in Explicit(c)}

\* A configuration whose disks all have addresses, at places of their own, with types
\* that fit, on a machine without controllers.
Fitting(c, t) ==
  /\ Legacy(c) = {} /\ t.controllers = {} /\ TypesFit(c, {})
  /\ Cardinality(PlacesOf(c)) = Len(c.storage)

\* No two of such disks are to be at one place.
LEMMA PlacesDiffer ==
  ASSUME NEW c, IsConfiguration(c), Prepared(c), NEW t, Fitting(c, t)
  PROVE  /\ IsFiniteSet(PlacesOf(c))
         /\ \A i, j \in Explicit(c) :
              PlaceOf(c.storage[i].address) = PlaceOf(c.storage[j].address) => i = j
  <1> DEFINE N == Len(c.storage)
             f == [i \in 1 .. N |-> PlaceOf(c.storage[i].address)]
  <1>1. N \in Nat /\ Explicit(c) = 1 .. N BY AllExplicit, ConfigurationIs DEF Fitting
  <1>2. IsFiniteSet(1 .. N) /\ Cardinality(1 .. N) = N BY <1>1, IntervalIsFinite
  <1>3. f \in Surjection(1 .. N, PlacesOf(c)) BY <1>1 DEF Surjection, PlacesOf
  <1>4. Cardinality(PlacesOf(c)) = N BY DEF Fitting
  <1> HIDE DEF N, f
  <1>5. IsFiniteSet(PlacesOf(c)) /\ f \in Injection(1 .. N, PlacesOf(c))
    BY <1>2, <1>3, <1>4, FS_Surjection
  <1>6. \A i, j \in 1 .. N : f[i] = f[j] => i = j BY <1>5 DEF Injection, IsInjective
  <1>7. QED BY <1>1, <1>5, <1>6 DEF f

\* On a machine without controllers every bus is new.
LEMMA BareMachine ==
  ASSUME NEW c, NEW t, IsTemplate(t), Fitting(c, t)
  PROVE  Buses(t.controllers) = {} /\ t.devices = {} /\ ~OldBus(c, t)
         /\ \A i \in New(c, t) : EntryFits(c, t, i)
  <1>1. t.controllers = {} /\ Buses(t.controllers) = {} BY DEF Fitting, Buses
  <1>2. t.devices = {} BY <1>1 DEF IsTemplate
  <1>3. TypesFit(c, Buses(t.controllers)) BY <1>1 DEF Fitting
  <1>4. QED BY <1>1, <1>2, <1>3, TypesFitIs DEF OldBus

\* On such a machine, the devices are the places of the disks so far.
LEMMA DevicesAre ==
  ASSUME NEW c, IsConfiguration(c), Prepared(c), NEW t, IsTemplate(t), Fitting(c, t), NEW s,
         NEW D, D \subseteq Explicit(c), Fine(c, t, s, D), NEW d \in s.devices
  PROVE  /\ \E i \in D : d = PlaceOf(c.storage[i].address)
         /\ \E k \in s.controllers : /\ k.kind = d.kind /\ k.bus = d.bus
                                     /\ d.unit <= LastUnit(k.type)
                                     /\ ~(d.kind = "scsi" /\ d.unit = Reserved)
         /\ d \in PlaceType
  <1>1. /\ s.devices = ToSet(s.place) /\ s.place \in Seq(PlaceType) /\ s.order \in Seq(Nat)
        /\ Len(s.place) = Len(s.order) /\ ToSet(s.order) = D
        /\ \A n \in 1 .. Len(s.order) : Seat(c, t, s, s.order[n], s.place[n])
    BY BareMachine DEF Fine, DisksFit
  <1>2. DOMAIN s.place = 1 .. Len(s.place) /\ DOMAIN s.order = 1 .. Len(s.order)
        /\ \A n \in 1 .. Len(s.place) : s.place[n] \in PlaceType
    BY <1>1
  <1>3. PICK n \in 1 .. Len(s.order) : d = s.place[n] BY <1>1, <1>2 DEF ToSet
  <1>4. s.order[n] \in D BY <1>1, <1>2 DEF ToSet
  <1>5. Seat(c, t, s, s.order[n], d) /\ d \in PlaceType BY <1>1, <1>2, <1>3
  <1>6. c.storage[s.order[n]].explicit BY <1>4 DEF Explicit
  <1>7. QED BY <1>4, <1>5, <1>6, BareMachine DEF Seat

\* On such a machine, the unit of the next disk is free and its controller has room.
LEMMA UnitIsFree ==
  ASSUME NEW c, IsConfiguration(c), Prepared(c), NEW t, IsTemplate(t), Fitting(c, t), NEW s,
         NEW n \in Nat, NEW i \in Explicit(c), i = n + 1, Turn(c, t, s, n), s.ok,
         NEW k \in s.controllers, <<k.kind, k.bus>> = BusAt(c, i),
         NEW unit, unit = c.storage[i].address.unit
  PROVE  unit \in FreeUnits(s, k) /\ HasRoom(s, k)
  <1> DEFINE D == UpTo(Explicit(c), n)
             units == {u \in 0 .. LastUnit(k.type) : k.kind = "scsi" => u # Reserved}
             p == Place(k.kind, k.bus, unit)
  <1>1. Legacy(c) = {} /\ t.controllers = {} BY DEF Fitting
  <1>2. Fine(c, t, s, D) /\ ExplicitFit(c, t, s, n)
    <2>1. Legacy(c) \cup D = D BY <1>1
    <2>2. QED BY <1>1, <2>1 DEF Turn
  <1>3. D \subseteq Explicit(c) /\ i \notin D /\ i \in Explicit(c) BY DEF UpTo
  <1>4. /\ k.kind = c.storage[i].address.kind /\ k.bus = c.storage[i].address.bus
        /\ unit \in Nat /\ ~(k.kind = "scsi" /\ unit = Reserved)
        /\ p = PlaceOf(c.storage[i].address)
    <2>1. k.kind = c.storage[i].address.kind /\ k.bus = c.storage[i].address.bus BY AddressIs
    <2>2. QED BY <2>1, AddressIs DEF PlaceOf
  <1>5. unit <= LastUnit(k.type)
    <2>1. PICK j \in UpTo(New(c, t), n) :
            BusAt(c, j) = <<k.kind, k.bus>> /\ k.type = c.types[Entry(c, t, j)]
      BY <1>1, <1>2 DEF ExplicitFit
    <2>2. j \in New(c, t) /\ j \in Mentions(c) BY <2>1, MentionsAre DEF UpTo
    <2>3. Entry(c, t, j) <= Len(c.types) BY <2>2, BareMachine DEF EntryFits
    <2>4. BusAt(c, j) = BusAt(c, i) BY <2>1
    <2>5. ~OldBus(c, t) BY BareMachine
    <2>6. c.storage[i].address.unit <= LastUnit(c.types[Entry(c, t, j)])
      BY <2>2, <2>3, <2>4, <2>5, TypeIndexIs
    <2>7. QED BY <2>1, <2>6
  <1> HIDE DEF D, p
  <1>11. \A d \in s.devices :
           /\ \E j \in D : d = PlaceOf(c.storage[j].address)
           /\ \E l \in s.controllers : /\ l.kind = d.kind /\ l.bus = d.bus
                                       /\ d.unit <= LastUnit(l.type)
                                       /\ ~(d.kind = "scsi" /\ d.unit = Reserved)
           /\ d \in PlaceType
    BY <1>2, <1>3, DevicesAre
  <1>6. p \notin s.devices
    <2> SUFFICES ASSUME p \in s.devices PROVE FALSE OBVIOUS
    <2>1. PICK j \in D : p = PlaceOf(c.storage[j].address) BY <1>11
    <2>2. j \in Explicit(c) /\ j # i BY <1>3, <2>1
    <2>3. QED BY <1>4, <2>1, <2>2, PlacesDiffer
  <1>7. LastUnit(k.type) \in Nat BY LastUnitType
  <1>8. unit \in units BY <1>4, <1>5, <1>7
  <1>9. unit \in FreeUnits(s, k) BY <1>6, <1>8 DEF FreeUnits, p
  <1>10. HasRoom(s, k)
    <2> DEFINE on == OnController(s, k)
               other == units \ {unit}
               f == [d \in on |-> d.unit]
    <2>1. ASSUME NEW d \in on PROVE d.unit \in other /\ d = [kind |-> k.kind, bus |-> k.bus, unit |-> d.unit]
      <3>1. d \in s.devices /\ d.kind = k.kind /\ d.bus = k.bus BY DEF OnController
      <3>2. d \in PlaceType BY <1>11, <3>1
      <3>3. PICK l \in s.controllers : /\ l.kind = d.kind /\ l.bus = d.bus
                                       /\ d.unit <= LastUnit(l.type)
                                       /\ ~(d.kind = "scsi" /\ d.unit = Reserved)
        BY <1>11, <3>1
      <3>4. l = k BY <1>2, <3>1, <3>3 DEF Fine, ControllersFit
      <3>5. d.unit \in units BY <1>7, <3>1, <3>2, <3>3, <3>4 DEF PlaceType
      <3>6. d = [kind |-> k.kind, bus |-> k.bus, unit |-> d.unit] BY <3>1, <3>2 DEF PlaceType
      <3>7. d.unit # unit BY <1>6, <3>1, <3>6 DEF p, Place
      <3>8. QED BY <3>5, <3>6, <3>7
    <2>2. IsFiniteSet(units)
      <3>1. IsFiniteSet(0 .. LastUnit(k.type)) BY <1>7, IntervalIsFinite
      <3>2. units \in SUBSET (0 .. LastUnit(k.type)) OBVIOUS
      <3> HIDE DEF units
      <3>3. QED BY <3>1, <3>2, FS_Subset
    <2>3. IsFiniteSet(other) /\ Cardinality(other) = Cardinality(units) - 1
          /\ Cardinality(units) \in Nat
      <3> HIDE DEF units
      <3>1. QED BY <1>8, <2>2, FS_RemoveElement, FS_CardinalityType
    <2> HIDE DEF on, units, other
    <2>4. f \in Injection(on, other)
      <3>1. f \in [on -> other] BY <2>1
      <3>2. ASSUME NEW d \in on, NEW e \in on, f[d] = f[e] PROVE d = e
        <4>1. d.unit = e.unit BY <3>2
        <4>2. QED BY <2>1, <4>1
      <3> HIDE DEF f
      <3>3. DOMAIN f = on BY <3>1
      <3>4. QED BY <3>1, <3>2, <3>3 DEF Injection, IsInjective
    <2> HIDE DEF f
    <2>5. IsFiniteSet(on) /\ Cardinality(on) <= Cardinality(other) BY <2>3, <2>4, FS_Injection
    <2>6. Cardinality(on) \in Nat BY <2>5, FS_CardinalityType
    <2>7. Cardinality(on) < Cardinality(units) BY <2>3, <2>5, <2>6
    <2>8. QED BY <2>7 DEF HasRoom, on, units
  <1>12. QED BY <1>9, <1>10

\* The controller that is made for it comes out on its bus.
LEMMA BusIsNext ==
  ASSUME NEW c, IsConfiguration(c), Prepared(c), NEW t, IsTemplate(t), Fitting(c, t), NEW s,
         NEW n \in Nat, NEW i \in Explicit(c), i = n + 1, ExplicitFit(c, t, s, n),
         BusAt(c, i) \notin Buses(s.controllers)
  PROVE  LET free == FreeBuses(s, KindOf(c.types[s.next]))
         IN /\ s.next <= Len(c.types) /\ free # {}
            /\ <<KindOf(c.types[s.next]), Min(free)>> = BusAt(c, i)
  <1> DEFINE address == c.storage[i].address
             kind == KindOf(c.types[s.next])
             free == FreeBuses(s, kind)
  <1>1. Legacy(c) = {} BY DEF Fitting
  <1>2. n + 1 \in New(c, t) /\ i \in New(c, t) BY <1>1, NewBus
  <1>3. Entry(c, t, i) = s.next BY <1>1, <1>2, NextEntry
  <1>4. EntryFits(c, t, i) BY <1>2, BareMachine
  <1>5. BusAt(c, i) = <<address.kind, address.bus>> /\ address.bus \in 0 .. MaxBus BY AddressIs
  <1>6. s.next <= Len(c.types) /\ kind = address.kind BY <1>3, <1>4, <1>5 DEF EntryFits
  <1>7. address.bus \in free
    <2>1. OnBus(s, kind, address.bus) = {} BY <1>5, <1>6, BusTaken
    <2>2. QED BY <1>5, <2>1 DEF FreeBuses
  <1>8. ASSUME NEW b \in 0 .. address.bus - 1 PROVE b \notin free
    <2>1. There(c, t, i, <<address.kind, b>>) BY <1>4, <1>5 DEF EntryFits
    <2>2. PICK j \in New(c, t) : j < i /\ BusAt(c, j) = <<address.kind, b>>
      BY <2>1, BareMachine DEF There
    <2>3. j \in 1 .. n
      <3>1. j \in Nat /\ j # 0 BY MentionsAre
      <3>2. QED BY <2>2, <3>1
    <2>4. <<kind, b>> \in Buses(s.controllers) BY <1>6, <2>2, <2>3 DEF ExplicitFit
    <2>5. QED BY <2>4, BusTaken DEF FreeBuses
  <1> HIDE DEF free, kind
  <1>9. free \subseteq Nat /\ free \subseteq 0 .. MaxBus BY DEF free, FreeBuses
  <1>10. Min(free) \in free /\ \A y \in free : Min(free) <= y BY <1>7, <1>9, MinIs
  <1>11. Min(free) = address.bus
    <2>1. Min(free) \in Nat /\ address.bus \in Nat BY <1>7, <1>9, <1>10
    <2>2. Min(free) <= address.bus BY <1>7, <1>10
    <2>3. ~(Min(free) \in 0 .. address.bus - 1) BY <1>8, <1>10
    <2>4. QED BY <2>1, <2>2, <2>3
  <1>12. QED BY <1>5, <1>6, <1>7, <1>11 DEF free, kind

\* The next disk is not refused.
LEMMA NoRefusal ==
  ASSUME NEW c, IsConfiguration(c), Prepared(c), NEW t, IsTemplate(t), Fitting(c, t), NEW s,
         NEW n \in Nat, NEW i \in Explicit(c), i = n + 1, Turn(c, t, s, n), s.ok
  PROVE  AddExplicitDisk(c, s, i).ok
  <1> DEFINE address == c.storage[i].address
             there == OnBus(s, address.kind, address.bus)
             r == AddExplicitDisk(c, s, i)
             D == UpTo(Explicit(c), n)
  <1>1. Legacy(c) = {} BY DEF Fitting
  <1>2. Fine(c, t, s, D) /\ ExplicitFit(c, t, s, n) /\ Counted(c, t, s) /\ Shape(s)
    <2>1. Legacy(c) \cup D = D BY <1>1
    <2>2. QED BY <1>1, <2>1 DEF Turn
  <1>3. BusAt(c, i) = <<address.kind, address.bus>> BY AddressIs
  <1>4. there # {} <=> BusAt(c, i) \in Buses(s.controllers) BY <1>3, BusTaken
  <1>5. i \notin D BY DEF UpTo
  <1> HIDE DEF D
  <1>6. CASE there = {}
    <2>1. r = AddWithController(c, s, i, address) BY <1>6 DEF AddExplicitDisk
    <2>2. BusAt(c, i) \notin Buses(s.controllers) BY <1>4, <1>6
    <2>3. i \in New(c, t) /\ i \in Mentions(c) /\ Entry(c, t, i) = s.next
      BY <1>1, <1>2, <2>2, NewBus, NextEntry, MentionsAre
    <2>4. ~OldBus(c, t) /\ s.next <= Len(c.types) => address.unit <= LastUnit(c.types[s.next])
      BY <2>3, TypeIndexIs
    <2>5. OneMoreController(c, t, D, s, r, i)
      <3> HIDE DEF r
      <3>1. QED BY <1>2, <1>5, <2>1, <2>2, <2>4, WithControllerStep DEF address
    <2>6. /\ s.next <= Len(c.types) /\ FreeBuses(s, KindOf(c.types[s.next])) # {}
          /\ <<KindOf(c.types[s.next]), Min(FreeBuses(s, KindOf(c.types[s.next])))>> = BusAt(c, i)
      BY <1>2, <2>2, BusIsNext
    <2>7. ~(s.next > Len(c.types))
      <3>1. s.next \in Nat /\ Len(c.types) \in Nat BY <1>2, ConfigurationIs DEF Counted
      <3>2. QED BY <2>6, <3>1
    <2> HIDE DEF r
    <2>8. r.ok BY <2>5, <2>6, <2>7 DEF OneMoreController
    <2>9. QED BY <2>8 DEF r
  <1>7. CASE there # {}
    <2> DEFINE k == CHOOSE k \in there : TRUE
    <2>1. r = AddToController(s, i, address, k) BY <1>7 DEF AddExplicitDisk
    <2>2. k \in there BY <1>7
    <2> HIDE DEF k
    <2>3. k \in s.controllers /\ <<k.kind, k.bus>> = BusAt(c, i) BY <1>3, <2>2 DEF OnBus
    <2>4. address.unit \in FreeUnits(s, k) /\ HasRoom(s, k) BY <2>3, UnitIsFree
    <2>5. r = Attach(s, i, PlaceOf(address)) BY <2>1, <2>4 DEF AddToController
    <2>6. Attach(s, i, PlaceOf(address)).ok = s.ok BY <1>2, AttachIs
    <2>7. QED BY <2>5, <2>6
  <1>8. QED BY <1>6, <1>7

\* Disks that fit the limits are not too many.
LEMMA NotTooManyDisks ==
  ASSUME NEW c, IsConfiguration(c), Prepared(c), NEW t, IsTemplate(t), Fitting(c, t), NEW s,
         NEW D, D \subseteq Explicit(c), Fine(c, t, s, D),
         \A kind \in Kinds : Cardinality({p \in PlacesOf(c) : p.kind = kind})
                             <= MaxDisks[IF kind = "scsi" THEN "lsi" ELSE kind]
  PROVE  ~TooManyDisks(s)
  <1> SUFFICES ASSUME NEW kind \in Kinds
               PROVE  ~(Cardinality({d \in s.devices : d.kind = kind}) > MostDisks(s, kind))
    BY DEF TooManyDisks
  <1> DEFINE some == {d \in s.devices : d.kind = kind}
             most == {p \in PlacesOf(c) : p.kind = kind}
             limit == MaxDisks[IF kind = "scsi" THEN "lsi" ELSE kind]
  <1>1. s.devices \subseteq PlacesOf(c)
    <2> SUFFICES ASSUME NEW d \in s.devices PROVE d \in PlacesOf(c) OBVIOUS
    <2>1. PICK i \in D : d = PlaceOf(c.storage[i].address) BY DevicesAre
    <2>2. QED BY <2>1 DEF PlacesOf
  <1>2. some \in SUBSET most /\ most \in SUBSET PlacesOf(c) BY <1>1
  <1>3. Cardinality(most) <= limit OBVIOUS
  <1>4. limit \in Nat /\ MostDisks(s, kind) \in Nat /\ limit <= MostDisks(s, kind)
    <2>1. /\ MaxDisks["lsi"] \in Nat /\ MaxDisks["pvscsi"] \in Nat /\ MaxDisks["nvme"] \in Nat
          /\ MaxDisks["sata"] \in Nat /\ MaxDisks["lsi"] <= MaxDisks["pvscsi"]
      BY DiskAttachmentAssumption DEF Families
    <2>2. CASE kind = "scsi" BY <2>1, <2>2 DEF MostDisks
    <2>3. CASE kind \in {"nvme", "sata"} BY <2>1, <2>3 DEF MostDisks
    <2>4. QED BY <2>2, <2>3 DEF Kinds
  <1> HIDE DEF some, most, limit
  <1>5. IsFiniteSet(most)
    <2>1. IsFiniteSet(PlacesOf(c)) BY PlacesDiffer
    <2>2. QED BY <1>2, <2>1, FS_Subset
  <1>6. IsFiniteSet(some) /\ Cardinality(some) <= Cardinality(most) BY <1>2, <1>5, FS_Subset
  <1>7. Cardinality(some) \in Nat /\ Cardinality(most) \in Nat
    BY <1>5, <1>6, FS_CardinalityType
  <1>8. Cardinality(some) <= MostDisks(s, kind) BY <1>3, <1>4, <1>6, <1>7
  <1>9. QED BY <1>4, <1>7, <1>8 DEF some

(* The allocation *)

\* Every configuration is attached as asked to every template, or refused for a reason.
LEMMA DisksAttached ==
  ASSUME NEW c, IsConfiguration(c), NEW t, IsTemplate(t)
  PROVE  AttachesAsAsked(c, t)
  <1> SUFFICES ASSUME Prepared(c) PROVE AttachesAsAsked(c, t)
    BY DEF AttachesAsAsked
  <1> DEFINE N == Len(c.storage)
             start == [AddLegacyDisks(c, Start(t)) EXCEPT !.next = LegacyTypes(c) + 1]
             r == AddStorageDevices(c, t)
             old == \E i \in Explicit(c) : BusAt(c, i) \in {<<k.kind, k.bus>> : k \in t.controllers}
  <1>1. N \in Nat BY ConfigurationIs
  <1>2. Turn(c, t, start, 0) /\ (Legacy(c) = {} => start.ok) BY BeforeExplicit
  <1>3. PICK after : /\ after[0] = start /\ ExplicitDisks(c, start) = after[N]
                     /\ \A n \in 0 .. N - 1 :
                          after[n + 1] = IF n + 1 \in Explicit(c)
                                         THEN AddExplicitDisk(c, after[n], n + 1) ELSE after[n]
    BY <1>1, ExplicitDisksTurn
  <1> DEFINE all == after[N]
  <1>4. r = IF c.storage # << >> /\ TooManyDisks(all) THEN Refuse(all) ELSE all
    BY <1>3 DEF AddStorageDevices
  <1> HIDE DEF start, r
  <1>5. \A n \in 0 .. N : Turn(c, t, after[n], n) BY <1>2, <1>3, AllDisks
  <1>6. Turn(c, t, all, N) BY <1>1, <1>5
  <1> HIDE DEF all
  <1>7. r.ok => r = all /\ all.ok
    <2>1. Shape(all) BY <1>6 DEF Turn
    <2>2. Refuse(all).ok = FALSE BY <2>1, RefuseIs
    <2>3. QED BY <1>4, <2>2
  <1>8. Buses(t.controllers) = {<<k.kind, k.bus>> : k \in t.controllers} /\ (OldBus(c, t) <=> old)
    BY DEF Buses, OldBus
  <1>9. ASSUME r.ok
        PROVE  /\ ToSet(r.order) = DOMAIN c.storage /\ Len(r.order) = Len(c.storage)
               /\ IsInjective(r.place) /\ ToSet(r.place) \cap t.devices = {}
               /\ \A k, l \in r.controllers : k.kind = l.kind /\ k.bus = l.bus => k = l
               /\ \A n \in DOMAIN r.order :
                    LET On == CHOOSE k \in r.controllers :
                                k.kind = r.place[n].kind /\ k.bus = r.place[n].bus
                        disk == c.storage[r.order[n]]
                    IN /\ On \in r.controllers
                       /\ r.place[n].unit <= LastUnit(On.type) \/ OldBus(c, t)
                       /\ ~(r.place[n].kind = "scsi" /\ r.place[n].unit = Reserved)
                       /\ IF disk.explicit THEN r.place[n] = PlaceOf(disk.address)
                          ELSE On = r.made[disk.index + 1]
               /\ Cardinality(r.controllers) - Cardinality(t.controllers) <= Len(c.types)
               /\ Legacy(c) = {} => TypesFit(c, Buses(t.controllers))
    <2>1. Turn(c, t, r, Len(c.storage)) BY <1>6, <1>7, <1>9
    <2>2. QED BY <1>9, <2>1, Accepted
  <1>10. ASSUME Legacy(c) = {}, t.controllers = {}, TypesFit(c, {}),
                Cardinality(PlacesOf(c)) = Len(c.storage),
                \A kind \in Kinds : Cardinality({p \in PlacesOf(c) : p.kind = kind})
                                    <= MaxDisks[IF kind = "scsi" THEN "lsi" ELSE kind]
         PROVE  r.ok
    <2>1. Fitting(c, t) BY <1>10 DEF Fitting
    <2>2. Explicit(c) = 1 .. N BY <1>10, AllExplicit
    <2> DEFINE T == {n \in 0 .. N : after[n].ok}
    <2>3. ASSUME NEW n \in 0 .. N - 1, after[n].ok PROVE after[n + 1].ok
      <3> DEFINE i == n + 1
      <3>1. i \in Explicit(c) /\ n \in Nat /\ n \in 0 .. N BY <1>1, <2>2
      <3>2. after[i] = AddExplicitDisk(c, after[n], i) BY <1>3, <3>1
      <3>3. Turn(c, t, after[n], n) BY <1>5, <3>1
      <3>4. i = n + 1 OBVIOUS
      <3> HIDE DEF i
      <3>5. AddExplicitDisk(c, after[n], i).ok BY <2>1, <2>3, <3>1, <3>3, <3>4, NoRefusal
      <3>6. QED BY <3>2, <3>4, <3>5
    <2>4. 0 \in T /\ \A n \in 0 .. N - 1 : n \in T => n + 1 \in T
      <3>1. \A n \in 0 .. N - 1 : n + 1 \in 0 .. N BY <1>1
      <3>2. 0 \in 0 .. N /\ after[0].ok BY <1>1, <1>2, <1>3, <1>10
      <3>3. QED BY <2>3, <3>1, <3>2
    <2> HIDE DEF T
    <2>5. \A n \in 0 .. N : n \in T BY <1>1, <2>4, BoundedInduction
    <2>6. all.ok BY <1>1, <2>5 DEF T, all
    <2>7. Fine(c, t, all, UpTo(Explicit(c), N))
      <3>1. Legacy(c) \cup UpTo(Explicit(c), N) = UpTo(Explicit(c), N) BY <1>10
      <3>2. QED BY <1>6, <2>6, <3>1 DEF Turn
    <2>8. UpTo(Explicit(c), N) \subseteq Explicit(c) BY DEF UpTo
    <2>9. ~TooManyDisks(all) BY <1>10, <2>1, <2>7, <2>8, NotTooManyDisks
    <2>10. QED BY <1>4, <2>6, <2>9
  <1>11. QED BY <1>8, <1>9, <1>10 DEF AttachesAsAsked, PlacesOf, r

-----------------------------------------------------------------------------
(* The theorems *)

(* The specification *)

\* What the server has and what is asked for are of the algorithm that is run, and a
\* query is of the kind of the inventory it is put to.
Typed ==
  /\ algorithm \in {"disks", "storage", "data_source"}
  /\ algorithm = "disks" => server \in Templates /\ input \in DiskConfigurations \cup {Unset}
  /\ algorithm = "storage" => server \in StorageServers /\ input \in StorageRequests \cup {Unset}
  /\ algorithm = "data_source" =>
       /\ server \in Inventories
       /\ input # Unset => input \in Queries /\ input.kind = server.kind

\* A request of a configuration and a server is as its parts are.
LEMMA RequestIs ==
  ASSUME NEW offered, IsOffered(offered), NEW requested, IsRequested(requested)
  PROVE  IsRequested(Request(offered, requested)) /\ IsOffered(Request(offered, requested))
  BY DEF Request, IsRequested, IsOffered

\* Every algorithm is run on what is meant for it.
THEOREM InputsAreTyped == Spec => []Typed
  <1>1. Init => Typed BY DEF Init, Typed
  <1>2. Typed /\ [Next]_vars => Typed'
    <2> SUFFICES ASSUME Typed, [Next]_vars PROVE Typed' OBVIOUS
    <2>1. CASE AttachDisks BY <2>1 DEF AttachDisks, Ask, Typed
    <2>2. CASE PlaceDisks BY <2>2 DEF PlaceDisks, Ask, Typed
    <2>3. CASE QueryInventory BY <2>3 DEF QueryInventory, Ask, Typed
    <2>4. CASE UNCHANGED vars BY <2>4 DEF vars, Typed
    <2>5. QED BY <2>1, <2>2, <2>3, <2>4 DEF Next
  <1>3. QED BY <1>1, <1>2, PTL DEF Spec

\* For any template and any configuration, what addStorageDevices accepts is attached
\* as asked, and what fits a bare machine is accepted.
THEOREM DisksAreAttached == Spec => []DisksAttachAsAsked
  <1>1. Typed => DisksAttachAsAsked
    BY AlgorithmsAssumption, DisksAttached DEF Typed, DisksAttachAsAsked
  <1>2. QED BY <1>1, InputsAreTyped, PTL

\* For any recommendation of Storage DRS and any policies, every disk is put where
\* the configuration, the recommendation or its policy says.
THEOREM DisksArePlaced == Spec => []DisksPlacedAsRecommended
  <1>1. Typed => DisksPlacedAsRecommended
    <2> SUFFICES ASSUME Typed, algorithm = "storage", input # Unset
                 PROVE  PlacedAsRecommended(Request(server, input))
      BY DEF DisksPlacedAsRecommended
    <2>1. IsOffered(server) /\ IsRequested(input) BY AlgorithmsAssumption DEF Typed
    <2>2. QED BY <2>1, RequestIs, PlacedWell
  <1>2. QED BY <1>1, InputsAreTyped, PTL

\* For any inventory and any query, Execute of a data source answers with what is
\* asked for, whatever the order of the objects, and refuses only for a reason.
THEOREM QueriesAreAnswered == Spec => []QueriesFindTheOne
  <1>1. Typed => QueriesFindTheOne
    BY AlgorithmsAssumption, DataSourceFindsTheOne DEF Typed, QueriesFindTheOne
  <1>2. QED BY <1>1, InputsAreTyped, PTL
=============================================================================
