-------------------------- MODULE LinkedListProofs --------------------------
(***************************************************************************)
(* Walk finds the list there is: what the operators of LinkedLists compute  *)
(* for a list of any length, and how a list changes when an item is linked,  *)
(* unlinked or taken off its front.                                        *)
(***************************************************************************)
EXTENDS LinkedLists, FiniteSetTheorems, SequenceTheorems, WellFoundedInduction, TLAPS

---------------------------------------------------------------------------
(* Induction, on sets of numbers.                                          *)
LEMMA LessThan ==
  \E R : IsWellFoundedOn(R, Nat) /\ \A x, y \in Nat : <<x, y>> \in R <=> x < y
<1> DEFINE Less == OpToRel(<, Nat)
<1>1. \A x, y \in Nat : <<x, y>> \in Less <=> x < y
  BY DEF OpToRel
<1>2. IsWellFoundedOn(Less, Nat)
  BY NatLessThanWellFounded
<1> HIDE DEF Less
<1> QED
  BY <1>1, <1>2

(* A set of numbers has a least one.                                       *)
LEMMA Least ==
  ASSUME NEW T \in SUBSET Nat, T # {}
  PROVE  \E m \in T : \A k \in T : m <= k
<1>1. PICK R : IsWellFoundedOn(R, Nat) /\ \A x, y \in Nat : <<x, y>> \in R <=> x < y
  BY LessThan
<1>2. T \subseteq Nat
  OBVIOUS
<1>3. \E x \in T : \A y \in T : ~ (<<y, x>> \in R)
  <2>1. IsWellFoundedOn(R, Nat)
    BY <1>1
  <2> QED
    BY <1>2, <2>1, WFMin, Zenon
<1>4. PICK x \in T : \A y \in T : ~ (<<y, x>> \in R)
  BY <1>3
<1>5. ASSUME NEW k \in T PROVE x <= k
  <2>1. ~ (<<k, x>> \in R) /\ x \in Nat /\ k \in Nat
    BY <1>2, <1>4
  <2>2. ~ (k < x)
    BY <1>1, <2>1, Zenon
  <2> QED
    BY <2>1, <2>2
<1> QED
  BY <1>5

(* So a set that has 0, and n + 1 with n, has every number.                 *)
LEMMA Induction ==
  ASSUME NEW S, 0 \in S, \A n \in Nat : n \in S => n + 1 \in S
  PROVE  Nat \subseteq S
<1> DEFINE T == Nat \ S
<1>1. SUFFICES ASSUME T # {} PROVE FALSE
  OBVIOUS
<1>2. PICK m \in T : \A k \in T : m <= k
  BY <1>1, Least
<1>3. m # 0 /\ m - 1 \in Nat /\ m - 1 \notin T
  BY <1>2
<1> QED
  BY <1>2, <1>3

---------------------------------------------------------------------------
(* Chain is the function its definition is about.                          *)
Following(q, next) == IF q \in DOMAIN next THEN next[q] ELSE q
Leads(at, p, next, n) ==
  at = [i \in 0 .. n |-> IF i = 0 THEN p ELSE Following(at[i - 1], next)]

(* There is such a function, for any number of pointers.                     *)
LEMMA ChainExists ==
  ASSUME NEW p, NEW next
  PROVE  \A n \in Nat : \E at : Leads(at, p, next, n)
<1> DEFINE S == {n \in Nat : \E at : Leads(at, p, next, n)}
<1>1. 0 \in S
  <2>1. Leads([i \in 0 .. 0 |-> p], p, next, 0)
    BY DEF Leads
  <2> QED
    BY <2>1
<1>2. ASSUME NEW n \in Nat, n \in S PROVE n + 1 \in S
  <2>1. PICK at : Leads(at, p, next, n)
    BY <1>2
  <2> DEFINE more == [i \in 0 .. n + 1 |-> IF i <= n THEN at[i] ELSE Following(at[n], next)]
  <2>2. Leads(more, p, next, n + 1)
    BY <2>1 DEF Leads
  <2> QED
    BY <2>2
<1> HIDE DEF S
<1>3. Nat \subseteq S
  BY <1>1, <1>2, Induction
<1> QED
  BY <1>3 DEF S

(* So Chain is one.                                                        *)
LEMMA ChainIs ==
  ASSUME NEW p, NEW next, IsFiniteSet(DOMAIN next)
  PROVE  Leads(Chain(p, next), p, next, Cardinality(DOMAIN next))
<1>1. Cardinality(DOMAIN next) \in Nat
  BY FS_CardinalityType
<1>2. \E at : Leads(at, p, next, Cardinality(DOMAIN next))
  BY <1>1, ChainExists
<1> QED
  BY <1>2, Zenon DEF Leads, Chain, Following

---------------------------------------------------------------------------
(* s is the list that begins at p and ends with the pointer end.            *)
Nth(s, i, end) == IF i <= Len(s) THEN s[i] ELSE end

Distinct(s) == \A i, j \in 1 .. Len(s) : s[i] = s[j] => i = j

IsList(s, p, next, end) ==
  /\ end \notin DOMAIN next
  /\ s \in Seq(DOMAIN next) /\ Distinct(s)
  /\ p = Nth(s, 1, end)
  /\ \A i \in 1 .. Len(s) : next[s[i]] = Nth(s, i + 1, end)

Elems(s) == {s[i] : i \in DOMAIN s}

(* A sequence without repetitions is as long as its elements are many.      *)
LEMMA DistinctLength ==
  ASSUME NEW S, NEW s \in Seq(S), Distinct(s)
  PROVE  IsFiniteSet(Elems(s)) /\ Cardinality(Elems(s)) = Len(s)
<1>1. Len(s) \in Nat /\ DOMAIN s = 1 .. Len(s)
  OBVIOUS
<1>2. IsFiniteSet(1 .. Len(s)) /\ Cardinality(1 .. Len(s)) = Len(s)
  BY <1>1, FS_Interval
<1>3. s \in [1 .. Len(s) -> Elems(s)]
  BY <1>1 DEF Elems
<1>4. s \in Bijection(1 .. Len(s), Elems(s))
  BY <1>1, <1>3 DEF Bijection, Injection, Surjection, Distinct, Elems, IsInjective
<1>5. ExistsBijection(1 .. Len(s), Elems(s))
  BY <1>4 DEF ExistsBijection
<1> QED
  BY <1>2, <1>5, FS_Bijection

(* A list has as many pointers as there are items on it, and no more than     *)
(* there are items.                                                        *)
LEMMA ListLength ==
  ASSUME NEW next, IsFiniteSet(DOMAIN next), NEW s, NEW p, NEW end, IsList(s, p, next, end)
  PROVE  /\ IsFiniteSet(Elems(s)) /\ Cardinality(Elems(s)) = Len(s)
         /\ Len(s) \in Nat /\ Len(s) <= Cardinality(DOMAIN next)
<1>1. IsFiniteSet(Elems(s)) /\ Cardinality(Elems(s)) = Len(s)
  BY DistinctLength DEF IsList
<1>2. Elems(s) \subseteq DOMAIN next
  BY DEF IsList, Elems
<1>3. Cardinality(Elems(s)) <= Cardinality(DOMAIN next)
  BY <1>2, FS_Subset
<1> QED
  BY <1>1, <1>3 DEF IsList

(* The walk along a list meets its items one after the other, then its end.  *)
LEMMA ChainMeets ==
  ASSUME NEW next, IsFiniteSet(DOMAIN next), NEW s, NEW p, NEW end, IsList(s, p, next, end)
  PROVE  \A i \in 0 .. Cardinality(DOMAIN next) : Chain(p, next)[i] = Nth(s, i + 1, end)
<1> DEFINE n == Cardinality(DOMAIN next)
           at == Chain(p, next)
           S == {i \in Nat : i <= n => at[i] = Nth(s, i + 1, end)}
<1>0. n \in Nat
  BY FS_CardinalityType
<1>1. Leads(at, p, next, n)
  BY ChainIs
<1> HIDE DEF n, at
<1>2. Len(s) \in Nat /\ end \notin DOMAIN next /\ \A i \in 1 .. Len(s) : s[i] \in DOMAIN next
  BY DEF IsList
<1>3. 0 \in S
  BY <1>0, <1>1 DEF Leads, IsList
<1>4. ASSUME NEW i \in Nat, i \in S PROVE i + 1 \in S
  <2>1. SUFFICES ASSUME i + 1 <= n PROVE at[i + 1] = Nth(s, i + 2, end)
    BY <1>4
  <2>2. at[i] = Nth(s, i + 1, end)
    BY <1>0, <1>4, <2>1
  <2>3. at[i + 1] = Following(at[i], next)
    BY <1>0, <1>1, <2>1 DEF Leads
  <2>4. CASE i + 1 <= Len(s)
    <3>1. at[i] = s[i + 1] /\ i + 1 \in 1 .. Len(s)
      BY <1>2, <2>2, <2>4 DEF Nth
    <3>2. next[s[i + 1]] = Nth(s, i + 2, end)
      BY <3>1 DEF IsList
    <3> QED
      BY <1>2, <2>3, <3>1, <3>2 DEF Following
  <2>5. CASE ~ (i + 1 <= Len(s))
    <3>1. Nth(s, i + 1, end) = end /\ Nth(s, i + 2, end) = end
      BY <1>2, <2>5 DEF Nth
    <3> QED
      BY <1>2, <2>2, <2>3, <3>1 DEF Following
  <2> QED
    BY <2>4, <2>5
<1> HIDE DEF S
<1>5. Nat \subseteq S
  BY <1>3, <1>4, Induction
<1> QED
  BY <1>0, <1>5 DEF S, n, at

(* So Walk is the list there is.                                           *)
LEMMA WalkIs ==
  ASSUME NEW next, IsFiniteSet(DOMAIN next), NEW s, NEW p, NEW end, IsList(s, p, next, end)
  PROVE  /\ Walk(p, next) = s
         /\ Chain(p, next)[Cardinality(DOMAIN next)] = end
<1> DEFINE n == Cardinality(DOMAIN next)
           at == Chain(p, next)
<1>0. n \in Nat
  BY FS_CardinalityType
<1>1. DOMAIN at = 0 .. n
  BY ChainIs DEF Leads
<1>2. \A i \in 0 .. n : at[i] = Nth(s, i + 1, end)
  BY ChainMeets
<1>3. Len(s) \in Nat /\ Len(s) <= n
  BY ListLength
<1> HIDE DEF n, at
<1>4. {i \in DOMAIN at : at[i] \in DOMAIN next} = 0 .. Len(s) - 1
  <2>1. ASSUME NEW i \in 0 .. n PROVE at[i] \in DOMAIN next <=> i < Len(s)
    BY <1>0, <1>2, <1>3 DEF Nth, IsList
  <2> QED
    BY <1>0, <1>1, <1>3, <2>1
<1>5. Cardinality(0 .. Len(s) - 1) = Len(s)
  <2>1. Len(s) - 1 \in Int /\ 0 \in Int
    BY <1>3
  <2>2. Cardinality(0 .. Len(s) - 1) = IF 0 > Len(s) - 1 THEN 0 ELSE Len(s) - 1 - 0 + 1
    BY <2>1, FS_Interval
  <2> QED
    BY <1>3, <2>2
<1>6. Walk(p, next) = [i \in 1 .. Len(s) |-> at[i - 1]]
  BY <1>4, <1>5 DEF Walk, at
<1>7. \A i \in 1 .. Len(s) : at[i - 1] = s[i]
  BY <1>0, <1>2, <1>3 DEF Nth
<1>8. s = [i \in 1 .. Len(s) |-> s[i]]
  BY DEF IsList
<1>9. Walk(p, next) = s
  BY <1>6, <1>7, <1>8
<1>10. at[n] = end
  BY <1>0, <1>2, <1>3 DEF Nth
<1> QED
  BY <1>9, <1>10 DEF at, n

---------------------------------------------------------------------------
(* What a list becomes.  Writing the next of an item that is not on it leaves *)
(* it as it is.                                                            *)
LEMMA ListKept ==
  ASSUME NEW next, NEW s, NEW p, NEW end, IsList(s, p, next, end),
         NEW succ, DOMAIN succ = DOMAIN next, \A x \in Elems(s) : succ[x] = next[x]
  PROVE  IsList(s, p, succ, end)
BY DEF IsList, Elems

(* An item is linked behind the last one, or alone.                         *)
LEMMA ListAppended ==
  ASSUME NEW next, NEW s, NEW p, NEW end, IsList(s, p, next, end),
         NEW x \in DOMAIN next, x \notin Elems(s), next[x] = end,
         NEW front, front = IF s = <<>> THEN x ELSE p,
         NEW succ, succ = IF s = <<>> THEN next ELSE [next EXCEPT ![s[Len(s)]] = x]
  PROVE  /\ IsList(Append(s, x), front, succ, end)
         /\ Elems(Append(s, x)) = Elems(s) \cup {x}
<1> DEFINE more == Append(s, x)
<1>1. /\ s \in Seq(DOMAIN next) /\ Len(s) \in Nat /\ end \notin DOMAIN next
      /\ DOMAIN s = 1 .. Len(s) /\ \A i \in 1 .. Len(s) : s[i] \in DOMAIN next /\ s[i] # x
  BY DEF IsList, Elems
<1>2. /\ more \in Seq(DOMAIN next) /\ Len(more) = Len(s) + 1
      /\ \A i \in 1 .. Len(s) : more[i] = s[i]
      /\ more[Len(s) + 1] = x
  BY <1>1, AppendProperties
<1>3. s = <<>> <=> Len(s) = 0
  BY <1>1
<1>4. DOMAIN succ = DOMAIN next
  OBVIOUS
<1>5. Distinct(more)
  BY <1>1, <1>2 DEF Distinct, IsList
<1>6. front = Nth(more, 1, end)
  BY <1>1, <1>2, <1>3 DEF IsList, Nth
<1>7. ASSUME NEW i \in 1 .. Len(more) PROVE succ[more[i]] = Nth(more, i + 1, end)
  <2>1. CASE i = Len(s) + 1
    <3>1. more[i] = x /\ Nth(more, i + 1, end) = end
      BY <1>1, <1>2, <2>1 DEF Nth
    <3>2. succ[x] = end
      BY <1>1, <1>3
    <3> QED
      BY <3>1, <3>2
  <2>2. CASE i = Len(s)
    <3>1. more[i] = s[Len(s)] /\ Nth(more, i + 1, end) = x /\ s # <<>>
      BY <1>1, <1>2, <1>3, <2>2 DEF Nth
    <3> QED
      BY <1>1, <1>2, <2>2, <3>1
  <2>3. CASE i < Len(s)
    <3>1. more[i] = s[i] /\ Nth(more, i + 1, end) = s[i + 1] /\ s # <<>>
      BY <1>1, <1>2, <1>3, <2>3 DEF Nth
    <3>2. s[i] # s[Len(s)]
      BY <1>1, <2>3 DEF IsList, Distinct
    <3>3. next[s[i]] = s[i + 1]
      BY <1>1, <2>3 DEF IsList, Nth
    <3> QED
      BY <1>1, <3>1, <3>2, <3>3
  <2> QED
    BY <1>1, <1>2, <2>1, <2>2, <2>3
<1>8. Elems(more) = Elems(s) \cup {x}
  BY <1>1, <1>2 DEF Elems
<1>9. IsList(more, front, succ, end)
  BY <1>1, <1>2, <1>4, <1>5, <1>6, <1>7 DEF IsList
<1> QED
  BY <1>8, <1>9

(* The first item is taken off.                                            *)
LEMMA ListRest ==
  ASSUME NEW next, NEW s, NEW p, NEW end, IsList(s, p, next, end), p # end
  PROVE  /\ IsList(Tail(s), next[p], next, end)
         /\ s # <<>> /\ p = Head(s) /\ p \in Elems(s)
         /\ Len(Tail(s)) = Len(s) - 1
         /\ Tail(s) = <<>> <=> Len(s) = 1
         /\ Elems(Tail(s)) = Elems(s) \ {p}
         /\ Tail(s) # <<>> => Tail(s)[Len(Tail(s))] = s[Len(s)]
<1> DEFINE rest == Tail(s)
<1>1. /\ s \in Seq(DOMAIN next) /\ Len(s) \in Nat /\ end \notin DOMAIN next
      /\ DOMAIN s = 1 .. Len(s) /\ \A i \in 1 .. Len(s) : s[i] \in DOMAIN next
  BY DEF IsList
<1>2. Len(s) # 0 /\ s # <<>> /\ p = s[1] /\ p = Head(s)
  BY <1>1 DEF IsList, Nth
<1>3. /\ rest \in Seq(DOMAIN next) /\ Len(rest) = Len(s) - 1 /\ DOMAIN rest = 1 .. Len(s) - 1
      /\ \A i \in 1 .. Len(s) - 1 : rest[i] = s[i + 1]
  BY <1>1, <1>2, HeadTailProperties
<1>4. Distinct(rest)
  BY <1>1, <1>3 DEF Distinct, IsList
<1>5. \A i \in 0 .. Len(s) - 1 : Nth(rest, i + 1, end) = Nth(s, i + 2, end)
  BY <1>1, <1>2, <1>3 DEF Nth
<1>6. next[p] = Nth(s, 2, end)
  BY <1>1, <1>2 DEF IsList
<1>7. \A i \in 1 .. Len(rest) : next[rest[i]] = Nth(rest, i + 1, end)
  BY <1>1, <1>3, <1>5 DEF IsList
<1>8. IsList(rest, next[p], next, end)
  BY <1>1, <1>2, <1>3, <1>4, <1>5, <1>6, <1>7 DEF IsList
<1>9. Elems(rest) = Elems(s) \ {p}
  <2>1. \A i \in 2 .. Len(s) : s[i] # p
    BY <1>1, <1>2 DEF IsList, Distinct
  <2>2. ASSUME NEW x \in Elems(s), x # p PROVE x \in Elems(rest)
    <3>1. PICK i \in 1 .. Len(s) : x = s[i]
      BY <1>1, <2>2 DEF Elems
    <3>2. i - 1 \in 1 .. Len(s) - 1
      BY <1>1, <1>2, <2>2, <3>1
    <3>3. rest[i - 1] = x
      BY <1>3, <3>1, <3>2
    <3> QED
      BY <1>3, <3>2, <3>3 DEF Elems
  <2>3. \A x \in Elems(rest) : x \in Elems(s) /\ x # p
    BY <1>1, <1>3, <2>1 DEF Elems
  <2> QED
    BY <2>2, <2>3
<1>10. p \in Elems(s)
  BY <1>1, <1>2 DEF Elems
<1> HIDE DEF rest
<1>11. rest = <<>> <=> Len(s) = 1
  BY <1>1, <1>3, EmptySeq
<1>12. rest # <<>> => rest[Len(rest)] = s[Len(s)]
  BY <1>1, <1>3, <1>11
<1> QED
  BY <1>2, <1>3, <1>8, <1>9, <1>10, <1>11, <1>12 DEF rest

(* An item is linked in front of the first one.                            *)
LEMMA ListPrepended ==
  ASSUME NEW next, NEW s, NEW p, NEW end, IsList(s, p, next, end),
         NEW x \in DOMAIN next, x \notin Elems(s),
         NEW succ, DOMAIN succ = DOMAIN next, succ[x] = p, \A y \in Elems(s) : succ[y] = next[y]
  PROVE  \E more : IsList(more, x, succ, end) /\ Elems(more) = Elems(s) \cup {x}
<1> DEFINE more == [i \in 1 .. Len(s) + 1 |-> IF i = 1 THEN x ELSE s[i - 1]]
<1>1. /\ s \in Seq(DOMAIN next) /\ Len(s) \in Nat /\ end \notin DOMAIN next
      /\ DOMAIN s = 1 .. Len(s) /\ (\A i \in 1 .. Len(s) : s[i] \in DOMAIN next /\ s[i] # x)
      /\ \A i, j \in 1 .. Len(s) : s[i] = s[j] => i = j
  BY DEF IsList, Elems, Distinct
<1>2. /\ more \in Seq(DOMAIN next) /\ Len(more) = Len(s) + 1 /\ DOMAIN more = 1 .. Len(s) + 1
      /\ more[1] = x /\ \A i \in 1 .. Len(s) : more[i + 1] = s[i]
  BY <1>1
<1>3. \A i \in 2 .. Len(s) + 1 : i - 1 \in 1 .. Len(s) /\ more[i] = s[i - 1]
  BY <1>1
<1> HIDE DEF more
<1>4. Distinct(more)
  <2> SUFFICES ASSUME NEW i \in 1 .. Len(s) + 1, NEW j \in 1 .. Len(s) + 1, more[i] = more[j] PROVE i = j
    BY <1>2 DEF Distinct
  <2>1. CASE i = 1 \/ j = 1
    BY <1>1, <1>2, <1>3, <2>1
  <2>2. CASE i # 1 /\ j # 1
    <3>1. i - 1 \in 1 .. Len(s) /\ j - 1 \in 1 .. Len(s) /\ s[i - 1] = s[j - 1]
      BY <1>1, <1>3, <2>2
    <3>2. i - 1 = j - 1
      BY <1>1, <3>1
    <3> QED
      BY <1>1, <3>2
  <2> QED
    BY <2>1, <2>2
<1>5. \A i \in 1 .. Len(s) + 1 : Nth(more, i + 1, end) = Nth(s, i, end)
  BY <1>1, <1>2 DEF Nth
<1>6. \A i \in 1 .. Len(more) : succ[more[i]] = Nth(more, i + 1, end)
  <2>1. succ[x] = p /\ p = Nth(s, 1, end)
    BY DEF IsList
  <2>2. ASSUME NEW i \in 2 .. Len(s) + 1 PROVE succ[more[i]] = Nth(more, i + 1, end)
    <3>1. succ[more[i]] = next[s[i - 1]]
      BY <1>1, <1>3 DEF Elems
    <3>2. next[s[i - 1]] = Nth(s, (i - 1) + 1, end)
      BY <1>3 DEF IsList
    <3> QED
      BY <1>1, <1>5, <3>1, <3>2
  <2> QED
    BY <1>1, <1>2, <1>5, <2>1, <2>2
<1>7. IsList(more, x, succ, end)
  BY <1>1, <1>2, <1>4, <1>6 DEF IsList, Nth
<1>8. Elems(more) = Elems(s) \cup {x}
  <2>1. \A i \in 1 .. Len(s) : s[i] = more[i + 1] /\ i + 1 \in DOMAIN more
    BY <1>1, <1>2
  <2>2. \A i \in DOMAIN more : more[i] = x \/ \E j \in DOMAIN s : more[i] = s[j]
    BY <1>1, <1>2, <1>3
  <2>3. 1 \in DOMAIN more /\ more[1] = x
    BY <1>1, <1>2
  <2>4. Elems(more) \subseteq Elems(s) \cup {x}
    BY <2>2 DEF Elems
  <2>5. ASSUME NEW y \in Elems(s) PROVE y \in Elems(more)
    <3>1. PICK i \in 1 .. Len(s) : y = s[i]
      BY <1>1 DEF Elems
    <3> QED
      BY <2>1, <3>1 DEF Elems
  <2>6. x \in Elems(more)
    BY <2>3 DEF Elems
  <2> QED
    BY <2>4, <2>5, <2>6
<1> QED
  BY <1>7, <1>8

(* The item at a place in the list is unlinked.                             *)
LEMMA ListUnlinked ==
  ASSUME NEW next, NEW s, NEW p, NEW end, IsList(s, p, next, end), NEW k \in 1 .. Len(s),
         NEW front, front = IF k = 1 THEN next[s[k]] ELSE p,
         NEW succ, succ = IF k = 1 THEN next ELSE [next EXCEPT ![s[k - 1]] = next[s[k]]],
         NEW rest, rest = [i \in 1 .. Len(s) - 1 |-> IF i < k THEN s[i] ELSE s[i + 1]]
  PROVE  IsList(rest, front, succ, end) /\ Elems(rest) = Elems(s) \ {s[k]}
<1>1. /\ s \in Seq(DOMAIN next) /\ Len(s) \in Nat /\ end \notin DOMAIN next
      /\ DOMAIN s = 1 .. Len(s) /\ (\A i \in 1 .. Len(s) : s[i] \in DOMAIN next)
      /\ \A i, j \in 1 .. Len(s) : s[i] = s[j] => i = j
  BY DEF IsList, Distinct
<1>2. /\ rest \in Seq(DOMAIN next) /\ Len(rest) = Len(s) - 1 /\ DOMAIN rest = 1 .. Len(s) - 1
      /\ \A i \in 1 .. Len(s) - 1 : rest[i] = IF i < k THEN s[i] ELSE s[i + 1]
  BY <1>1
<1>3. Distinct(rest)
  BY <1>1, <1>2 DEF Distinct
<1>4. \A i \in 1 .. Len(s) : Nth(rest, i, end) = IF i < k THEN s[i] ELSE Nth(s, i + 1, end)
  BY <1>1, <1>2 DEF Nth
<1>5. \A i \in 1 .. Len(s) : next[s[i]] = Nth(s, i + 1, end)
  BY DEF IsList
<1>6. front = Nth(rest, 1, end)
  <2>1. CASE k = 1
    BY <1>1, <1>4, <1>5, <2>1
  <2>2. CASE k # 1
    BY <1>1, <1>4, <2>2 DEF IsList, Nth
  <2> QED
    BY <2>1, <2>2
<1>7. ASSUME NEW i \in 1 .. Len(s) - 1 PROVE succ[rest[i]] = Nth(rest, i + 1, end)
  <2>1. CASE i < k - 1
    <3>1. rest[i] = s[i] /\ succ[s[i]] = next[s[i]]
      BY <1>1, <1>2, <2>1
    <3>2. next[s[i]] = s[i + 1] /\ Nth(rest, i + 1, end) = s[i + 1]
      BY <1>1, <1>4, <1>5, <2>1 DEF Nth
    <3> QED
      BY <3>1, <3>2
  <2>2. CASE i = k - 1
    <3>1. rest[i] = s[k - 1] /\ succ[s[k - 1]] = next[s[k]]
      BY <1>1, <1>2, <2>2
    <3>2. next[s[k]] = Nth(s, k + 1, end) /\ Nth(rest, i + 1, end) = Nth(s, k + 1, end)
      BY <1>1, <1>4, <1>5, <2>2
    <3> QED
      BY <3>1, <3>2
  <2>3. CASE i >= k
    <3>1. rest[i] = s[i + 1] /\ succ[s[i + 1]] = next[s[i + 1]]
      BY <1>1, <1>2, <2>3
    <3>2. next[s[i + 1]] = Nth(s, i + 2, end) /\ Nth(rest, i + 1, end) = Nth(s, i + 2, end)
      BY <1>1, <1>4, <1>5, <2>3
    <3> QED
      BY <3>1, <3>2
  <2> QED
    BY <2>1, <2>2, <2>3
<1>8. IsList(rest, front, succ, end)
  <2>1. DOMAIN succ = DOMAIN next
    OBVIOUS
  <2> QED
    BY <1>1, <1>2, <1>3, <1>6, <1>7, <2>1 DEF IsList
<1>9. Elems(rest) = Elems(s) \ {s[k]}
  <2>1. ASSUME NEW i \in 1 .. Len(s), i # k PROVE s[i] \in Elems(rest)
    <3>1. CASE i < k
      BY <1>2, <3>1 DEF Elems
    <3>2. CASE i > k
      <4>1. i - 1 \in 1 .. Len(s) - 1 /\ rest[i - 1] = s[i]
        BY <1>1, <1>2, <3>2
      <4> QED
        BY <1>2, <4>1 DEF Elems
    <3> QED
      BY <2>1, <3>1, <3>2
  <2>2. ASSUME NEW i \in 1 .. Len(s) - 1 PROVE rest[i] \in Elems(s) /\ rest[i] # s[k]
    BY <1>1, <1>2 DEF Elems
  <2> QED
    BY <1>1, <1>2, <2>1, <2>2 DEF Elems
<1> QED
  BY <1>8, <1>9

(* Two lists are joined by letting the end of one lead to the other.         *)
LEMMA ListJoined ==
  ASSUME NEW next, NEW s, NEW p, NEW end, IsList(s, p, next, end),
         NEW succ, DOMAIN succ = DOMAIN next, NEW r, NEW q, IsList(r, q, succ, end),
         Elems(s) \cap Elems(r) = {},
         \A x \in Elems(s) : succ[x] = IF next[x] = end THEN q ELSE next[x],
         NEW front, front = IF p = end THEN q ELSE p
  PROVE  IsList(s \o r, front, succ, end) /\ Elems(s \o r) = Elems(s) \cup Elems(r)
<1> DEFINE both == s \o r  m == Len(s)  n == Len(r)
<1>1. /\ s \in Seq(DOMAIN next) /\ m \in Nat /\ end \notin DOMAIN next
      /\ DOMAIN s = 1 .. m /\ (\A i \in 1 .. m : s[i] \in DOMAIN next)
      /\ r \in Seq(DOMAIN next) /\ n \in Nat
      /\ DOMAIN r = 1 .. n /\ (\A i \in 1 .. n : r[i] \in DOMAIN next)
  BY DEF IsList
<1>2. /\ both \in Seq(DOMAIN next) /\ Len(both) = m + n /\ DOMAIN both = 1 .. m + n
      /\ (\A i \in 1 .. m : both[i] = s[i]) /\ \A i \in m + 1 .. m + n : both[i] = r[i - m]
  BY <1>1
<1>3. (\A i \in 1 .. m : s[i] \in Elems(s)) /\ \A i \in 1 .. n : r[i] \in Elems(r)
  BY <1>1 DEF Elems
<1>4. /\ \A i, j \in 1 .. m : s[i] = s[j] => i = j
      /\ \A i, j \in 1 .. n : r[i] = r[j] => i = j
      /\ \A i \in 1 .. m : next[s[i]] = Nth(s, i + 1, end)
      /\ \A i \in 1 .. n : succ[r[i]] = Nth(r, i + 1, end)
      /\ p = Nth(s, 1, end) /\ q = Nth(r, 1, end)
  BY DEF IsList, Distinct
<1> HIDE DEF both, m, n
<1>5. Distinct(both)
  <2> SUFFICES ASSUME NEW i \in 1 .. m + n, NEW j \in 1 .. m + n, both[i] = both[j] PROVE i = j
    BY <1>2 DEF Distinct
  <2>1. CASE i <= m /\ j <= m
    BY <1>1, <1>2, <1>4, <2>1
  <2>2. CASE i > m /\ j > m
    <3>1. i - m \in 1 .. n /\ j - m \in 1 .. n /\ r[i - m] = r[j - m]
      BY <1>1, <1>2, <2>2
    <3>2. i - m = j - m
      BY <1>4, <3>1
    <3> QED
      BY <1>1, <3>2
  <2>3. CASE ~(i <= m <=> j <= m)
    <3>1. ASSUME NEW k \in 1 .. m + n, NEW l \in 1 .. m + n, k <= m, l > m
          PROVE  both[k] \in Elems(s) /\ both[l] \in Elems(r)
      <4>1. k \in 1 .. m /\ l \in m + 1 .. m + n /\ l - m \in 1 .. n
        BY <1>1, <3>1
      <4> QED
        BY <1>2, <1>3, <4>1
    <3> QED
      BY <1>1, <2>3, <3>1
  <2> QED
    BY <1>1, <2>1, <2>2, <2>3
<1>6. Nth(both, m + 1, end) = q
  <2>1. n = 0 => Nth(both, m + 1, end) = end /\ q = end
    BY <1>1, <1>2, <1>4 DEF Nth, m, n
  <2>2. ASSUME n # 0 PROVE Nth(both, m + 1, end) = r[1] /\ q = r[1]
    <3>1. m + 1 \in m + 1 .. m + n /\ (m + 1) - m = 1 /\ m + 1 <= Len(both) /\ 1 <= n
      BY <1>1, <1>2, <2>2
    <3>2. both[m + 1] = r[1]
      BY <1>2, <3>1
    <3> QED
      BY <1>4, <3>1, <3>2 DEF Nth, n
  <2> QED
    BY <2>1, <2>2
<1>7. front = Nth(both, 1, end)
  <2>1. CASE m = 0
    BY <1>1, <1>4, <1>6, <2>1 DEF Nth, m
  <2>2. CASE m # 0
    BY <1>1, <1>2, <1>4, <2>2 DEF Nth, m
  <2> QED
    BY <2>1, <2>2
<1>8. ASSUME NEW i \in 1 .. m + n PROVE succ[both[i]] = Nth(both, i + 1, end)
  <2>1. CASE i < m
    <3>1. next[s[i]] = s[i + 1] /\ s[i + 1] # end /\ Nth(both, i + 1, end) = s[i + 1]
      BY <1>1, <1>2, <1>4, <2>1 DEF Nth, m
    <3>2. both[i] = s[i] /\ s[i] \in Elems(s)
      BY <1>1, <1>2, <1>3, <2>1
    <3> QED
      BY <3>1, <3>2
  <2>2. CASE i = m
    <3>1. next[s[i]] = end
      BY <1>1, <1>4, <2>2 DEF Nth, m
    <3>2. both[i] = s[i] /\ s[i] \in Elems(s)
      BY <1>2, <1>3, <2>2
    <3> QED
      BY <1>6, <2>2, <3>1, <3>2
  <2>3. CASE i > m
    <3>1. /\ i - m \in 1 .. n /\ both[i] = r[i - m] /\ (i - m) + 1 = (i + 1) - m
      BY <1>1, <1>2, <2>3
    <3>2. succ[both[i]] = Nth(r, (i + 1) - m, end)
      BY <1>4, <3>1
    <3>3. Nth(both, i + 1, end) = Nth(r, (i + 1) - m, end)
      BY <1>1, <1>2, <2>3 DEF Nth, n
    <3> QED
      BY <3>2, <3>3
  <2> QED
    BY <1>1, <2>1, <2>2, <2>3
<1>9. IsList(both, front, succ, end)
  BY <1>1, <1>2, <1>5, <1>7, <1>8 DEF IsList
<1>10. Elems(both) = Elems(s) \cup Elems(r)
  <2>1. ASSUME NEW x \in Elems(r) PROVE x \in Elems(both)
    <3>1. PICK i \in 1 .. n : x = r[i]
      BY <1>1 DEF Elems
    <3>2. i + m \in m + 1 .. m + n /\ (i + m) - m = i
      BY <1>1
    <3>3. both[i + m] = r[i]
      BY <1>2, <3>2
    <3>4. i + m \in DOMAIN both
      BY <1>1, <1>2, <3>2
    <3> QED
      BY <3>1, <3>3, <3>4 DEF Elems
  <2>2. ASSUME NEW x \in Elems(s) PROVE x \in Elems(both)
    BY <1>1, <1>2, <2>2 DEF Elems
  <2>3. ASSUME NEW i \in 1 .. m + n PROVE both[i] \in Elems(s) \cup Elems(r)
    <3>1. i \in 1 .. m \/ (i \in m + 1 .. m + n /\ i - m \in 1 .. n)
      BY <1>1
    <3> QED
      BY <1>2, <1>3, <3>1
  <2> QED
    BY <1>2, <2>1, <2>2, <2>3 DEF Elems
<1> QED
  BY <1>9, <1>10 DEF both

---------------------------------------------------------------------------
(* Counting, when one element at most comes or goes.                        *)
LEMMA Recount ==
  ASSUME NEW S, IsFiniteSet(S), NEW A \in SUBSET S, NEW B \in SUBSET S, NEW t \in S,
         \A u \in S \ {t} : u \in B <=> u \in A
  PROVE  /\ Cardinality(A) \in Nat /\ Cardinality(B) \in Nat
         /\ Cardinality(B) = Cardinality(A) + (IF t \in B THEN 1 ELSE 0) - (IF t \in A THEN 1 ELSE 0)
<1>1. IsFiniteSet(A) /\ IsFiniteSet(B) /\ Cardinality(A) \in Nat /\ Cardinality(B) \in Nat
  BY FS_Subset, FS_CardinalityType
<1>2. CASE t \in A /\ t \notin B
  <2>1. B = A \ {t}
    BY <1>2
  <2> QED
    BY <1>1, <1>2, <2>1, FS_RemoveElement
<1>3. CASE t \notin A /\ t \in B
  <2>1. B = A \cup {t}
    BY <1>3
  <2> QED
    BY <1>1, <1>3, <2>1, FS_AddElement
<1>4. CASE t \in A <=> t \in B
  <2>1. A = B
    BY <1>4
  <2> QED
    BY <1>1, <1>4, <2>1
<1> QED
  BY <1>2, <1>3, <1>4, <1>1
=============================================================================
