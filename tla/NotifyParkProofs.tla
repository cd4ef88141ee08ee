-------------------------- MODULE NotifyParkProofs --------------------------
(***************************************************************************)
(* Proofs about NotifyPark, whatever the number of notices, of clients and *)
(* of items the park may hold.                                             *)
(*                                                                         *)
(* ParkIsExact is not inductive.  What is held is unheard because a notice *)
(* is held once and was not dispatched before (ItemInv); the work of the   *)
(* drain is bounded because a request stands behind every pass that is     *)
(* still to come (DrainInv); and no notice is stranded because a request   *)
(* that came during a pass is never forgotten (Served), and because a      *)
(* notice waits for a reason even while its client is blocked (Excused).   *)
(***************************************************************************)
EXTENDS NotifyPark, SequenceTheorems, FiniteSetTheorems, WellFoundedInduction, TLAPS

-----------------------------------------------------------------------------
(* Sequences of items *)

\* No notice is there twice.
Distinct(s) == \A i, j \in 1..Len(s) : s[i].notice = s[j].notice => i = j

\* None of them is about this notice.
Without(s, n) == \A i \in 1..Len(s) : s[i].notice # n

\* A set of indices has a least one.
LEMMA LeastIndex ==
    ASSUME NEW T \in SUBSET Nat, T # {}
    PROVE  \E i \in T : \A j \in T : i <= j
<1>1. PICK i \in T : \A j \in T : <<j, i>> \notin OpToRel(<, Nat)
  BY NatLessThanWellFounded, WFMin
<1>2. \A j \in T : ~ (j < i)
  BY <1>1 DEF OpToRel
<1> QED BY <1>2

\* The elements of a sequence are those its indices lead to.
LEMMA Elements ==
    ASSUME NEW s \in Seq(Item)
    PROVE  /\ ToSet(s) \subseteq Item
           /\ \A x : x \in ToSet(s) <=> \E i \in 1..Len(s) : x = s[i]
BY DEF ToSet

\* What is left without the item at an index.
LEMMA Removal ==
    ASSUME NEW s \in Seq(Item), NEW i \in 1..Len(s), Distinct(s)
    PROVE  /\ RemoveAt(s, i) \in Seq(Item) /\ Len(RemoveAt(s, i)) = Len(s) - 1
           /\ Distinct(RemoveAt(s, i)) /\ Without(RemoveAt(s, i), s[i].notice)
           /\ ToSet(s) = ToSet(RemoveAt(s, i)) \cup {s[i]}
<1> DEFINE a == SubSeq(s, 1, i - 1)
           b == SubSeq(s, i + 1, Len(s))
           r == RemoveAt(s, i)
<1>1. Len(s) \in Nat /\ \A j \in 1..Len(s) : s[j] \in Item
  OBVIOUS
<1>2. /\ a \in Seq(Item) /\ Len(a) = i - 1
      /\ \A j \in 1..(i - 1) : a[j] = s[j]
  <2>1. \A j \in 1..(i - 1) : s[j] \in Item
    BY <1>1
  <2>2. /\ a \in Seq(Item)
        /\ Len(a) = IF 1 <= i - 1 THEN (i - 1) - 1 + 1 ELSE 0
        /\ \A j \in 1..((i - 1) - 1 + 1) : a[j] = s[1 + j - 1]
    BY <2>1, <1>1, SubSeqProperties
  <2> QED BY <2>2, <1>1
<1>3. /\ b \in Seq(Item) /\ Len(b) = Len(s) - i
      /\ \A j \in 1..(Len(s) - i) : b[j] = s[i + j]
  <2>1. \A j \in (i + 1)..Len(s) : s[j] \in Item
    BY <1>1
  <2>2. /\ b \in Seq(Item)
        /\ Len(b) = IF i + 1 <= Len(s) THEN Len(s) - (i + 1) + 1 ELSE 0
        /\ \A j \in 1..(Len(s) - (i + 1) + 1) : b[j] = s[(i + 1) + j - 1]
    BY <2>1, <1>1, SubSeqProperties
  <2> QED BY <2>2, <1>1
<1>4. /\ r \in Seq(Item) /\ Len(r) = Len(s) - 1
      /\ \A j \in 1..(Len(s) - 1) : r[j] = IF j < i THEN s[j] ELSE s[j + 1]
  <2>1. r = a \o b
    BY DEF RemoveAt
  <2> HIDE DEF a, b, r
  <2>2. /\ r \in Seq(Item) /\ Len(r) = Len(a) + Len(b)
        /\ \A j \in 1..(Len(a) + Len(b)) : r[j] = IF j <= Len(a) THEN a[j] ELSE b[j - Len(a)]
    BY <2>1, <1>2, <1>3, ConcatProperties
  <2>3. Len(r) = Len(s) - 1
    BY <2>2, <1>1, <1>2, <1>3
  <2>4. ASSUME NEW j \in 1..(Len(s) - 1)
        PROVE  r[j] = IF j < i THEN s[j] ELSE s[j + 1]
    <3>1. CASE j < i
      <4>1. j <= Len(a) /\ j \in 1..(Len(a) + Len(b)) /\ j \in 1..(i - 1)
        <5>1. Len(a) = i - 1 /\ Len(b) = Len(s) - i
          BY <1>2, <1>3
        <5> QED BY <5>1, <3>1, <1>1
      <4>2. r[j] = a[j] /\ a[j] = s[j]
        BY <4>1, <2>2, <1>2
      <4> QED BY <3>1, <4>2
    <3>2. CASE ~ (j < i)
      <4>1. ~ (j <= Len(a)) /\ j \in 1..(Len(a) + Len(b)) /\ j - (i - 1) \in 1..(Len(s) - i)
        <5>1. Len(a) = i - 1 /\ Len(b) = Len(s) - i
          BY <1>2, <1>3
        <5> QED BY <5>1, <3>2, <1>1
      <4>2. r[j] = b[j - (i - 1)]
        BY <4>1, <2>2, <1>2
      <4>3. b[j - (i - 1)] = s[i + (j - (i - 1))]
        BY <4>1, <1>3
      <4>4. i + (j - (i - 1)) = j + 1
        BY <1>1
      <4> QED BY <3>2, <4>2, <4>3, <4>4
    <3> QED BY <3>1, <3>2
  <2> QED BY <2>2, <2>3, <2>4
<1> HIDE DEF a, b, r
<1>5. Distinct(r)
  BY <1>1, <1>4 DEF Distinct
<1>6. Without(r, s[i].notice)
  BY <1>1, <1>4 DEF Distinct, Without
<1>7. ToSet(s) = ToSet(r) \cup {s[i]}
  <2>1. ASSUME NEW j \in 1..Len(s), j # i PROVE s[j] \in ToSet(r)
    <3>1. CASE j < i
      <4>1. j \in 1..Len(r) /\ r[j] = s[j]
        BY <3>1, <1>1, <1>4
      <4> QED BY <4>1, <1>4, Elements
    <3>2. CASE ~ (j < i)
      <4>1. j - 1 \in 1..Len(r) /\ r[j - 1] = s[j]
        BY <2>1, <3>2, <1>1, <1>4
      <4> QED BY <4>1, <1>4, Elements
    <3> QED BY <3>1, <3>2
  <2>2. ASSUME NEW j \in 1..Len(r) PROVE r[j] \in ToSet(s)
    <3>1. r[j] = s[j] \/ r[j] = s[j + 1]
      BY <1>4
    <3>2. j \in 1..Len(s) /\ j + 1 \in 1..Len(s)
      BY <1>1, <1>4
    <3> QED BY <3>1, <3>2, Elements
  <2>3. ToSet(s) \subseteq ToSet(r) \cup {s[i]}
    BY <2>1, Elements
  <2>4. ToSet(r) \cup {s[i]} \subseteq ToSet(s)
    BY <2>2, <1>4, Elements
  <2> QED BY <2>3, <2>4
<1> QED BY <1>4, <1>5, <1>6, <1>7 DEF r

\* An item that is put back at the head.
LEMMA PutBack ==
    ASSUME NEW s \in Seq(Item), NEW x \in Item, Distinct(s), Without(s, x.notice)
    PROVE  /\ <<x>> \o s \in Seq(Item) /\ Len(<<x>> \o s) = Len(s) + 1
           /\ Distinct(<<x>> \o s)
           /\ ToSet(<<x>> \o s) = ToSet(s) \cup {x}
<1> DEFINE r == <<x>> \o s
<1>1. Len(s) \in Nat /\ <<x>> \in Seq(Item) /\ Len(<<x>>) = 1 /\ <<x>>[1] = x
  OBVIOUS
<1>2. /\ r \in Seq(Item) /\ Len(r) = 1 + Len(s)
      /\ \A i \in 1..(1 + Len(s)) : r[i] = IF i <= 1 THEN <<x>>[i] ELSE s[i - 1]
  BY <1>1, ConcatProperties
<1> HIDE DEF r
<1>3. r[1] = x /\ \A i \in 1..Len(s) : r[i + 1] = s[i]
  BY <1>1, <1>2
<1>4. \A i \in 1..Len(r) : i = 1 \/ (i - 1 \in 1..Len(s) /\ r[i] = s[i - 1])
  BY <1>1, <1>2
<1>5. Distinct(r)
  <2> SUFFICES ASSUME NEW i \in 1..Len(r), NEW j \in 1..Len(r), r[i].notice = r[j].notice
               PROVE  i = j
    BY DEF Distinct
  <2>1. CASE i = 1 /\ j # 1
    BY <2>1, <1>3, <1>4 DEF Without
  <2>2. CASE i # 1 /\ j = 1
    BY <2>2, <1>3, <1>4 DEF Without
  <2>3. CASE i # 1 /\ j # 1
    <3>1. i - 1 = j - 1
      BY SMTT(30), <2>3, <1>4 DEF Distinct
    <3> QED BY <3>1
  <2> QED BY <2>1, <2>2, <2>3
<1>6. ToSet(r) = ToSet(s) \cup {x}
  <2>1. ToSet(r) \subseteq ToSet(s) \cup {x}
    BY <1>2, <1>3, <1>4, Elements
  <2>2. ASSUME NEW i \in 1..Len(s) PROVE s[i] \in ToSet(r)
    <3>1. i + 1 \in 1..Len(r) /\ r[i + 1] = s[i]
      BY <1>1, <1>2, <1>3
    <3> QED BY <3>1, <1>2, Elements
  <2>3. 1 \in 1..Len(r)
    BY <1>1, <1>2
  <2>4. x \in ToSet(r)
    BY <2>3, <1>2, <1>3, Elements
  <2> QED BY <2>1, <2>2, <2>4, Elements
<1> QED BY <1>1, <1>2, <1>5, <1>6 DEF r

\* parked.push() and shift().
LEMMA Parking ==
    ASSUME parked \in Seq(Item), NEW x \in Item, Distinct(parked), Without(parked, x.notice),
           Park(x)
    PROVE  /\ parked' \in Seq(Item) /\ Distinct(parked')
           /\ Len(parked') = IF Len(parked) < ParkMax THEN Len(parked) + 1 ELSE Len(parked)
           /\ ToSet(parked') \subseteq ToSet(parked) \cup {x}
           /\ \A y \in ToSet(parked) :
                 y \in ToSet(parked') \/ (Len(parked) >= ParkMax /\ y = Head(parked))
<1> DEFINE all == Append(parked, x)
<1>1. Len(parked) \in Nat /\ ParkMax \in Nat /\ ParkMax > 0
  BY ParkAssumption
<1>2. /\ all \in Seq(Item) /\ all # <<>> /\ Len(all) = Len(parked) + 1
      /\ \A i \in 1..Len(parked) : all[i] = parked[i]
      /\ all[Len(parked) + 1] = x
  BY AppendProperties
<1>3. parked' = IF Len(all) > ParkMax THEN Tail(all) ELSE all
  BY DEF Park
<1> HIDE DEF all
<1>4. \A i \in 1..Len(all) : i \in 1..Len(parked) \/ i = Len(parked) + 1
  BY <1>1, <1>2
<1>5. Distinct(all)
  BY <1>1, <1>2, <1>4 DEF Distinct, Without
<1>6. ToSet(all) = ToSet(parked) \cup {x}
  <2>1. ToSet(all) \subseteq ToSet(parked) \cup {x}
    BY <1>2, <1>4, Elements
  <2>2. \A i \in 1..Len(parked) : i \in 1..Len(all)
    BY <1>1, <1>2
  <2>3. Len(parked) + 1 \in 1..Len(all)
    BY <1>1, <1>2
  <2>4. ToSet(parked) \cup {x} \subseteq ToSet(all)
    BY <1>2, <2>2, <2>3, Elements
  <2> QED BY <2>1, <2>4
<1>7. CASE Len(parked) < ParkMax
  <2>1. parked' = all
    BY <1>1, <1>2, <1>3, <1>7
  <2> QED BY <1>2, <1>5, <1>6, <1>7, <2>1
<1>8. CASE ~ (Len(parked) < ParkMax)
  <2>1. parked' = Tail(all)
    BY <1>1, <1>2, <1>3, <1>8
  <2>2. /\ parked' \in Seq(Item) /\ Len(parked') = Len(parked)
        /\ \A i \in 1..Len(parked) : parked'[i] = all[i + 1]
    BY <1>1, <1>2, <2>1, HeadTailProperties
  <2>3. \A i \in 1..Len(parked) : i + 1 \in 1..Len(all)
    BY <1>1, <1>2
  <2>4. Distinct(parked')
    <3> SUFFICES ASSUME NEW i \in 1..Len(parked'), NEW j \in 1..Len(parked'),
                        parked'[i].notice = parked'[j].notice
                 PROVE  i = j
      BY DEF Distinct
    <3>1. i + 1 = j + 1
      BY <1>5, <2>2, <2>3 DEF Distinct
    <3> QED BY <3>1, <1>1, <2>2
  <2>5. ToSet(parked') \subseteq ToSet(parked) \cup {x}
    BY <1>2, <1>6, <2>2, <2>3, Elements
  <2>6. parked # <<>> /\ Head(parked) = parked[1]
    BY <1>1, <1>8
  <2>7. ASSUME NEW i \in 1..Len(parked), i # 1 PROVE parked[i] \in ToSet(parked')
    <3>1. i - 1 \in 1..Len(parked') /\ parked'[i - 1] = all[i]
      BY <1>1, <2>2, <2>7
    <3> QED BY <3>1, <1>2, <2>2, Elements
  <2>8. \A y \in ToSet(parked) : y \in ToSet(parked') \/ y = Head(parked)
    BY <2>6, <2>7, Elements
  <2> QED BY <1>1, <1>8, <2>2, <2>4, <2>5, <2>8
<1> QED BY <1>7, <1>8

-----------------------------------------------------------------------------
(* The inductive invariant *)

\* A notice is held once.
Apart == Distinct(parked) /\ (current # None => Without(parked, current.notice))

\* A notice that is still to be dispatched is neither held nor heard.
Fresh ==
    \A n \in Notice : stage[n] # "done" => n \notin Held /\ \A c \in Client : <<n, c>> \notin heard

\* A drain puts back at most one notice too many.
Room == Len(parked) + Cardinality(InDrain) <= ParkMax + 1

ItemInv == Apart /\ Fresh /\ HeldIsUnheard /\ Room

\* An item is being rendered in that step of a drain only, and is not too old.
DrainSteps == (drain = "rendering" <=> current # None) /\ (current # None => ~ current.old)

\* Behind every pass that is still to come stands a request.
Credited == credit >= queued + (IF drain # "off" /\ requested THEN 1 ELSE 0)

\* A request that came during a pass is not forgotten.
Served == drain # "off" /\ unserved => requested \/ queued > 0

DrainInv == DrainSteps /\ Credited /\ Served

\* A parked notice that a client may take waits for a reason, even while that
\* client is blocked.
Excused ==
    drain = "off" /\ queued = 0 /\ ~ stopped =>
        \A item \in ToSet(parked), c \in clients \ reading :
            Eligible(item, c) => item.notice \in excused

Inv == TypeOK /\ ItemInv /\ DrainInv /\ Excused

-----------------------------------------------------------------------------
(* What the steps of a drain do with the items *)

\* The same notice, kept for the same clients.
Like(x, y) == x.notice = y.notice /\ x.call = y.call

\* Nothing is held that was not, nothing is held twice, and what was held is
\* still held, was too old, or was heard by a client that may hear it.
Drained ==
    /\ parked' \in Seq(Item) /\ current' \in Item \cup {None}
    /\ Apart'
    /\ Len(parked') + Cardinality(InDrain') <= Len(parked) + Cardinality(InDrain)
    /\ \A x \in HeldItems' : \E y \in HeldItems : Like(x, y)
    /\ \/ heard' = heard /\ \A y \in HeldItems : y.notice \in Held' \/ y.old
       \/ \E y \in HeldItems, c \in Client :
             /\ Eligible(y, c) /\ heard' = heard \cup {<<y.notice, c>>}
             /\ y.notice \notin Held' /\ \A z \in HeldItems : z = y \/ z.notice \in Held'

\* The item that a drain holds in its hands and the others: together, all that
\* is held.
Splits(x, rest) ==
    /\ x \in Item /\ rest \in Seq(Item)
    /\ Distinct(rest) /\ Without(rest, x.notice)
    /\ Len(rest) + 1 = Len(parked) + Cardinality(InDrain)
    /\ \E y \in HeldItems : Like(x, y) /\ y.old = x.old /\ HeldItems = ToSet(rest) \cup {y}

LEMMA DrainSize ==
    ASSUME NEW x
    PROVE  Cardinality(IF x = None THEN {} ELSE {x}) = IF x = None THEN 0 ELSE 1
BY FS_EmptySet, FS_Singleton

\* The index of the next item.
LEMMA NextIsThere ==
    ASSUME parked \in Seq(Item), ~ NothingToDrain
    PROVE  NextIndex \in 1..Len(parked)
<1> DEFINE from == IF Urgent # {} THEN Urgent ELSE Ordinary
<1>1. DOMAIN parked = 1..Len(parked) /\ Len(parked) \in Nat
  OBVIOUS
<1>2. from # {} /\ from \subseteq 1..Len(parked)
  BY <1>1 DEF NothingToDrain, Urgent, Ordinary
<1>3. from \in SUBSET Nat
  BY <1>1, <1>2
<1>4. NextIndex = CHOOSE i \in from : \A j \in from : i <= j
  BY DEF NextIndex
<1> HIDE DEF from
<1>5. \E i \in from : \A j \in from : i <= j
  BY <1>2, <1>3, LeastIndex
<1>6. NextIndex \in from
  BY <1>4, <1>5
<1> QED BY <1>2, <1>6

\* With nothing to drain no client is there that may take a parked notice.
LEMMA NothingIsNothing ==
    ASSUME parked \in Seq(Item), NothingToDrain, ~ stopped,
           NEW item \in ToSet(parked), NEW c \in clients
    PROVE  ~ Eligible(item, c)
<1>1. PICK i \in DOMAIN parked : item = parked[i]
  BY Elements
<1>2. Urgent = {} /\ Ordinary = {}
  BY DEF NothingToDrain
<1> QED BY <1>1, <1>2 DEF Urgent, Ordinary, Eligible

\* The item taken out of the park.
LEMMA FromPark ==
    ASSUME parked \in Seq(Item), Apart, current = None, ~ NothingToDrain
    PROVE  Splits(parked[NextIndex], RemoveAt(parked, NextIndex))
<1> DEFINE x == parked[NextIndex]
           rest == RemoveAt(parked, NextIndex)
<1>1. NextIndex \in 1..Len(parked)
  BY NextIsThere
<1>2. /\ rest \in Seq(Item) /\ Len(rest) = Len(parked) - 1
      /\ Distinct(rest) /\ Without(rest, x.notice) /\ ToSet(parked) = ToSet(rest) \cup {x}
  BY <1>1, Removal DEF Apart
<1>3. x \in Item
  BY <1>1
<1>4. HeldItems = ToSet(parked) /\ Cardinality(InDrain) = 0
  BY FS_EmptySet DEF HeldItems, InDrain
<1>5. Len(rest) + 1 = Len(parked) + Cardinality(InDrain)
  BY <1>2, <1>4
<1> HIDE DEF x, rest
<1>6. Splits(x, rest)
  BY <1>2, <1>3, <1>4, <1>5 DEF Splits, Like
<1> QED BY <1>6 DEF x, rest

\* The item that was being rendered.
LEMMA FromRender ==
    ASSUME parked \in Seq(Item), Apart, current \in Item, NEW ok \in BOOLEAN
    PROVE  Splits([current EXCEPT !.clip = ok], parked)
<1> DEFINE x == [current EXCEPT !.clip = ok]
<1>1. x \in Item /\ Like(x, current) /\ current.old = x.old
  BY DEF Item, Like
<1>2. current # None
  BY NoneAssumption
<1>3. HeldItems = ToSet(parked) \cup {current} /\ Cardinality(InDrain) = 1
  BY <1>2, FS_Singleton DEF HeldItems, InDrain
<1>4. x.notice = current.notice
  BY <1>1 DEF Like
<1>5. Distinct(parked) /\ Without(parked, x.notice)
  BY <1>2, <1>4 DEF Apart
<1> HIDE DEF x
<1>6. Splits(x, parked)
  BY <1>1, <1>3, <1>5 DEF Splits
<1> QED BY <1>6 DEF x

\* Put back at the head.
LEMMA PutBackDrains ==
    ASSUME NEW x, NEW rest, Splits(x, rest), parked \in Seq(Item),
           parked' = <<x>> \o rest, current' = None, heard' = heard
    PROVE  Drained
<1>1. /\ parked' \in Seq(Item) /\ Len(parked') = Len(rest) + 1
      /\ Distinct(parked') /\ ToSet(parked') = ToSet(rest) \cup {x}
  BY PutBack DEF Splits
<1>2. HeldItems' = ToSet(rest) \cup {x} /\ Cardinality(InDrain') = 0
  BY <1>1, FS_EmptySet DEF HeldItems, InDrain
<1>3. PICK y \in HeldItems : Like(x, y) /\ HeldItems = ToSet(rest) \cup {y}
  BY DEF Splits
<1>4. \A z \in HeldItems' : \E w \in HeldItems : Like(z, w)
  BY <1>2, <1>3 DEF Like
<1>5. \A z \in HeldItems : z.notice \in Held'
  BY <1>2, <1>3 DEF Like, Held
<1>6. Len(parked') + Cardinality(InDrain') <= Len(parked) + Cardinality(InDrain)
  <2>1. Len(rest) \in Nat /\ Len(rest) + 1 = Len(parked) + Cardinality(InDrain)
    BY DEF Splits
  <2> QED BY <1>1, <1>2, <2>1
<1>7. Apart'
  BY <1>1 DEF Apart
<1> QED BY <1>1, <1>4, <1>5, <1>6, <1>7 DEF Drained

\* Given to a client.
LEMMA DeliveryDrains ==
    ASSUME NEW x, NEW rest, Splits(x, rest), parked \in Seq(Item),
           NEW c \in Client, Eligible(x, c), heard' = heard \cup {<<x.notice, c>>},
           parked' = rest, current' = None
    PROVE  Drained
<1>1. HeldItems' = ToSet(rest) /\ Cardinality(InDrain') = 0
  BY FS_EmptySet DEF HeldItems, InDrain
<1>2. PICK y \in HeldItems : Like(x, y) /\ HeldItems = ToSet(rest) \cup {y}
  BY DEF Splits
<1>3. \A z \in HeldItems' : \E w \in HeldItems : Like(z, w)
  BY <1>1, <1>2 DEF Like
<1>4. \A z \in ToSet(rest) : z.notice # x.notice
  BY Elements DEF Splits, Without
<1>5. y.notice \notin Held' /\ \A z \in HeldItems : z = y \/ z.notice \in Held'
  BY <1>1, <1>2, <1>4 DEF Like, Held
<1>6. Eligible(y, c) /\ heard' = heard \cup {<<y.notice, c>>}
  BY <1>2 DEF Like, Eligible
<1>7. Len(parked') + Cardinality(InDrain') <= Len(parked) + Cardinality(InDrain)
  <2>1. Len(rest) \in Nat /\ Len(rest) + 1 = Len(parked) + Cardinality(InDrain)
    BY DEF Splits
  <2> QED BY <1>1, <2>1
<1>8. parked' \in Seq(Item) /\ Apart'
  BY DEF Apart, Splits
<1> QED BY <1>3, <1>5, <1>6, <1>7, <1>8 DEF Drained

\* Taken to be rendered, or found too old.
LEMMA TakeDrains ==
    ASSUME NEW x, NEW rest, Splits(x, rest), parked \in Seq(Item), current = None, Take(x, rest)
    PROVE  Drained
<1>1. PICK y \in HeldItems : /\ Like(x, y) /\ y.old = x.old
                             /\ HeldItems = ToSet(rest) \cup {y}
  BY DEF Splits
<1>2. parked' = rest /\ heard' = heard /\ x # None
  BY NoneAssumption DEF Take, Splits
<1>3. /\ Len(rest) \in Nat /\ Len(rest) + 1 = Len(parked) + Cardinality(InDrain)
      /\ Len(parked') = Len(rest)
  BY <1>2 DEF Splits
<1>4. CASE x.old
  <2>1. current' = None
    BY <1>4 DEF Take
  <2>2. HeldItems' = ToSet(rest) /\ Cardinality(InDrain') = 0
    BY <1>2, <2>1, FS_EmptySet DEF HeldItems, InDrain
  <2>3. \A z \in HeldItems : z.notice \in Held' \/ z.old
    BY <1>1, <1>4, <2>2 DEF Held
  <2>4. \A z \in HeldItems' : \E w \in HeldItems : Like(z, w)
    BY <1>1, <2>2 DEF Like
  <2>5. Len(parked') + Cardinality(InDrain') <= Len(parked) + Cardinality(InDrain)
    BY <1>3, <2>2
  <2>6. parked' \in Seq(Item) /\ Apart'
    BY <1>2, <2>1 DEF Apart, Splits
  <2> QED BY <1>2, <2>1, <2>3, <2>4, <2>5, <2>6 DEF Drained
<1>5. CASE ~ x.old
  <2>1. current' = x /\ x \in Item
    BY <1>5 DEF Take, Splits
  <2>2. HeldItems' = ToSet(rest) \cup {x} /\ Cardinality(InDrain') = 1
    BY <1>2, <2>1, FS_Singleton DEF HeldItems, InDrain
  <2>3. \A z \in HeldItems : z.notice \in Held'
    BY <1>1, <2>2 DEF Held, Like
  <2>4. \A z \in HeldItems' : \E w \in HeldItems : Like(z, w)
    BY <1>1, <2>2 DEF Like
  <2>5. Len(parked') + Cardinality(InDrain') <= Len(parked) + Cardinality(InDrain)
    BY <1>3, <2>2
  <2>6. parked' \in Seq(Item) /\ Apart'
    BY <1>2, <2>1 DEF Apart, Splits
  <2> QED BY <1>2, <2>1, <2>3, <2>4, <2>5, <2>6 DEF Drained
<1> QED BY <1>4, <1>5

\* A pass that finds nothing to drain.
LEMMA EmptyPassDrains ==
    ASSUME parked \in Seq(Item), Apart, current = None,
           parked' = parked, current' = None, heard' = heard
    PROVE  Drained
<1>1. Len(parked) + Cardinality(InDrain) \in Int
  BY FS_EmptySet DEF InDrain
<1>2. HeldItems' = HeldItems /\ Held' = Held /\ InDrain' = InDrain
  BY DEF HeldItems, Held, InDrain
<1>3. \A x \in HeldItems : x.notice \in Held
  BY DEF Held
<1> QED BY <1>1, <1>2, <1>3 DEF Drained, Apart, Like

\* What the drain does keeps the items apart, unheard and few.
LEMMA DrainedItems ==
    ASSUME Inv, Drained, stage' = stage
    PROVE  ItemInv'
<1>1. ASSUME NEW x \in HeldItems' PROVE \E y \in HeldItems : Like(x, y)
  BY <1>1 DEF Drained
<1>2. Held' \subseteq Held
  BY <1>1 DEF Held, Like
<1>3. ASSUME NEW p \in heard', p \notin heard
      PROVE  \E y \in HeldItems, c \in Client : p = <<y.notice, c>> /\ y.notice \notin Held'
  BY <1>3 DEF Drained
<1>4. Fresh'
  <2> SUFFICES ASSUME NEW n \in Notice, stage[n] # "done"
               PROVE  n \notin Held' /\ \A c \in Client : <<n, c>> \notin heard'
    BY DEF Fresh
  <2>1. n \notin Held /\ \A c \in Client : <<n, c>> \notin heard
    BY DEF Inv, ItemInv, Fresh
  <2>2. \A y \in HeldItems : y.notice # n
    BY <2>1 DEF Held
  <2> QED BY <2>1, <2>2, <1>2, <1>3
<1>5. HeldIsUnheard'
  <2> SUFFICES ASSUME NEW x \in HeldItems', NEW c \in Client, <<x.notice, c>> \in heard'
               PROVE  x.call /\ c \notin CallClient
    BY DEF HeldIsUnheard
  <2>1. x.notice \in Held'
    BY DEF Held
  <2>2. <<x.notice, c>> \in heard
    BY <2>1, <1>3
  <2> QED BY <2>2, <1>1 DEF Inv, ItemInv, HeldIsUnheard, Like
<1>6. Room'
  <2>1. Len(parked') + Cardinality(InDrain') <= Len(parked) + Cardinality(InDrain)
    BY DEF Drained
  <2>2. Len(parked) + Cardinality(InDrain) <= ParkMax + 1
    BY DEF Inv, ItemInv, Room
  <2>3. Cardinality(InDrain) \in Int /\ Cardinality(InDrain') \in Int
    BY FS_EmptySet, FS_Singleton DEF InDrain
  <2>4. Len(parked) \in Int /\ Len(parked') \in Int /\ ParkMax \in Int
    BY ParkAssumption DEF Inv, TypeOK, Drained
  <2> QED BY <2>1, <2>2, <2>3, <2>4 DEF Room
<1> QED BY <1>4, <1>5, <1>6 DEF ItemInv, Drained

\* What every step owes to the items held.
Owed ==
    \A item \in HeldItems :
        \/ item.notice \in Held' \/ item.old \/ stopped'
        \/ Len(parked) >= ParkMax /\ item = Head(parked)
        \/ \E c \in Client : <<item.notice, c>> \in heard' \ heard

LEMMA DrainedOwes ==
    ASSUME Inv, Drained
    PROVE  Owed
<1> SUFFICES ASSUME NEW item \in HeldItems, item.notice \notin Held', ~ item.old
             PROVE  \E c \in Client : <<item.notice, c>> \in heard' \ heard
  BY DEF Owed
<1>1. PICK y \in HeldItems, c \in Client :
         /\ Eligible(y, c) /\ heard' = heard \cup {<<y.notice, c>>}
         /\ \A z \in HeldItems : z = y \/ z.notice \in Held'
  BY DEF Drained
<1>2. item = y
  BY <1>1
<1>3. <<item.notice, c>> \notin heard
  BY <1>1, <1>2 DEF Inv, ItemInv, HeldIsUnheard, Eligible
<1> QED BY <1>1, <1>2, <1>3

\* Nothing about the items changes.
LEMMA Still ==
    ASSUME Inv, UNCHANGED <<parked, current, heard>>,
           \A n \in Notice : stage'[n] # "done" => stage[n] # "done"
    PROVE  ItemInv' /\ Owed
<1>1. HeldItems' = HeldItems /\ Held' = Held /\ InDrain' = InDrain
  BY DEF HeldItems, Held, InDrain
<1>2. Owed
  BY <1>1 DEF Owed, Held
<1>3. Apart' /\ Room'
  BY <1>1 DEF Inv, ItemInv, Apart, Room
<1>4. HeldIsUnheard'
  BY <1>1 DEF Inv, ItemInv, HeldIsUnheard
<1>5. Fresh'
  BY <1>1 DEF Inv, ItemInv, Fresh
<1> QED BY <1>2, <1>3, <1>4, <1>5 DEF ItemInv

-----------------------------------------------------------------------------
(* What the steps do with the requests to drain *)

ControlOK ==
    /\ drain \in {"off", "pass", "rendering"} /\ requested \in BOOLEAN /\ queued \in Nat
    /\ credit \in Int /\ unserved \in BOOLEAN /\ excused \subseteq Notice

\* The notices of a sequence of items.
LEMMA NoticesOf ==
    ASSUME NEW s \in Seq(Item)
    PROVE  Notices(s) \subseteq Notice /\ \A item \in ToSet(s) : item.notice \in Notices(s)
BY Elements DEF Notices, Item

\* startParkedFlush() asks for a pass, or excuses what is parked.
LEMMA Flushing ==
    ASSUME TypeOK, DrainInv, StartFlush, UNCHANGED <<drain, current, parked, stopped>>
    PROVE  ControlOK' /\ DrainInv' /\ Excused'
<1>1. /\ drain \in {"off", "pass", "rendering"} /\ requested \in BOOLEAN /\ queued \in Nat
      /\ credit \in Int /\ unserved \in BOOLEAN /\ excused \subseteq Notice
      /\ parked \in Seq(Item)
      /\ credit >= queued + (IF drain # "off" /\ requested THEN 1 ELSE 0)
  BY DEF TypeOK, DrainInv, Credited
<1>2. DrainSteps'
  BY DEF DrainInv, DrainSteps
<1>3. CASE drain # "off"
  <2>1. requested' = TRUE /\ queued' = queued /\ Asked
    BY <1>3 DEF StartFlush
  <2>2. credit' \in Int /\ credit' >= queued + 1
    BY <1>1, <2>1 DEF Asked
  <2>3. unserved' = TRUE /\ excused' = {}
    BY <2>1 DEF Asked
  <2> QED BY <1>1, <1>2, <1>3, <2>1, <2>2, <2>3
          DEF ControlOK, DrainInv, Credited, Served, Excused
<1>4. CASE drain = "off" /\ (stopped \/ full)
  <2>1. UNCHANGED <<queued, requested, credit, unserved>> /\ excused' = Notices(parked)
    BY <1>4 DEF StartFlush, requestVars
  <2>2. Excused'
    BY <1>1, <2>1, NoticesOf DEF Excused
  <2>3. ControlOK'
    BY <1>1, <2>1, NoticesOf DEF ControlOK
  <2> QED BY <1>1, <1>2, <1>4, <2>1, <2>2, <2>3 DEF DrainInv, Credited, Served
<1>5. CASE drain = "off" /\ ~ (stopped \/ full)
  <2>1. queued' = queued + 1 /\ requested' = requested /\ Asked
    BY <1>5 DEF StartFlush
  <2>2. credit' \in Int /\ credit' >= queued + 1
    BY <1>1, <2>1, <1>5 DEF Asked
  <2>3. unserved' = TRUE /\ excused' = {}
    BY <2>1 DEF Asked
  <2> QED BY <1>1, <1>2, <1>5, <2>1, <2>2, <2>3
          DEF ControlOK, DrainInv, Credited, Served, Excused
<1> QED BY <1>3, <1>4, <1>5

\* The end of a pass that failed, or that left nothing to drain.
LEMMA PassEnding ==
    ASSUME TypeOK, DrainInv, NEW left \in Seq(Item), NEW failed \in BOOLEAN,
           PassEnds(left, failed), drain # "off",
           UNCHANGED <<clients, reading, queued, stopped>>,
           \/ failed \/ stopped
           \/ \A item \in ToSet(left), c \in clients : ~ Eligible(item, c)
    PROVE  ControlOK' /\ DrainInv' /\ Excused'
<1> DEFINE again == requested /\ left # <<>> /\ clients # {} /\ ~ stopped
<1>1. /\ requested \in BOOLEAN /\ queued \in Nat /\ credit \in Int /\ unserved \in BOOLEAN
      /\ excused \subseteq Notice
      /\ credit >= queued + (IF requested THEN 1 ELSE 0)
      /\ (unserved => requested \/ queued > 0)
  BY DEF TypeOK, DrainInv, Credited, Served
<1>2. /\ drain' = (IF again THEN "pass" ELSE "off") /\ requested' = (requested /\ ~ again)
      /\ credit' = (IF again THEN credit - 1 ELSE queued)
      /\ current' = None /\ parked' = left /\ unserved' = (unserved /\ ~ again)
      /\ excused' = IF failed /\ ~ unserved THEN excused \cup Notices(left) ELSE excused
  BY DEF PassEnds
<1>3. DrainSteps'
  BY <1>2 DEF DrainSteps
<1>4. ControlOK'
  BY <1>1, <1>2, NoticesOf DEF ControlOK
<1>5. CASE again
  <2>1. /\ drain' = "pass" /\ ~ requested' /\ ~ unserved'
        /\ requested /\ credit' = credit - 1
    BY <1>1, <1>2, <1>5
  <2>2. Credited'
    BY <1>1, <2>1 DEF Credited
  <2>3. Served' /\ Excused'
    BY <2>1 DEF Served, Excused
  <2> QED BY <1>3, <1>4, <2>2, <2>3 DEF DrainInv
<1>6. CASE ~ again
  <2>1. DrainInv'
    BY <1>1, <1>2, <1>3, <1>6 DEF DrainInv, Credited, Served
  <2>2. Excused'
    <3> SUFFICES ASSUME queued = 0, ~ stopped, NEW item \in ToSet(left),
                        NEW c \in clients \ reading, Eligible(item, c)
                 PROVE  item.notice \in excused'
      BY <1>2 DEF Excused
    <3>1. failed /\ left # <<>> /\ clients # {}
      BY DEF ToSet
    <3>2. ~ requested
      BY <1>6, <3>1
    <3>3. ~ unserved
      BY <1>1, <3>2
    <3> QED BY <1>2, <3>1, <3>3, NoticesOf
  <2> QED BY <1>4, <2>1, <2>2
<1> QED BY <1>5, <1>6

-----------------------------------------------------------------------------
(* Every step keeps the invariant and owes nothing *)

\* A delivery failed, or shutdown is in the way: the item is parked again.
LEMMA PutBackKeeps ==
    ASSUME Inv, NEW x, NEW rest, Splits(x, rest), NEW failed \in BOOLEAN, failed \/ stopped,
           drain # "off", PassEnds(<<x>> \o rest, failed), heard' = heard,
           UNCHANGED <<clientVars, asking, stage, queued, full, stopped>>
    PROVE  Inv' /\ Owed /\ (stopped => heard' = heard)
<1> USE DEF Inv, ItemInv
<1> DEFINE left == <<x>> \o rest
<1>1. left \in Seq(Item)
  BY PutBack DEF Splits
<1>2. parked' = left /\ current' = None /\ parked \in Seq(Item)
  BY DEF PassEnds, TypeOK
<1>3. Drained
  BY <1>2, PutBackDrains
<1>4. ItemInv' /\ Owed
  BY <1>3, DrainedItems, DrainedOwes
<1> HIDE DEF left
<1>5. PassEnds(left, failed)
  BY DEF left
<1>6. UNCHANGED <<clients, reading, queued, stopped>>
  BY DEF clientVars
<1>7. ControlOK' /\ DrainInv' /\ Excused'
  BY <1>1, <1>5, <1>6, PassEnding
<1>8. TypeOK'
  BY <1>1, <1>2, <1>7 DEF TypeOK, ControlOK, clientVars
<1> QED BY <1>4, <1>7, <1>8

\* A delivery: somebody takes the item, or the pass has failed.
LEMMA DeliverKeeps ==
    ASSUME Inv, NEW x, NEW rest, Splits(x, rest), drain # "off", ~ stopped, Deliver(x, rest),
           UNCHANGED <<clientVars, asking, stage, queued, full, stopped>>
    PROVE  Inv' /\ Owed /\ (stopped => heard' = heard)
<1> USE DEF Inv, ItemInv
<1> DEFINE takers == {c \in Taking : Eligible(x, c)}
<1>1. CASE takers = {}
  <2>1. PassEnds(<<x>> \o rest, TRUE) /\ heard' = heard
    BY <1>1 DEF Deliver
  <2> QED BY <2>1, PutBackKeeps
<1>2. CASE takers # {}
  <2>1. /\ \E c \in takers : heard' = heard \cup {<<x.notice, c>>}
        /\ drain' = "pass" /\ parked' = rest /\ current' = None
        /\ UNCHANGED <<requested, excused, requestVars>>
    BY <1>2 DEF Deliver
  <2>2. PICK c \in Client : Eligible(x, c) /\ heard' = heard \cup {<<x.notice, c>>}
    BY <2>1 DEF Taking, TypeOK
  <2>3. Drained
    BY <2>1, <2>2, DeliveryDrains DEF TypeOK
  <2>4. ItemInv' /\ Owed
    BY <2>3, DrainedItems, DrainedOwes
  <2>5. DrainInv' /\ Excused'
    BY <2>1 DEF DrainInv, DrainSteps, Credited, Served, Excused, requestVars
  <2>6. heard' \subseteq Notice \X Client
    BY <2>2 DEF TypeOK, Splits, Item
  <2>7. TypeOK'
    BY <2>1, <2>3, <2>6 DEF TypeOK, clientVars, requestVars, Drained
  <2> QED BY <2>4, <2>5, <2>7
<1> QED BY <1>1, <1>2

\* A round of the drain's loop.
LEMMA PassKeeps ==
    ASSUME Inv, Pass
    PROVE  Inv' /\ Owed /\ (stopped => heard' = heard)
<1> USE DEF Inv, ItemInv
<1>1. parked \in Seq(Item) /\ drain = "pass" /\ current = None /\ TypeOK /\ DrainInv /\ Apart
  BY DEF TypeOK, DrainInv, DrainSteps, Pass
<1>2. UNCHANGED <<clientVars, asking, stage, queued, full, stopped>>
  BY DEF Pass
<1>3. CASE NothingToDrain
  <2>1. PassEnds(parked, FALSE) /\ heard' = heard
    BY <1>3 DEF Pass
  <2>2. stopped \/ \A item \in ToSet(parked), c \in clients : ~ Eligible(item, c)
    BY <1>1, <1>3, NothingIsNothing
  <2>3. UNCHANGED <<clients, reading, queued, stopped>>
    BY <1>2 DEF clientVars
  <2>4. ControlOK' /\ DrainInv' /\ Excused'
    BY <1>1, <2>1, <2>2, <2>3, PassEnding
  <2>5. parked' = parked /\ current' = None
    BY <2>1 DEF PassEnds
  <2>6. Drained
    BY <1>1, <2>1, <2>5, EmptyPassDrains
  <2>7. ItemInv' /\ Owed
    BY <1>2, <2>6, DrainedItems, DrainedOwes
  <2>8. TypeOK'
    BY <1>1, <1>2, <2>1, <2>4, <2>5 DEF TypeOK, ControlOK, clientVars
  <2> QED BY <2>1, <2>4, <2>7, <2>8
<1>4. CASE ~ NothingToDrain
  <2> DEFINE x == parked[NextIndex]
             rest == RemoveAt(parked, NextIndex)
  <2>1. Splits(x, rest)
    BY <1>1, <1>4, FromPark
  <2>2. IF x.old \/ ~ x.clip THEN Take(x, rest) ELSE Deliver(x, rest)
    BY <1>4 DEF Pass
  <2>3. ~ stopped
    BY <1>4 DEF NothingToDrain
  <2> HIDE DEF x, rest
  <2>4. CASE x.old \/ ~ x.clip
    <3>1. Take(x, rest)
      BY <2>2, <2>4
    <3>2. Drained
      BY <1>1, <2>1, <3>1, TakeDrains
    <3>3. ItemInv' /\ Owed
      BY <1>2, <3>2, DrainedItems, DrainedOwes
    <3>4. UNCHANGED <<requested, heard, excused, credit, unserved, queued>> /\ x # None
      BY <1>2, <2>1, <3>1, NoneAssumption DEF Take, requestVars, Splits
    <3>5. DrainSteps' /\ drain' \in {"pass", "rendering"}
      BY <1>1, <2>1, <3>1, <3>4 DEF Take, DrainSteps
    <3>6. DrainInv' /\ Excused'
      BY <1>1, <3>4, <3>5 DEF DrainInv, Credited, Served, Excused
    <3>7. TypeOK'
      BY <1>1, <1>2, <3>2, <3>4, <3>5 DEF TypeOK, clientVars, Drained
    <3> QED BY <3>3, <3>4, <3>6, <3>7
  <2>5. CASE ~ (x.old \/ ~ x.clip)
    <3>1. Deliver(x, rest)
      BY <2>2, <2>5
    <3>2. drain # "off"
      BY <1>1
    <3> QED BY <1>2, <2>1, <2>3, <3>1, <3>2, DeliverKeeps
  <2> QED BY <2>4, <2>5
<1> QED BY <1>3, <1>4

\* A render that ended.
LEMMA RenderedKeeps ==
    ASSUME Inv, NEW ok \in BOOLEAN, Rendered(ok)
    PROVE  Inv' /\ Owed /\ (stopped => heard' = heard)
<1> USE DEF Inv, ItemInv
<1> DEFINE x == [current EXCEPT !.clip = ok]
<1>1. parked \in Seq(Item) /\ drain = "rendering" /\ TypeOK /\ DrainInv /\ Apart
  BY DEF TypeOK, Rendered
<1>2. current \in Item
  BY <1>1 DEF TypeOK, DrainInv, DrainSteps
<1>3. Splits(x, parked)
  BY <1>1, <1>2, FromRender
<1>4. UNCHANGED <<clientVars, asking, stage, queued, full, stopped>>
  BY DEF Rendered
<1>5. IF ok /\ ~ stopped THEN Deliver(x, parked)
      ELSE PassEnds(<<x>> \o parked, ~ ok) /\ heard' = heard
  BY DEF Rendered
<1> HIDE DEF x
<1>6. CASE ok /\ ~ stopped
  BY <1>1, <1>3, <1>4, <1>5, <1>6, DeliverKeeps
<1>7. CASE ~ (ok /\ ~ stopped)
  <2>1. PassEnds(<<x>> \o parked, ~ ok) /\ heard' = heard
    BY <1>5, <1>7
  <2> QED BY <1>1, <1>3, <1>4, <1>7, <2>1, PutBackKeeps
<1> QED BY <1>6, <1>7

\* A dispatch: whoever takes the notice has heard it, and it is parked only for
\* those who did not.
LEMMA PublishKeeps ==
    ASSUME Inv, NEW n \in Notice, NEW clip \in BOOLEAN, NEW call \in BOOLEAN, stage[n] # "done",
           Publish(n, clip, call), UNCHANGED <<clientVars, drainVars, full, stopped>>
    PROVE  Inv' /\ Owed
<1> USE DEF Inv, ItemInv
<1> DEFINE x == [notice |-> n, clip |-> clip, call |-> call, old |-> FALSE]
           parks == Taking = {} \/ (call /\ clients \cap CallClient = {})
<1>1. TypeOK /\ parked \in Seq(Item) /\ Len(parked) \in Nat /\ ParkMax \in Nat
  BY ParkAssumption DEF TypeOK
<1>2. x \in Item /\ x.notice = n /\ x.call = call
  BY DEF Item
<1>3. n \notin Held /\ \A c \in Client : <<n, c>> \notin heard
  BY DEF Fresh
<1>4. \A y \in HeldItems : y.notice # n
  BY <1>3 DEF Held
<1>5. Distinct(parked) /\ Without(parked, n) /\ (current # None => current.notice # n)
  BY <1>1, <1>4, Elements DEF Apart, HeldItems, InDrain, Without
<1>6. /\ heard' = heard \cup {<<n, c>> : c \in Taking}
      /\ stage' = [stage EXCEPT ![n] = "done"] /\ asking' = [asking EXCEPT ![n] = NotAsked]
      /\ IF parks
         THEN Park(x) /\ excused' = IF clients = {} THEN excused ELSE excused \cup {n}
         ELSE UNCHANGED <<parked, excused>>
  BY DEF Publish, Dispatched
<1>7. UNCHANGED <<clients, blocked, reading, drain, current, requested, queued, credit, unserved,
                  full, stopped>>
  BY DEF clientVars, drainVars, requestVars
<1> HIDE DEF x
\* What the park holds now.
<1>8. /\ parked' \in Seq(Item) /\ Distinct(parked')
      /\ ToSet(parked') \subseteq ToSet(parked) \cup (IF parks THEN {x} ELSE {})
      /\ \A y \in ToSet(parked) :
            y \in ToSet(parked') \/ (Len(parked) >= ParkMax /\ y = Head(parked))
      /\ Len(parked') = Len(parked) \/ (Len(parked') = Len(parked) + 1 /\ Len(parked) < ParkMax)
  <2>1. CASE parks
    <3>1. Park(x) /\ Without(parked, x.notice)
      BY <1>2, <1>5, <1>6, <2>1
    <3>2. /\ parked' \in Seq(Item) /\ Distinct(parked')
          /\ Len(parked') = IF Len(parked) < ParkMax THEN Len(parked) + 1 ELSE Len(parked)
          /\ ToSet(parked') \subseteq ToSet(parked) \cup {x}
          /\ \A y \in ToSet(parked) :
                y \in ToSet(parked') \/ (Len(parked) >= ParkMax /\ y = Head(parked))
      BY <1>1, <1>2, <1>5, <3>1, Parking
    <3> QED BY <2>1, <3>2
  <2>2. CASE ~ parks
    BY <1>1, <1>5, <1>6, <2>2
  <2> QED BY <2>1, <2>2
<1>9. \A y \in HeldItems' : y \in HeldItems \/ (y = x /\ parks)
  BY <1>7, <1>8 DEF HeldItems, InDrain
<1>10. Apart'
  <2>1. ASSUME current # None, NEW i \in 1..Len(parked')
        PROVE  parked'[i].notice # current.notice
    <3>1. parked'[i] \in ToSet(parked')
      BY <1>8, Elements
    <3>2. parked'[i] \in ToSet(parked) \/ parked'[i] = x
      BY <3>1, <1>8
    <3> QED BY <2>1, <3>2, <1>1, <1>2, <1>5, Elements DEF Apart, Without
  <2> QED BY <2>1, <1>7, <1>8 DEF Apart, Without
<1>11. Room'
  <2>1. Cardinality(InDrain) = IF current = None THEN 0 ELSE 1
    BY DrainSize DEF InDrain
  <2>2. InDrain' = InDrain
    BY <1>7 DEF InDrain
  <2>3. Len(parked) + Cardinality(InDrain) <= ParkMax + 1
    BY DEF Room
  <2> QED BY <2>1, <2>2, <2>3, <1>1, <1>8 DEF Room
<1>12. Fresh'
  <2> SUFFICES ASSUME NEW m \in Notice, stage'[m] # "done"
               PROVE  m \notin Held' /\ \A c \in Client : <<m, c>> \notin heard'
    BY DEF Fresh
  <2>1. m # n /\ stage[m] # "done"
    BY <1>1, <1>6 DEF TypeOK
  <2>2. m \notin Held /\ \A c \in Client : <<m, c>> \notin heard
    BY <2>1 DEF Fresh
  <2>3. m \notin Held'
    BY <1>2, <1>9, <2>1, <2>2 DEF Held
  <2> QED BY <1>6, <2>1, <2>2, <2>3
<1>13. HeldIsUnheard'
  <2> SUFFICES ASSUME NEW y \in HeldItems', NEW c \in Client, <<y.notice, c>> \in heard'
               PROVE  y.call /\ c \notin CallClient
    BY DEF HeldIsUnheard
  <2>1. CASE y \in HeldItems
    <3>1. <<y.notice, c>> \in heard
      BY <1>4, <1>6, <2>1
    <3> QED BY <2>1, <3>1 DEF HeldIsUnheard
  <2>2. CASE y = x /\ parks
    <3>1. c \in Taking
      BY <1>2, <1>3, <1>6, <2>2
    <3>2. call /\ clients \cap CallClient = {} /\ c \in clients
      BY <2>2, <3>1 DEF Taking
    <3> QED BY <1>2, <2>2, <3>2
  <2> QED BY <1>9, <2>1, <2>2
<1>14. Owed
  <2> SUFFICES ASSUME NEW y \in HeldItems
               PROVE  y.notice \in Held' \/ (Len(parked) >= ParkMax /\ y = Head(parked))
    BY DEF Owed
  <2>1. CASE y \in ToSet(parked)
    BY <2>1, <1>8 DEF Held, HeldItems
  <2>2. CASE y \in InDrain
    BY <2>2, <1>7 DEF Held, HeldItems, InDrain
  <2> QED BY <2>1, <2>2 DEF HeldItems
<1>15. DrainInv'
  BY <1>7 DEF DrainInv, DrainSteps, Credited, Served
<1>16. Excused'
  <2> SUFFICES ASSUME drain = "off", queued = 0, ~ stopped, NEW y \in ToSet(parked'),
                      NEW c \in clients \ reading, Eligible(y, c)
               PROVE  y.notice \in excused'
    BY <1>7 DEF Excused
  <2>1. CASE y \in ToSet(parked)
    <3>1. y.notice \in excused
      BY <2>1 DEF Excused
    <3> QED BY <3>1, <1>6
  <2>2. CASE y = x /\ parks
    BY <2>2, <1>2, <1>6
  <2> QED BY <1>8, <2>1, <2>2
<1>17. TypeOK'
  <2>1. heard' \subseteq Notice \X Client /\ excused' \subseteq Notice
    BY <1>1, <1>6 DEF TypeOK, Taking
  <2>2. /\ stage' \in [Notice -> {"new", "asking", "late", "done"}]
        /\ asking' \in [Notice -> [lazy : BOOLEAN, call : BOOLEAN]]
    BY <1>1, <1>6 DEF TypeOK, NotAsked
  <2> QED BY <1>1, <1>7, <1>8, <2>1, <2>2 DEF TypeOK
<1> QED BY <1>10, <1>11, <1>12, <1>13, <1>14, <1>15, <1>16, <1>17

\* Steps that leave the items, the drain and what waits for a reason alone.
LEMMA IdleKeeps ==
    ASSUME Inv, TypeOK', UNCHANGED <<parked, drainVars, stopped, heard, excused>>,
           \A n \in Notice : stage'[n] # "done" => stage[n] # "done",
           stopped \/ clients' \ reading' \subseteq clients \ reading
    PROVE  Inv' /\ Owed
<1>1. UNCHANGED <<drain, current, requested, queued, credit, unserved>>
  BY DEF drainVars, requestVars
<1>2. ItemInv' /\ Owed
  BY <1>1, Still
<1>3. DrainInv'
  BY <1>1 DEF Inv, DrainInv, DrainSteps, Credited, Served
<1>4. Excused'
  BY <1>1 DEF Inv, Excused
<1> QED BY <1>2, <1>3, <1>4 DEF Inv

\* A client connects, or its history is read.
LEMMA ConnectionKeeps ==
    ASSUME Inv, NEW c \in Client, (\E history \in BOOLEAN : Connect(c, history)) \/ HistoryRead(c)
    PROVE  Inv' /\ Owed /\ heard' = heard
<1>1. /\ UNCHANGED <<asking, stage, parked, drain, current, full, stopped, heard>>
      /\ \/ StartFlush
         \/ /\ UNCHANGED <<requested, queued, excused, requestVars>>
            /\ stopped \/ clients' \ reading' \subseteq clients \ reading
      /\ clients' \subseteq Client /\ blocked' \subseteq clients' /\ reading' \subseteq Client
  <2>1. clients \subseteq Client /\ blocked \subseteq clients /\ reading \subseteq Client
    BY DEF Inv, TypeOK
  <2>2. ASSUME NEW history \in BOOLEAN, Connect(c, history)
        PROVE  /\ UNCHANGED <<asking, stage, parked, drain, current, full, stopped, heard>>
               /\ clients' = clients \cup {c} /\ blocked' = blocked \ {c}
               /\ \/ StartFlush /\ reading' = reading
                  \/ /\ UNCHANGED <<requested, queued, excused, requestVars>>
                     /\ reading' = reading \cup {c}
    BY <2>2 DEF Connect
  <2>3. ASSUME HistoryRead(c)
        PROVE  /\ UNCHANGED <<asking, stage, parked, drain, current, full, stopped, heard>>
               /\ clients' = clients /\ blocked' = blocked /\ reading' = reading \ {c}
               /\ \/ StartFlush
                  \/ /\ UNCHANGED <<requested, queued, excused, requestVars>>
                     /\ stopped \/ c \notin clients
    BY <2>3 DEF HistoryRead
  <2> QED BY <2>1, <2>2, <2>3
<1>2. CASE StartFlush
  <2>1. ControlOK' /\ DrainInv' /\ Excused'
    BY <1>1, <1>2, Flushing DEF Inv
  <2>2. ItemInv' /\ Owed
    BY <1>1, Still
  <2>3. TypeOK'
    BY <1>1, <2>1 DEF Inv, TypeOK, ControlOK
  <2> QED BY <1>1, <2>1, <2>2, <2>3 DEF Inv
<1>3. CASE /\ UNCHANGED <<requested, queued, excused, requestVars>>
           /\ stopped \/ clients' \ reading' \subseteq clients \ reading
  <2>1. TypeOK'
    BY <1>1, <1>3 DEF Inv, TypeOK, requestVars
  <2> QED BY <1>1, <1>3, <2>1, IdleKeeps DEF drainVars, requestVars
<1> QED BY <1>1, <1>2, <1>3

\* A notice is neither sent nor parked.
LEMMA ForgoneKeeps ==
    ASSUME Inv, NEW n \in Notice, Forgone(n), UNCHANGED <<clientVars, drainVars, full, stopped>>
    PROVE  Inv' /\ Owed /\ heard' = heard
<1>1. /\ stage' = [stage EXCEPT ![n] = "done"] /\ asking' = [asking EXCEPT ![n] = NotAsked]
      /\ UNCHANGED <<heard, parked, excused>>
  BY DEF Forgone, Dispatched
<1>2. TypeOK'
  BY <1>1 DEF Inv, TypeOK, NotAsked, clientVars, drainVars, requestVars
<1>3. \A m \in Notice : stage'[m] # "done" => stage[m] # "done"
  BY <1>1 DEF Inv, TypeOK
<1> QED BY <1>1, <1>2, <1>3, IdleKeeps DEF clientVars

\* The notices on their way to the park.
LEMMA DispatchKeeps ==
    ASSUME Inv, NEW n \in Notice,
           \/ NotifyText(n) \/ NotAnswered(n)
           \/ \E b \in BOOLEAN : Notify(n, b) \/ Answered(n, b) \/ LateRendered(n, b)
    PROVE  Inv' /\ Owed /\ (stopped => heard' = heard)
<1>1. /\ stage \in [Notice -> {"new", "asking", "late", "done"}]
      /\ asking \in [Notice -> [lazy : BOOLEAN, call : BOOLEAN]]
  BY DEF Inv, TypeOK
<1>2. asking[n].call \in BOOLEAN
  BY <1>1
<1>3. CASE NotifyText(n)
  <2>1. ~ stopped /\ stage[n] # "done" /\ Publish(n, TRUE, FALSE)
        /\ UNCHANGED <<clientVars, drainVars, full, stopped>>
    BY <1>3 DEF NotifyText
  <2> QED BY <2>1, PublishKeeps
<1>4. CASE NotAnswered(n)
  BY <1>4, ForgoneKeeps DEF NotAnswered
<1>5. ASSUME NEW call \in BOOLEAN, Notify(n, call)
      PROVE  Inv' /\ Owed /\ heard' = heard
  <2>1. /\ stage' = [stage EXCEPT ![n] = "asking"] /\ stage[n] = "new"
        /\ asking' = [asking EXCEPT ![n] = [lazy |-> clients = {} /\ LazyRender, call |-> call]]
        /\ UNCHANGED <<clientVars, parked, drainVars, full, stopped, heard, excused>>
    BY <1>5 DEF Notify
  <2>2. (clients = {} /\ LazyRender) \in BOOLEAN
    BY ParkAssumption
  <2>3. TypeOK'
    BY <2>1, <2>2 DEF Inv, TypeOK, clientVars, drainVars, requestVars
  <2>4. \A m \in Notice : stage'[m] # "done" => stage[m] # "done"
    BY <1>1, <2>1
  <2> QED BY <2>1, <2>3, <2>4, IdleKeeps DEF clientVars
<1>6. ASSUME NEW rendered \in BOOLEAN, Answered(n, rendered)
      PROVE  Inv' /\ Owed /\ (stopped => heard' = heard)
  <2>1. stage[n] = "asking" /\ UNCHANGED <<clientVars, drainVars, full, stopped>>
    BY <1>6 DEF Answered
  <2>2. CASE stopped
    BY <1>6, <2>1, <2>2, ForgoneKeeps DEF Answered
  <2>3. CASE ~ stopped /\ (rendered \/ clients = {})
    BY <1>2, <1>6, <2>1, <2>3, PublishKeeps DEF Answered
  <2>4. CASE ~ stopped /\ ~ (rendered \/ clients = {})
    <3>1. stage' = [stage EXCEPT ![n] = "late"] /\ UNCHANGED <<asking, heard, parked, excused>>
      BY <1>6, <2>4 DEF Answered
    <3>2. TypeOK'
      BY <2>1, <3>1 DEF Inv, TypeOK, clientVars, drainVars, requestVars
    <3>3. \A m \in Notice : stage'[m] # "done" => stage[m] # "done"
      BY <1>1, <2>1, <3>1
    <3> QED BY <2>1, <3>1, <3>2, <3>3, IdleKeeps DEF clientVars
  <2> QED BY <2>2, <2>3, <2>4
<1>7. ASSUME NEW ok \in BOOLEAN, LateRendered(n, ok)
      PROVE  Inv' /\ Owed /\ (stopped => heard' = heard)
  <2>1. stage[n] = "late" /\ UNCHANGED <<clientVars, drainVars, full, stopped>>
    BY <1>7 DEF LateRendered
  <2>2. CASE stopped
    BY <1>7, <2>1, <2>2, ForgoneKeeps DEF LateRendered
  <2>3. CASE ~ stopped
    BY <1>2, <1>7, <2>1, <2>3, PublishKeeps DEF LateRendered
  <2> QED BY <2>2, <2>3
<1> QED BY <1>3, <1>4, <1>5, <1>6, <1>7

\* An item grows old where it is.
LEMMA AgeKeeps ==
    ASSUME Inv, NEW i \in DOMAIN parked, Age(i)
    PROVE  Inv' /\ Owed /\ heard' = heard
<1> USE DEF Inv, ItemInv
<1>1. parked \in Seq(Item) /\ DOMAIN parked = 1..Len(parked) /\ i \in 1..Len(parked)
  BY DEF TypeOK
<1>2. /\ parked' = [parked EXCEPT ![i].old = TRUE]
      /\ UNCHANGED <<clientVars, asking, stage, drainVars, full, stopped, heard, excused>>
  BY DEF Age
<1>3. UNCHANGED <<drain, current, requested, queued, credit, unserved, clients, blocked, reading>>
  BY <1>2 DEF clientVars, drainVars, requestVars
<1>4. [parked[i] EXCEPT !.old = TRUE] \in Item /\ Like([parked[i] EXCEPT !.old = TRUE], parked[i])
  <2>1. parked[i] \in Item
    BY <1>1
  <2> QED BY <2>1 DEF Item, Like
<1>5. /\ parked' \in Seq(Item) /\ Len(parked') = Len(parked)
      /\ \A j \in 1..Len(parked) : Like(parked'[j], parked[j])
  BY <1>1, <1>2, <1>4 DEF Like
<1>6. \A x \in ToSet(parked') : \E y \in ToSet(parked) : Like(x, y)
  BY <1>1, <1>5, Elements
<1>7. \A y \in ToSet(parked) : \E x \in ToSet(parked') : Like(x, y)
  BY <1>1, <1>5, Elements
<1>8. InDrain' = InDrain
  BY <1>3 DEF InDrain
<1>9. /\ \A x \in HeldItems' : \E y \in HeldItems : Like(x, y)
      /\ \A y \in HeldItems : \E x \in HeldItems' : Like(x, y)
  <2>1. \A y \in InDrain : Like(y, y)
    BY DEF Like
  <2> QED BY <1>6, <1>7, <1>8, <2>1 DEF HeldItems
<1>10. Held' = Held
  BY <1>9 DEF Held, Like
<1>11. Owed
  BY <1>10 DEF Owed, Held
<1>12. Apart'
  BY <1>1, <1>3, <1>5 DEF Apart, Distinct, Without, Like
<1>13. Fresh' /\ Room'
  BY <1>2, <1>5, <1>8, <1>10 DEF Fresh, Room
<1>14. HeldIsUnheard'
  BY <1>2, <1>9 DEF HeldIsUnheard, Like
<1>15. DrainInv'
  BY <1>3 DEF DrainInv, DrainSteps, Credited, Served
<1>16. Excused'
  <2> SUFFICES ASSUME drain = "off", queued = 0, ~ stopped, NEW x \in ToSet(parked'),
                      NEW c \in clients \ reading, Eligible(x, c)
               PROVE  x.notice \in excused
    BY <1>2, <1>3 DEF Excused
  <2>1. PICK y \in ToSet(parked) : Like(x, y)
    BY <1>6
  <2>2. Eligible(y, c) /\ y.notice = x.notice
    BY <2>1 DEF Eligible, Like
  <2> QED BY <2>2 DEF Excused
<1>17. TypeOK'
  BY <1>2, <1>3, <1>5 DEF TypeOK
<1> QED BY <1>2, <1>11, <1>12, <1>13, <1>14, <1>15, <1>16, <1>17

\* A drain that was started runs, or finds another one running.
LEMMA FlushBeginsKeeps ==
    ASSUME Inv, FlushBegins
    PROVE  Inv' /\ Owed /\ heard' = heard
<1> USE DEF Inv
<1>1. /\ drain \in {"off", "pass", "rendering"} /\ requested \in BOOLEAN /\ queued \in Nat
      /\ credit \in Int /\ unserved \in BOOLEAN /\ queued > 0
      /\ credit >= queued + (IF drain # "off" /\ requested THEN 1 ELSE 0)
      /\ (drain = "rendering" <=> current # None)
  BY DEF TypeOK, DrainInv, Credited, DrainSteps, FlushBegins
<1>2. /\ queued' = queued - 1
      /\ IF drain # "off"
         THEN requested' = TRUE /\ UNCHANGED <<drain, requestVars>>
         ELSE /\ requested' = FALSE /\ drain' = "pass"
              /\ credit' = credit - 1 /\ unserved' = FALSE
      /\ UNCHANGED <<clientVars, asking, stage, parked, current, full, stopped, heard, excused>>
  BY DEF FlushBegins
<1>3. /\ drain' \in {"off", "pass", "rendering"} /\ requested' \in BOOLEAN /\ queued' \in Nat
      /\ credit' \in Int /\ unserved' \in BOOLEAN
  <2>1. queued' \in Nat
    BY <1>1, <1>2
  <2>2. CASE drain # "off"
    BY <1>1, <1>2, <2>1, <2>2 DEF requestVars
  <2>3. CASE drain = "off"
    <3>1. drain' = "pass" /\ credit' = credit - 1 /\ requested' = FALSE /\ unserved' = FALSE
      BY <1>2, <2>3
    <3>2. credit' \in Int
      BY <1>1, <3>1
    <3> QED BY <2>1, <3>1, <3>2
  <2> QED BY <2>2, <2>3
<1>4. TypeOK'
  BY <1>2, <1>3 DEF TypeOK, clientVars
<1>5. ItemInv' /\ Owed
  BY <1>2, Still
<1>6. drain' # "off" /\ DrainSteps'
  BY <1>1, <1>2 DEF DrainInv, DrainSteps
<1>7. Credited'
  <2>1. CASE drain # "off"
    BY <1>1, <1>2, <2>1 DEF Credited, requestVars
  <2>2. CASE drain = "off"
    BY <1>1, <1>2, <2>2 DEF Credited
  <2> QED BY <2>1, <2>2
<1>8. Served' /\ Excused'
  BY <1>1, <1>2, <1>6 DEF Served, Excused
<1> QED BY <1>2, <1>4, <1>5, <1>6, <1>7, <1>8 DEF DrainInv

\* stop().
LEMMA StopKeeps ==
    ASSUME Inv, Stop
    PROVE  Inv' /\ Owed /\ heard' = heard
<1> USE DEF Inv, ItemInv
<1>1. /\ stopped' = TRUE /\ parked' = <<>>
      /\ UNCHANGED <<reading, asking, stage, drainVars, full, heard, excused>>
      /\ \E kept \in SUBSET clients : clients' = kept /\ blocked' = blocked \cap kept
  BY DEF Stop
<1>2. UNCHANGED <<drain, current, requested, queued, credit, unserved>>
  BY <1>1 DEF drainVars, requestVars
<1>3. parked' \in Seq(Item) /\ Len(parked') = 0 /\ ToSet(parked') = {}
  BY <1>1 DEF ToSet
<1>4. HeldItems' \subseteq HeldItems /\ InDrain' = InDrain
  BY <1>2, <1>3 DEF HeldItems, InDrain
<1>5. Apart' /\ Fresh' /\ HeldIsUnheard'
  BY <1>1, <1>3, <1>4 DEF Apart, Distinct, Without, Fresh, Held, HeldIsUnheard
<1>6. Room'
  <2>1. Len(parked) >= 0 /\ Len(parked) \in Int /\ ParkMax \in Int
    BY ParkAssumption DEF TypeOK
  <2>2. Cardinality(InDrain) = IF current = None THEN 0 ELSE 1
    BY DrainSize DEF InDrain
  <2>3. Len(parked) + Cardinality(InDrain) <= ParkMax + 1
    BY DEF Room
  <2> QED BY <1>3, <1>4, <2>1, <2>2, <2>3 DEF Room
<1>7. TypeOK'
  BY <1>1, <1>2, <1>3 DEF TypeOK
<1>8. DrainInv' /\ Excused' /\ Owed
  BY <1>1, <1>2 DEF DrainInv, DrainSteps, Credited, Served, Excused, Owed
<1> QED BY <1>1, <1>5, <1>6, <1>7, <1>8

\* What the environment does beside.
LEMMA AsideKeeps ==
    ASSUME Inv, (\E c \in Client : Disconnect(c) \/ Block(c)) \/ Fill \/ UNCHANGED vars
    PROVE  Inv' /\ Owed /\ heard' = heard
<1>1. /\ UNCHANGED <<reading, asking, stage, parked, drainVars, stopped, heard, excused>>
      /\ clients' \subseteq clients /\ blocked' \subseteq clients' /\ full' \in BOOLEAN
  <2>1. /\ clients \subseteq Client /\ blocked \subseteq clients /\ full \in BOOLEAN
    BY DEF Inv, TypeOK
  <2>2. ASSUME NEW c \in Client, Disconnect(c)
        PROVE  /\ UNCHANGED <<reading, asking, stage, parked, drainVars, full, stopped>>
               /\ UNCHANGED <<heard, excused>>
               /\ clients' \subseteq clients /\ blocked' \subseteq clients'
    BY <2>1, <2>2 DEF Disconnect
  <2>3. ASSUME NEW c \in Client, Block(c)
        PROVE  /\ UNCHANGED <<reading, asking, stage, parked, drainVars, full, stopped>>
               /\ UNCHANGED <<heard, excused>>
               /\ clients' \subseteq clients /\ blocked' \subseteq clients'
    BY <2>1, <2>3 DEF Block
  <2>4. CASE Fill
    <3>1. full' \in BOOLEAN
      BY <2>4 DEF Fill
    <3> QED BY <2>1, <2>4, <3>1 DEF Fill, clientVars
  <2>5. CASE UNCHANGED vars
    BY <2>1, <2>5 DEF vars, drainVars, requestVars
  <2> QED BY <2>1, <2>2, <2>3, <2>4, <2>5
<1>2. TypeOK'
  BY <1>1 DEF Inv, TypeOK, drainVars, requestVars
<1> QED BY <1>1, <1>2, IdleKeeps

-----------------------------------------------------------------------------
(* The theorems *)

LEMMA InitInv == Init => Inv
<1> SUFFICES ASSUME Init PROVE Inv
  OBVIOUS
<1>1. parked = <<>> /\ current = None /\ heard = {} /\ ToSet(parked) = {} /\ Len(parked) = 0
  BY DEF Init, ToSet
<1>2. HeldItems = {} /\ Cardinality(InDrain) = 0
  BY <1>1, FS_EmptySet DEF HeldItems, InDrain
<1>3. TypeOK
  <2>1. NotAsked \in [lazy : BOOLEAN, call : BOOLEAN]
    BY DEF NotAsked
  <2>2. /\ asking \in [Notice -> [lazy : BOOLEAN, call : BOOLEAN]]
        /\ stage \in [Notice -> {"new", "asking", "late", "done"}]
    BY <2>1 DEF Init
  <2>3. parked \in Seq(Item)
    BY <1>1
  <2>4. full \in BOOLEAN /\ stopped \in BOOLEAN /\ requested \in BOOLEAN /\ unserved \in BOOLEAN
    BY DEF Init
  <2>5. heard \subseteq Notice \X Client /\ excused \subseteq Notice
    BY DEF Init
  <2> QED BY <2>2, <2>3, <2>4, <2>5 DEF Init, TypeOK
<1>4. ItemInv
  BY <1>1, <1>2, ParkAssumption
     DEF ItemInv, Apart, Distinct, Fresh, Held, HeldIsUnheard, Room
<1>5. DrainInv /\ Excused
  BY <1>1 DEF Init, DrainInv, DrainSteps, Credited, Served, Excused
<1> QED BY <1>3, <1>4, <1>5 DEF Inv

LEMMA StepKeeps == Inv /\ [Next]_vars => Inv' /\ Owed /\ (stopped => heard' = heard)
<1> SUFFICES ASSUME Inv, [Next]_vars PROVE Inv' /\ Owed /\ (stopped => heard' = heard)
  OBVIOUS
<1>1. ASSUME NEW c \in Client, (\E history \in BOOLEAN : Connect(c, history)) \/ HistoryRead(c)
      PROVE  Inv' /\ Owed /\ heard' = heard
  BY <1>1, ConnectionKeeps
<1>2. ASSUME NEW n \in Notice,
             \/ NotifyText(n) \/ NotAnswered(n)
             \/ \E b \in BOOLEAN : Notify(n, b) \/ Answered(n, b) \/ LateRendered(n, b)
      PROVE  Inv' /\ Owed /\ (stopped => heard' = heard)
  BY <1>2, DispatchKeeps
<1>3. ASSUME NEW i \in DOMAIN parked, Age(i)
      PROVE  Inv' /\ Owed /\ heard' = heard
  BY <1>3, AgeKeeps
<1>4. CASE FlushBegins
  BY <1>4, FlushBeginsKeeps
<1>5. CASE Pass
  BY <1>5, PassKeeps
<1>6. ASSUME NEW ok \in BOOLEAN, Rendered(ok)
      PROVE  Inv' /\ Owed /\ (stopped => heard' = heard)
  BY <1>6, RenderedKeeps
<1>7. CASE Stop
  BY <1>7, StopKeeps
<1>8. CASE (\E c \in Client : Disconnect(c) \/ Block(c)) \/ Fill \/ UNCHANGED vars
  BY <1>8, AsideKeeps
<1> QED BY <1>1, <1>2, <1>3, <1>4, <1>5, <1>6, <1>7, <1>8 DEF Next

LEMMA ParkInvariant == Spec => []Inv
<1>1. Inv /\ [Next]_vars => Inv'
  BY StepKeeps
<1> QED BY <1>1, InitInv, PTL DEF Spec

\* The state of the park and of its drain keeps its types.
THEOREM ParkTypes == Spec => []TypeOK
<1>1. Inv => TypeOK
  BY DEF Inv
<1> QED BY <1>1, ParkInvariant, PTL

\* ParkIsExact, whatever is announced, whoever connects and however large the
\* park is: it holds one notice too many at most, nothing that was heard by
\* somebody it is kept for, and nothing without a reason; and no pass of the
\* drain runs without a request.
THEOREM ParkAlwaysExact == Spec => []ParkIsExact
<1>1. Inv => ParkIsExact
  <2> SUFFICES ASSUME Inv PROVE ParkIsExact
    OBVIOUS
  <2>1. credit >= 0
    BY DEF Inv, TypeOK, DrainInv, Credited
  <2>2. DrainBounded
    BY <2>1 DEF Inv, ItemInv, Room, DrainBounded
  <2>3. NoStranding
    BY DEF Inv, Excused, NoStranding, Taking
  <2> QED BY <2>2, <2>3 DEF Inv, ItemInv, ParkIsExact, HeldForAReason
<1> QED BY <1>1, ParkInvariant, PTL

\* ParkKeepsWhatIsOwed: a notice leaves the park and the drain only because a
\* client heard it, it was too old, newer ones pushed it out or the server
\* stops; and nothing is published after that.
THEOREM ParkAlwaysKeepsWhatIsOwed == Spec => ParkKeepsWhatIsOwed
<1>1. Inv /\ [Next]_vars => [Owed]_vars
  BY StepKeeps
<1>2. Inv /\ [Next]_vars => [stopped => heard' = heard]_vars
  BY StepKeeps
<1>3. Spec => [][Owed]_vars
  BY <1>1, ParkInvariant, PTL DEF Spec
<1>4. Spec => [][stopped => heard' = heard]_vars
  BY <1>2, ParkInvariant, PTL DEF Spec
<1> QED BY <1>3, <1>4 DEF ParkKeepsWhatIsOwed, NothingVanishes, SilentAfterStop, Owed
=============================================================================
