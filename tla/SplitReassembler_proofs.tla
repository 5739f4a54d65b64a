----------------------- MODULE SplitReassembler_proofs -----------------------
(***************************************************************************)
(* Safety of split-frame reassembly for every set of fragments and every   *)
(* limit.                                                                  *)
(***************************************************************************)
EXTENDS SplitReassembler, FiniteSetTheorems, SequenceTheorems, TLAPS

-----------------------------------------------------------------------------
(* Removing keys from a dict                                               *)

LEMMA WithoutDict ==
  ASSUME NEW dict, NEW S
  PROVE  /\ DOMAIN Without(dict, S) = DOMAIN dict \ S
         /\ \A k \in DOMAIN dict \ S : Without(dict, S)[k] = dict[k]
  BY DEF Without, Restrict

-----------------------------------------------------------------------------
(* Lemmas on the insertion order                                           *)

\* s lists the elements of S, each of them once.
Lists(s, S) ==
  /\ s \in Seq(S)
  /\ ToSet(s) = S
  /\ \A i, j \in 1 .. Len(s) : s[i] = s[j] => i = j

LEMMA RemoveAtElements ==
  ASSUME NEW S, NEW s \in Seq(S), NEW p \in 1 .. Len(s)
  PROVE  /\ RemoveAt(s, p) \in Seq(S)
         /\ Len(RemoveAt(s, p)) = Len(s) - 1
         /\ \A i \in 1 .. Len(s) - 1 :
              RemoveAt(s, p)[i] = IF i < p THEN s[i] ELSE s[i + 1]
<1> DEFINE a == SubSeq(s, 1, p - 1)
           b == SubSeq(s, p + 1, Len(s))
<1>1. /\ a \in Seq(S)
      /\ Len(a) = p - 1
      /\ \A i \in 1 .. p - 1 : a[i] = s[i]
  OBVIOUS
<1>2. /\ b \in Seq(S)
      /\ Len(b) = Len(s) - p
      /\ \A i \in 1 .. Len(s) - p : b[i] = s[p + i]
  OBVIOUS
<1>3. RemoveAt(s, p) = a \o b
  BY DEF RemoveAt
<1>0. Len(s) \in Nat /\ p \in Nat /\ 1 <= p /\ p <= Len(s)
  OBVIOUS
<1> HIDE DEF a, b
<1>4. /\ a \o b \in Seq(S)
      /\ Len(a \o b) = Len(s) - 1
      /\ \A i \in 1 .. Len(s) - 1 : (a \o b)[i] = IF i <= p - 1 THEN a[i] ELSE b[i - (p - 1)]
  <2>1. /\ a \o b \in Seq(S)
        /\ Len(a \o b) = Len(a) + Len(b)
        /\ \A i \in 1 .. Len(a) + Len(b) :
             (a \o b)[i] = IF i <= Len(a) THEN a[i] ELSE b[i - Len(a)]
    BY <1>1, <1>2, ConcatProperties
  <2>2. Len(a) = p - 1 /\ Len(b) = Len(s) - p /\ Len(a) + Len(b) = Len(s) - 1
    BY <1>0, <1>1, <1>2
  <2> QED
    BY <2>1, <2>2
<1>5. ASSUME NEW i \in 1 .. Len(s) - 1
      PROVE  (a \o b)[i] = IF i < p THEN s[i] ELSE s[i + 1]
  <2>1. CASE i < p
    BY <1>0, <1>1, <1>4, <2>1
  <2>2. CASE i >= p
    <3>1. i - (p - 1) \in 1 .. Len(s) - p
      BY <1>0, <2>2
    <3>2. b[i - (p - 1)] = s[p + (i - (p - 1))]
      BY <1>2, <3>1
    <3>3. p + (i - (p - 1)) = i + 1
      BY <1>0
    <3> QED
      BY <1>0, <1>4, <2>2, <3>2, <3>3
  <2>3. i < p \/ i >= p
    BY <1>0
  <2> QED
    BY <2>1, <2>2, <2>3, Zenon
<1> QED
  BY <1>3, <1>4, <1>5

LEMMA ListsWithout ==
  ASSUME NEW S, NEW s, Lists(s, S), NEW p \in 1 .. Len(s)
  PROVE  Lists(RemoveAt(s, p), S \ {s[p]})
<1> DEFINE r == RemoveAt(s, p)
<1>1. /\ s \in Seq(S)
      /\ r \in Seq(S)
      /\ Len(r) = Len(s) - 1
      /\ \A i \in 1 .. Len(s) - 1 : r[i] = IF i < p THEN s[i] ELSE s[i + 1]
  BY RemoveAtElements DEF Lists
<1> HIDE DEF r
<1>2. \A i, j \in 1 .. Len(r) : r[i] = r[j] => i = j
  BY <1>1 DEF Lists
<1>3. \A i \in 1 .. Len(r) : r[i] \in S \ {s[p]}
  BY <1>1 DEF Lists
<1>4. ASSUME NEW x \in S \ {s[p]}
      PROVE  \E i \in 1 .. Len(r) : r[i] = x
  <2>1. PICK j \in 1 .. Len(s) : s[j] = x
    BY <1>1 DEF Lists, ToSet
  <2>2. CASE j < p
    <3>1. j \in 1 .. Len(r) /\ r[j] = x
      BY <1>1, <2>1, <2>2
    <3> QED
      BY <3>1
  <2>3. CASE j > p
    <3>1. j - 1 \in 1 .. Len(r) /\ r[j - 1] = x
      BY <1>1, <2>1, <2>3
    <3> QED
      BY <3>1
  <2>4. j # p
    BY <2>1
  <2> QED
    BY <1>1, <2>2, <2>3, <2>4
<1>5. r \in Seq(S \ {s[p]})
  BY <1>1, <1>3
<1>6. ToSet(r) = S \ {s[p]}
  BY <1>1, <1>3, <1>4 DEF ToSet
<1> QED
  BY <1>2, <1>5, <1>6 DEF Lists, r

LEMMA ListsAppend ==
  ASSUME NEW S, NEW s, Lists(s, S), NEW x, x \notin S
  PROVE  Lists(Append(s, x), S \cup {x})
<1> DEFINE r == Append(s, x)
<1>1. /\ s \in Seq(S)
      /\ s \in Seq(S \cup {x})
      /\ r \in Seq(S \cup {x})
      /\ Len(r) = Len(s) + 1
      /\ \A i \in 1 .. Len(s) : r[i] = s[i] /\ s[i] \in S
      /\ r[Len(s) + 1] = x
  BY DEF Lists
<1> HIDE DEF r
<1>2. ToSet(r) = S \cup {x}
  <2>1. ASSUME NEW y \in S
        PROVE  \E i \in 1 .. Len(r) : r[i] = y
    <3>1. PICK i \in 1 .. Len(s) : s[i] = y
      BY <1>1 DEF Lists, ToSet
    <3>2. i \in 1 .. Len(r) /\ r[i] = y
      BY <1>1, <3>1
    <3> QED
      BY <3>2
  <2>2. Len(s) + 1 \in 1 .. Len(r)
    BY <1>1
  <2>3. \A i \in 1 .. Len(r) : r[i] \in S \cup {x}
    BY <1>1
  <2>4. ToSet(r) = {r[i] : i \in 1 .. Len(r)}
    BY <1>1 DEF ToSet
  <2> QED
    BY <1>1, <2>1, <2>2, <2>3, <2>4
<1>3. \A i, j \in 1 .. Len(r) : r[i] = r[j] => i = j
  BY <1>1 DEF Lists
<1> QED
  BY <1>1, <1>2, <1>3 DEF Lists, r

\* OrderWithout drops the keys of S from the insertion order.
LEMMA OrderWithoutLists ==
  ASSUME NEW D, Lists(order, D), NEW S \in SUBSET D,
         \A x, y \in S : x = y
  PROVE  Lists(OrderWithout(S), D \ S)
<1>1. CASE S = {}
  BY <1>1 DEF OrderWithout
<1>2. CASE S # {}
  <2> DEFINE k == CHOOSE x \in S : TRUE
  <2>1. S = {k}
    BY <1>2
  <2>2. \E i \in 1 .. Len(order) : order[i] = k
    BY <2>1 DEF Lists, ToSet
  <2>3. Position(k) \in 1 .. Len(order) /\ order[Position(k)] = k
    BY <2>2 DEF Position
  <2>4. OrderWithout(S) = RemoveAt(order, Position(k))
    BY <1>2 DEF OrderWithout
  <2> QED
    BY <2>1, <2>3, <2>4, ListsWithout
<1> QED
  BY <1>1, <1>2, ConcatProperties

-----------------------------------------------------------------------------
(* The inductive invariant                                                 *)

RInv == TypeOK /\ InSync /\ GroupsBounded /\ NoneLeftComplete /\ GroupsUnmixed

LEMMA RInvInit == Init => RInv
<1> SUFFICES ASSUME Init
             PROVE  RInv
  OBVIOUS
<1>1. DOMAIN groups = {} /\ DOMAIN counts = {} /\ DOMAIN templates = {}
  BY DEF Init
<1>2. order \in Seq(Keys) /\ Len(order) = 0 /\ ToSet(order) = {}
  BY DEF Init, ToSet
<1>3. result.kind \in Outcomes
  BY DEF Init, Outcomes
<1>4. GroupsBounded
  BY <1>1, FS_EmptySet, ReassemblerAssumption DEF GroupsBounded
<1> QED
  BY <1>1, <1>2, <1>3, <1>4 DEF RInv, TypeOK, InSync, NoneLeftComplete, GroupsUnmixed

LEMMA FrameFacts ==
  ASSUME NEW f \in Frames
  PROVE  /\ f.count \in Nat \ {0} /\ f.index \in 0 .. f.count - 1
         /\ f.key \in Keys /\ f.piece \in Pieces
         /\ f = [key |-> f.key, count |-> f.count, index |-> f.index, piece |-> f.piece]
  BY ReassemblerAssumption DEF Keys, Pieces

LEMMA OrderListsGroups ==
  ASSUME RInv
  PROVE  Lists(order, DOMAIN groups)
<1>1. order \in Seq(Keys) /\ ToSet(order) = DOMAIN groups
  BY DEF RInv, TypeOK, InSync
<1>2. \A i \in 1 .. Len(order) : order[i] \in DOMAIN groups
  BY <1>1 DEF ToSet
<1>3. order \in Seq(DOMAIN groups)
  BY <1>1, <1>2
<1> QED
  BY <1>1, <1>3 DEF Lists, RInv, InSync

LEMMA FiniteGroups ==
  ASSUME RInv
  PROVE  IsFiniteSet(DOMAIN groups)
<1>1. order \in Seq(DOMAIN groups) /\ ToSet(order) = DOMAIN groups
  BY OrderListsGroups DEF Lists
<1>2. order \in [1 .. Len(order) -> DOMAIN groups]
  BY <1>1
<1>3. \A k \in DOMAIN groups : \E i \in 1 .. Len(order) : order[i] = k
  BY <1>1 DEF ToSet
<1>4. order \in Surjection(1 .. Len(order), DOMAIN groups)
  BY <1>2, <1>3 DEF Surjection
<1>5. IsFiniteSet(1 .. Len(order))
  BY <1>1, FS_Interval
<1> QED
  BY <1>4, <1>5, FS_Surjection

\* Making room removes at most one group, and leaves room for the new one.
LEMMA VictimFacts ==
  ASSUME RInv, NEW f \in Frames
  PROVE  /\ Victims(f) \in SUBSET DOMAIN groups
         /\ \A x, y \in Victims(f) : x = y
         /\ f.key \in DOMAIN groups => Victims(f) = {}
         /\ Cardinality((DOMAIN groups \ Victims(f)) \cup {f.key}) <= MaxGroups
         /\ Cardinality(DOMAIN groups \ (Victims(f) \cup {f.key})) <= MaxGroups
<1> DEFINE D == DOMAIN groups
<1>0. IsFiniteSet(D) /\ Cardinality(D) \in Nat /\ Cardinality(D) <= MaxGroups
  BY FiniteGroups, FS_CardinalityType DEF RInv, GroupsBounded
<1> HIDE DEF D
<1>1. ASSUME Victims(f) # {}
      PROVE  /\ Victims(f) = {Head(order)} /\ Head(order) \in D
             /\ f.key \notin D /\ Cardinality(D) = MaxGroups
  <2>1. /\ Victims(f) = {Head(order)} /\ f.key \notin D /\ Cardinality(D) >= MaxGroups
    BY <1>1 DEF Victims, D
  <2>2. D # {}
    BY <1>0, <2>1, FS_EmptySet, ReassemblerAssumption
  <2>3. order \in Seq(D) /\ ToSet(order) = D
    BY OrderListsGroups DEF Lists, D
  <2>4. Len(order) # 0
    BY <2>2, <2>3 DEF ToSet
  <2>5. Head(order) \in D
    BY <2>3, <2>4
  <2> QED
    BY <1>0, <2>1, <2>5, ReassemblerAssumption
<1>2. Victims(f) \in SUBSET D /\ \A x, y \in Victims(f) : x = y
  BY <1>1
<1>3. f.key \in D => Victims(f) = {}
  BY <1>1
<1>4. Cardinality((D \ Victims(f)) \cup {f.key}) <= MaxGroups
  <2>1. CASE Victims(f) # {}
    <3>1. /\ IsFiniteSet(D \ {Head(order)})
          /\ Cardinality(D \ {Head(order)}) = Cardinality(D) - 1
      BY <1>0, <1>1, <2>1, FS_RemoveElement
    <3>2. f.key \notin D \ {Head(order)}
      BY <1>1, <2>1
    <3>3. Cardinality((D \ {Head(order)}) \cup {f.key}) = Cardinality(D \ {Head(order)}) + 1
      BY <3>1, <3>2, FS_AddElement
    <3>4. (D \ Victims(f)) \cup {f.key} = (D \ {Head(order)}) \cup {f.key}
      BY <1>1, <2>1
    <3>5. Cardinality((D \ Victims(f)) \cup {f.key}) = Cardinality(D \ {Head(order)}) + 1
      BY <3>3, <3>4, Zenon
    <3> QED
      BY <1>0, <3>1, <3>5
  <2>2. CASE Victims(f) = {} /\ f.key \in D
    <3>1. (D \ Victims(f)) \cup {f.key} = D
      BY <2>2
    <3> QED
      BY <1>0, <3>1, Zenon
  <2>3. CASE Victims(f) = {} /\ f.key \notin D
    <3>1. Cardinality(D) < MaxGroups
      BY <1>0, <2>3, ReassemblerAssumption DEF Victims, D
    <3>2. Cardinality(D \cup {f.key}) = Cardinality(D) + 1
      BY <1>0, <2>3, FS_AddElement
    <3>3. (D \ Victims(f)) \cup {f.key} = D \cup {f.key}
      BY <2>3
    <3>4. Cardinality((D \ Victims(f)) \cup {f.key}) = Cardinality(D) + 1
      BY <3>2, <3>3, Zenon
    <3> QED
      BY <1>0, <3>1, <3>4, ReassemblerAssumption
  <2> QED
    BY <2>1, <2>2, <2>3
<1>5. Cardinality(D \ (Victims(f) \cup {f.key})) <= MaxGroups
  <2>1. D \ (Victims(f) \cup {f.key}) \in SUBSET D
    OBVIOUS
  <2>2. /\ Cardinality(D \ (Victims(f) \cup {f.key})) <= Cardinality(D)
        /\ Cardinality(D \ (Victims(f) \cup {f.key})) \in Nat
    BY <1>0, <2>1, FS_Subset, FS_CardinalityType
  <2> QED
    BY <1>0, <2>2, ReassemblerAssumption
<1> QED
  BY <1>2, <1>3, <1>4, <1>5 DEF D

\* The pieces of a group with the new one, and what they are pieces of.
LEMMA PartsFacts ==
  ASSUME RInv, NEW f \in Frames, Accepted(f)
  PROVE  /\ DOMAIN Parts(f) \subseteq 0 .. f.count - 1
         /\ \A i \in DOMAIN Parts(f) : Parts(f)[i] \in Pieces
         /\ SameMessage(f.key, f.count, Parts(f))
<1>1. CASE f.key \in DOMAIN groups
  <2> DEFINE g == groups[f.key]
  <2>1. counts[f.key] = f.count
    BY <1>1 DEF Accepted, RInv, InSync
  <2>2. /\ DOMAIN g \subseteq 0 .. f.count - 1
        /\ \A i \in DOMAIN g : g[i] \in Pieces
        /\ SameMessage(f.key, f.count, g)
    BY <1>1, <2>1 DEF RInv, NoneLeftComplete, GroupsUnmixed, TypeOK
  <2>3. Parts(f) = SetDefault(g, f.index, f.piece)
    BY <1>1 DEF Parts
  <2> HIDE DEF g
  <2>4. /\ DOMAIN Parts(f) = DOMAIN g \cup {f.index}
        /\ Parts(f)[f.index] = IF f.index \in DOMAIN g THEN g[f.index] ELSE f.piece
        /\ \A i \in DOMAIN g : Parts(f)[i] = g[i]
    BY <2>3 DEF SetDefault, With
  <2> QED
    BY <2>2, <2>4, FrameFacts DEF SameMessage
<1>2. CASE f.key \notin DOMAIN groups
  <2>1. Parts(f) = With(<<>>, f.index, f.piece)
    BY <1>2 DEF Parts
  <2>2. DOMAIN Parts(f) = DOMAIN <<>> \cup {f.index} /\ Parts(f)[f.index] = f.piece
    BY <2>1 DEF With
  <2> QED
    BY <2>2, FrameFacts DEF SameMessage
<1> QED
  BY <1>1, <1>2

-----------------------------------------------------------------------------
(* A push keeps the invariant                                              *)

\* The conjuncts for a step that leaves some groups and their data as they are.
LEMMA SmallerKeeps ==
  ASSUME RInv, NEW S, Forget(S), Lists(order', DOMAIN groups \ S),
         Cardinality(DOMAIN groups \ S) <= MaxGroups, result'.kind \in Outcomes
  PROVE  RInv'
<1>1. /\ DOMAIN groups' = DOMAIN groups \ S
      /\ DOMAIN counts' = DOMAIN counts \ S
      /\ DOMAIN templates' = DOMAIN templates \ S
      /\ \A k \in DOMAIN groups' : groups'[k] = groups[k]
      /\ \A k \in DOMAIN counts' : counts'[k] = counts[k]
      /\ \A k \in DOMAIN templates' : templates'[k] = templates[k]
  BY DEF Forget, Without, Restrict
<1>2. order' \in Seq(Keys) /\ ToSet(order') = DOMAIN groups'
  BY <1>1 DEF Lists, RInv, TypeOK
<1>3. TypeOK'
  BY <1>1, <1>2 DEF RInv, TypeOK
<1>4. InSync'
  BY <1>1, <1>2 DEF RInv, InSync, Lists
<1>5. GroupsBounded'
  <2>1. Cardinality(DOMAIN groups') <= MaxGroups
    BY <1>1, Zenon
  <2>2. \A k \in DOMAIN groups' : Bytes(groups'[k]) <= MaxBytes
    BY <1>1 DEF RInv, GroupsBounded
  <2> QED
    BY <2>1, <2>2 DEF GroupsBounded
<1>6. NoneLeftComplete'
  BY <1>1 DEF RInv, NoneLeftComplete, InSync
<1>7. GroupsUnmixed'
  BY <1>1 DEF RInv, GroupsUnmixed, InSync, SameMessage
<1> QED
  BY <1>3, <1>4, <1>5, <1>6, <1>7 DEF RInv

LEMMA DiscardKeeps ==
  ASSUME RInv, NEW f \in Frames, Discard(f), result'.kind \in Outcomes
  PROVE  RInv'
<1> DEFINE D == DOMAIN groups
           S == Victims(f) \cup {f.key}
<1>1. Forget(S)
  BY DEF Discard
<1>2. /\ Victims(f) \in SUBSET D
      /\ \A x, y \in Victims(f) : x = y
      /\ f.key \in D => Victims(f) = {}
      /\ Cardinality(D \ S) <= MaxGroups
  BY VictimFacts
<1>3. Lists(order', D \ S)
  <2>1. Lists(order, D)
    BY OrderListsGroups
  <2>2. CASE f.key \in D
    <3>1. Lists(OrderWithout({f.key}), D \ {f.key})
      BY <2>1, <2>2, OrderWithoutLists
    <3>2. order' = OrderWithout({f.key})
      BY <2>2 DEF Discard
    <3>3. D \ S = D \ {f.key}
      BY <1>2, <2>2
    <3> QED
      BY <3>1, <3>2, <3>3, Zenon
  <2>3. CASE f.key \notin D
    <3>1. Lists(OrderWithout(Victims(f)), D \ Victims(f))
      BY <1>2, <2>1, OrderWithoutLists
    <3>2. order' = OrderWithout(Victims(f))
      BY <2>3 DEF Discard
    <3>3. D \ S = D \ Victims(f)
      BY <2>3
    <3> QED
      BY <3>1, <3>2, <3>3, Zenon
  <2> QED
    BY <2>2, <2>3
<1> QED
  BY <1>1, <1>2, <1>3, SmallerKeeps

\* An incomplete group has fewer pieces than fragments.
LEMMA FewerParts ==
  ASSUME NEW n \in Nat, NEW S, S \subseteq 0 .. n - 1, Cardinality(S) # n
  PROVE  Cardinality(S) < n
<1> DEFINE I == 0 .. n - 1
<1>1. IsFiniteSet(I) /\ Cardinality(I) = n
  <2>1. n - 1 \in Int /\ 0 \in Int
    OBVIOUS
  <2>2. /\ IsFiniteSet(0 .. n - 1)
        /\ Cardinality(0 .. n - 1) = IF 0 > n - 1 THEN 0 ELSE (n - 1) - 0 + 1
    BY <2>1, FS_Interval, Zenon
  <2> QED
    BY <2>2
<1>2. S \in SUBSET I
  OBVIOUS
<1> HIDE DEF I
<1>3. IsFiniteSet(S) /\ Cardinality(S) <= Cardinality(I)
  BY <1>1, <1>2, FS_Subset
<1>4. Cardinality(S) \in Nat
  BY <1>3, FS_CardinalityType
<1> QED
  BY <1>1, <1>3, <1>4

LEMMA CollectKeeps ==
  ASSUME RInv, NEW f \in Frames, Collect(f)
  PROVE  RInv'
<1> DEFINE D == DOMAIN groups
           V == Victims(f)
           E == (D \ V) \cup {f.key}
<1>1. /\ V \in SUBSET D
      /\ \A x, y \in V : x = y
      /\ f.key \in D => V = {}
      /\ Cardinality(E) <= MaxGroups
  BY VictimFacts
<1>2. /\ DOMAIN Parts(f) \subseteq 0 .. f.count - 1
      /\ \A i \in DOMAIN Parts(f) : Parts(f)[i] \in Pieces
      /\ SameMessage(f.key, f.count, Parts(f))
      /\ Cardinality(DOMAIN Parts(f)) < f.count
  BY PartsFacts, FewerParts, FrameFacts DEF Collect
<1>3. D = DOMAIN counts /\ D = DOMAIN templates
  BY DEF RInv, InSync
<1>4. /\ DOMAIN groups' = E
      /\ groups'[f.key] = Parts(f)
      /\ \A k \in E : k # f.key => k \in D /\ groups'[k] = groups[k]
  BY DEF Collect, With, Without, Restrict
<1>5. /\ DOMAIN counts' = E
      /\ counts'[f.key] = f.count
      /\ \A k \in E : k # f.key => counts'[k] = counts[k]
  BY <1>3 DEF Collect, With, Without, Restrict
<1>6. /\ DOMAIN templates' = E
      /\ templates'[f.key] = IF f.key \in D THEN templates[f.key] ELSE f
      /\ \A k \in E : k # f.key => templates'[k] = templates[k]
  <2>1. templates' = SetDefault(Without(templates, V), f.key, f)
    BY DEF Collect
  <2>2. /\ DOMAIN Without(templates, V) = D \ V
        /\ \A k \in D \ V : Without(templates, V)[k] = templates[k]
    BY <1>3, WithoutDict
  <2> QED
    BY <1>1, <2>1, <2>2 DEF SetDefault, With
<1>7. Lists(order', E)
  <2>1. Lists(order, D)
    BY OrderListsGroups
  <2>2. CASE f.key \in D
    <3>1. order' = order /\ E = D
      BY <1>1, <2>2 DEF Collect
    <3> QED
      BY <2>1, <3>1, Zenon
  <2>3. CASE f.key \notin D
    <3>1. Lists(OrderWithout(V), D \ V)
      BY <1>1, <2>1, OrderWithoutLists
    <3>2. f.key \notin D \ V
      BY <2>3
    <3>3. Lists(Append(OrderWithout(V), f.key), E)
      BY <3>1, <3>2, ListsAppend
    <3>4. order' = Append(OrderWithout(V), f.key)
      BY <2>3 DEF Collect
    <3> QED
      BY <3>3, <3>4, Zenon
  <2> QED
    BY <2>2, <2>3
<1>8. f.key \in D => counts[f.key] = f.count
  BY <1>3 DEF Collect, Accepted
<1>9. f.count \in 1 .. MaxParts /\ f.key \in Keys
  BY FrameFacts, ReassemblerAssumption DEF Collect, Accepted
<1> HIDE DEF D, V, E
<1>10. TypeOK'
  <2>1. E \subseteq Keys
    BY <1>9 DEF E, D, V, RInv, TypeOK
  <2>2. order' \in Seq(Keys)
    BY <1>7, <2>1 DEF Lists
  <2>3. \A k \in E : /\ DOMAIN groups'[k] \subseteq Nat
                     /\ \A i \in DOMAIN groups'[k] : groups'[k][i] \in Pieces
    <3>1. 0 .. f.count - 1 \subseteq Nat
      BY <1>9
    <3> QED
      BY <1>2, <1>4, <3>1 DEF D, RInv, TypeOK
  <2>4. \A k \in E : counts'[k] \in 1 .. MaxParts
    BY <1>3, <1>4, <1>5, <1>9 DEF D, RInv, TypeOK
  <2>5. \A k \in E : templates'[k] \in Frames
    BY <1>3, <1>4, <1>6 DEF D, RInv, TypeOK
  <2>6. result'.kind \in Outcomes
    BY DEF Collect, Outcomes
  <2> QED
    BY <1>4, <1>5, <1>6, <2>1, <2>2, <2>3, <2>4, <2>5, <2>6 DEF TypeOK
<1>11. InSync'
  BY <1>4, <1>5, <1>6, <1>7 DEF InSync, Lists
<1>12. GroupsBounded'
  <2>1. Cardinality(DOMAIN groups') <= MaxGroups
    BY <1>1, <1>4, Zenon
  <2>2. ASSUME NEW k \in E
        PROVE  Bytes(groups'[k]) <= MaxBytes
    <3>1. CASE k = f.key
      BY <1>4, <3>1, Zenon DEF Collect
    <3>2. CASE k # f.key
      BY <1>4, <3>2 DEF D, RInv, GroupsBounded
    <3> QED
      BY <3>1, <3>2
  <2> QED
    BY <1>4, <2>1, <2>2 DEF GroupsBounded
<1>13. NoneLeftComplete'
  <2>1. ASSUME NEW k \in E
        PROVE  /\ DOMAIN groups'[k] \subseteq 0 .. counts'[k] - 1
               /\ Cardinality(DOMAIN groups'[k]) < counts'[k]
    <3>1. CASE k = f.key
      BY <1>2, <1>4, <1>5, <3>1
    <3>2. CASE k # f.key
      BY <1>4, <1>5, <3>2 DEF D, RInv, NoneLeftComplete
    <3> QED
      BY <3>1, <3>2
  <2> QED
    BY <1>4, <2>1 DEF NoneLeftComplete
<1>14. GroupsUnmixed'
  <2>1. ASSUME NEW k \in E
        PROVE  /\ SameMessage(k, counts'[k], groups'[k])
               /\ templates'[k].key = k
               /\ templates'[k].count = counts'[k]
    <3>1. CASE k = f.key
      <4>1. CASE k \in D
        BY <1>2, <1>4, <1>5, <1>6, <1>8, <3>1, <4>1 DEF D, RInv, GroupsUnmixed
      <4>2. CASE k \notin D
        BY <1>2, <1>4, <1>5, <1>6, <3>1, <4>2
      <4> QED
        BY <4>1, <4>2
    <3>2. CASE k # f.key
      BY <1>4, <1>5, <1>6, <3>2 DEF D, RInv, GroupsUnmixed
    <3> QED
      BY <3>1, <3>2
  <2> QED
    BY <1>4, <2>1 DEF GroupsUnmixed, SameMessage
<1> QED
  BY <1>10, <1>11, <1>12, <1>13, <1>14 DEF RInv

-----------------------------------------------------------------------------
(* Every step                                                              *)

LEMMA RInvStep ==
  ASSUME RInv, [Next]_vars
  PROVE  RInv'
<1>1. ASSUME NEW f \in Frames, TooManyParts(f)
      PROVE  RInv'
  <2>1. UNCHANGED <<groups, order, counts, templates>> /\ result'.kind \in Outcomes
    BY <1>1 DEF TooManyParts, Outcomes
  <2> QED
    BY <2>1 DEF RInv, TypeOK, InSync, GroupsBounded, NoneLeftComplete, GroupsUnmixed,
                SameMessage
<1>2. ASSUME NEW f \in Frames, CountChanged(f)
      PROVE  RInv'
  <2>1. Discard(f) /\ result'.kind \in Outcomes
    BY <1>2 DEF CountChanged, Outcomes
  <2> QED
    BY <2>1, DiscardKeeps
<1>3. ASSUME NEW f \in Frames, TooManyBytes(f)
      PROVE  RInv'
  <2>1. Discard(f) /\ result'.kind \in Outcomes
    BY <1>3 DEF TooManyBytes, Outcomes
  <2> QED
    BY <2>1, DiscardKeeps
<1>4. ASSUME NEW f \in Frames, Collect(f)
      PROVE  RInv'
  BY <1>4, CollectKeeps
<1>5. ASSUME NEW f \in Frames, Complete(f)
      PROVE  RInv'
  <2>1. Discard(f) /\ result'.kind \in Outcomes
    BY <1>5 DEF Complete, Outcomes
  <2> QED
    BY <2>1, DiscardKeeps
<1>6. CASE UNCHANGED vars
  BY <1>6 DEF vars, RInv, TypeOK, InSync, GroupsBounded, NoneLeftComplete, GroupsUnmixed,
              SameMessage
<1> QED
  BY <1>1, <1>2, <1>3, <1>4, <1>5, <1>6 DEF Next, Push

LEMMA RInvAlways == Spec => []RInv
<1>1. Init => RInv
  BY RInvInit
<1>2. RInv /\ [Next]_vars => RInv'
  BY RInvStep
<1> QED
  BY <1>1, <1>2, PTL DEF Spec

\* The pieces of a message are all there when their number is right.
LEMMA AllParts ==
  ASSUME NEW n \in Nat, NEW S, S \subseteq 0 .. n - 1, Cardinality(S) = n
  PROVE  S = 0 .. n - 1
<1> DEFINE I == 0 .. n - 1
<1>1. /\ IsFiniteSet(0 .. n - 1)
      /\ Cardinality(0 .. n - 1) = IF 0 > n - 1 THEN 0 ELSE (n - 1) - 0 + 1
  <2>1. n - 1 \in Int /\ 0 \in Int
    OBVIOUS
  <2> QED
    BY <2>1, FS_Interval, Zenon
<1>2. Cardinality(I) = n /\ IsFiniteSet(I) /\ S \in SUBSET I
  BY <1>1
<1> HIDE DEF I
<1>3. S = I
  BY <1>2, FS_Subset
<1> QED
  BY <1>3 DEF I

LEMMA WholeStep ==
  ASSUME RInv, MessageWhole, [Next]_vars
  PROVE  MessageWhole'
<1>1. ASSUME NEW f \in Frames, TooManyParts(f) \/ CountChanged(f) \/ TooManyBytes(f) \/ Collect(f)
      PROVE  MessageWhole'
  <2>1. result'.kind # "message"
    BY <1>1 DEF TooManyParts, CountChanged, TooManyBytes, Collect
  <2> QED
    BY <2>1 DEF MessageWhole
<1>2. ASSUME NEW f \in Frames, Complete(f)
      PROVE  MessageWhole'
  <2>1. /\ DOMAIN Parts(f) \subseteq 0 .. f.count - 1
        /\ SameMessage(f.key, f.count, Parts(f))
    BY <1>2, PartsFacts DEF Complete
  <2>2. f.count \in Nat /\ Cardinality(DOMAIN Parts(f)) = f.count
    BY <1>2, FrameFacts DEF Complete
  <2>3. DOMAIN Parts(f) = 0 .. f.count - 1
    BY <2>1, <2>2, AllParts
  <2> DEFINE header == SetDefault(templates, f.key, f)[f.key]
  <2>4. header.key = f.key /\ header.count = f.count
    <3>1. CASE f.key \in DOMAIN templates
      <4>1. header = templates[f.key]
        BY <3>1 DEF SetDefault
      <4>2. f.key \in DOMAIN groups /\ counts[f.key] = f.count
        BY <1>2, <3>1 DEF RInv, InSync, Complete, Accepted
      <4> QED
        BY <4>1, <4>2 DEF RInv, GroupsUnmixed
    <3>2. CASE f.key \notin DOMAIN templates
      <4>1. header = f
        BY <3>2 DEF SetDefault, With
      <4> QED
        BY <4>1
    <3> QED
      BY <3>1, <3>2
  <2>5. result' = [kind |-> "message", key |-> f.key, count |-> f.count,
                   payload |-> Parts(f), header |-> header]
    BY <1>2 DEF Complete
  <2> HIDE DEF header
  <2>6. /\ result'.payload = Parts(f) /\ result'.count = f.count
        /\ result'.key = f.key /\ result'.header = header
    BY <2>5
  <2> QED
    BY <2>1, <2>3, <2>4, <2>6 DEF MessageWhole, SameMessage
<1>3. CASE UNCHANGED vars
  BY <1>3 DEF vars, MessageWhole, SameMessage
<1> QED
  BY <1>1, <1>2, <1>3 DEF Next, Push

\* One step at a time, a push leaves the other groups alone.
Others ==
  \A k \in DOMAIN groups :
    k # result'.key =>
      \/ k \in DOMAIN groups' /\ groups'[k] = groups[k] /\ counts'[k] = counts[k]
      \/ /\ k = Head(order)
         /\ result'.key \notin DOMAIN groups
         /\ Cardinality(DOMAIN groups) = MaxGroups

LEMMA OthersStep ==
  ASSUME RInv, NEW f \in Frames, Push(f)
  PROVE  Others
<1>1. result'.key = f.key
  BY DEF Push, TooManyParts, CountChanged, TooManyBytes, Collect, Complete
<1>2. Cardinality(DOMAIN groups) \in Nat /\ Cardinality(DOMAIN groups) <= MaxGroups
  BY FiniteGroups, FS_CardinalityType DEF RInv, GroupsBounded
<1>3. ASSUME NEW k \in Victims(f)
      PROVE  /\ k = Head(order)
             /\ f.key \notin DOMAIN groups
             /\ Cardinality(DOMAIN groups) = MaxGroups
  <2>1. /\ k = Head(order)
        /\ f.key \notin DOMAIN groups
        /\ Cardinality(DOMAIN groups) >= MaxGroups
    BY <1>3 DEF Victims
  <2> QED
    BY <1>2, <2>1, ReassemblerAssumption
<1>4. ASSUME NEW k \in DOMAIN groups, k # f.key, k \notin Victims(f)
      PROVE  k \in DOMAIN groups' /\ groups'[k] = groups[k] /\ counts'[k] = counts[k]
  <2>0. k \in DOMAIN counts
    BY <1>4 DEF RInv, InSync
  <2>1. CASE TooManyParts(f)
    BY <1>4, <2>1 DEF TooManyParts
  <2>2. CASE Discard(f)
    BY <1>4, <2>0, <2>2 DEF Discard, Forget, Without, Restrict
  <2>3. CASE Collect(f)
    BY <1>4, <2>0, <2>3 DEF Collect, With, Without, Restrict
  <2> QED
    BY <2>1, <2>2, <2>3 DEF Push, CountChanged, TooManyBytes, Complete
<1> QED
  BY <1>1, <1>3, <1>4 DEF Others

-----------------------------------------------------------------------------
(* The theorems                                                            *)

\* The state of the reassembler has its types, and its three dicts and its
\* insertion order always hold the same groups.
THEOREM DictsInSync == Spec => [](TypeOK /\ InSync)
<1>1. RInv => TypeOK /\ InSync
  BY DEF RInv
<1> QED
  BY <1>1, RInvAlways, PTL

\* The stored pieces, counts and templates have their types.
THEOREM TypeCorrect == Spec => []TypeOK
<1>1. TypeOK /\ InSync => TypeOK
  OBVIOUS
<1> QED
  BY <1>1, DictsInSync, PTL

\* At most max_groups unfinished groups of at most max_bytes each are held, whatever
\* the peer sends.
THEOREM GroupsNeverOverflow == Spec => []GroupsBounded
<1>1. RInv => GroupsBounded
  BY DEF RInv
<1> QED
  BY <1>1, RInvAlways, PTL

\* A stored group always misses a fragment: a complete message never waits.
THEOREM NoMessageStuck == Spec => []NoneLeftComplete
<1>1. RInv => NoneLeftComplete
  BY DEF RInv
<1> QED
  BY <1>1, RInvAlways, PTL

\* No group mixes fragments of different keys or different counts.
THEOREM NoMixedGroups == Spec => []GroupsUnmixed
<1>1. RInv => GroupsUnmixed
  BY DEF RInv
<1> QED
  BY <1>1, RInvAlways, PTL

\* Every joined message has each of its pieces, all of one key and one count.
THEOREM MessagesWhole == Spec => []MessageWhole
<1>1. Init => MessageWhole
  BY DEF Init, MessageWhole
<1>2. RInv /\ MessageWhole /\ [Next]_vars => MessageWhole'
  BY WholeStep
<1> QED
  BY <1>1, <1>2, RInvAlways, PTL DEF Spec

\* A push changes no other group, save the oldest one when the limit is reached.
THEOREM PushIsLocal == Spec => OthersUntouched
<1>1. RInv /\ [Next]_vars => [Others]_vars
  <2> SUFFICES ASSUME RInv, Next
               PROVE  Others
    BY DEF Next
  <2> QED
    BY OthersStep DEF Next
<1> QED
  BY <1>1, RInvAlways, PTL DEF Spec, OthersUntouched, Others

-----------------------------------------------------------------------------
(* What a push does to its own group                                       *)

\* q has the pieces of p, and perhaps more.
Extends(p, q) == DOMAIN p \subseteq DOMAIN q /\ \A i \in DOMAIN p : q[i] = p[i]

\* The group of the pushed fragment, by the outcome.
OwnGroup ==
  LET k == result'.key IN
  /\ result'.kind = "incomplete" =>
       /\ k \in DOMAIN groups'
       /\ k \in DOMAIN groups => Extends(groups[k], groups'[k])
  /\ result'.kind = "message" =>
       /\ k \notin DOMAIN groups'
       /\ k \in DOMAIN groups => /\ Extends(groups[k], result'.payload)
                                /\ result'.header = templates[k]
  /\ result'.kind = "refused" =>
       k \notin DOMAIN groups' \/ UNCHANGED <<groups, order, counts, templates>>
  /\ result'.kind # "none"

LEMMA PartsExtend ==
  ASSUME NEW f \in Frames, f.key \in DOMAIN groups
  PROVE  Extends(groups[f.key], Parts(f))
<1> DEFINE g == groups[f.key]
<1>1. Parts(f) = SetDefault(g, f.index, f.piece)
  BY DEF Parts
<1> HIDE DEF g
<1>2. Extends(g, Parts(f))
  BY <1>1 DEF SetDefault, With, Extends
<1> QED
  BY <1>2 DEF g

\* The first fragment wins: until its group is joined or dropped, a piece that has
\* arrived is not replaced by a later fragment of the same index, it is part of the
\* joined message, and the message has the header of the first fragment.
THEOREM FirstPieceStays == Spec => [][OwnGroup]_vars
<1>1. ASSUME RInv, NEW f \in Frames, Push(f)
      PROVE  OwnGroup
  <2>1. CASE TooManyParts(f)
    BY <2>1 DEF TooManyParts, OwnGroup
  <2>2. ASSUME Discard(f)
        PROVE  f.key \notin DOMAIN groups'
    BY <2>2 DEF Discard, Forget, Without, Restrict
  <2>3. CASE CountChanged(f) \/ TooManyBytes(f)
    <3>1. result' = [kind |-> "refused", key |-> f.key] /\ f.key \notin DOMAIN groups'
      BY <2>2, <2>3 DEF CountChanged, TooManyBytes
    <3> QED
      BY <3>1 DEF OwnGroup
  <2>4. CASE Collect(f)
    <3>1. /\ result' = [kind |-> "incomplete", key |-> f.key]
          /\ f.key \in DOMAIN groups' /\ groups'[f.key] = Parts(f)
      BY <2>4 DEF Collect, With
    <3> QED
      BY <3>1, PartsExtend DEF OwnGroup
  <2>5. CASE Complete(f)
    <3> DEFINE header == SetDefault(templates, f.key, f)[f.key]
    <3>1. result' = [kind |-> "message", key |-> f.key, count |-> f.count,
                     payload |-> Parts(f), header |-> header]
      BY <2>5 DEF Complete
    <3>2. f.key \notin DOMAIN groups'
      BY <2>2, <2>5 DEF Complete
    <3>3. f.key \in DOMAIN groups => header = templates[f.key]
      BY <1>1 DEF SetDefault, RInv, InSync
    <3> HIDE DEF header
    <3>4. /\ result'.kind = "message" /\ result'.key = f.key
          /\ result'.payload = Parts(f) /\ result'.header = header
      BY <3>1
    <3> QED
      BY <3>2, <3>3, <3>4, PartsExtend DEF OwnGroup
  <2> QED
    BY <1>1, <2>1, <2>3, <2>4, <2>5 DEF Push
<1>2. RInv /\ [Next]_vars => [OwnGroup]_vars
  BY <1>1 DEF Next
<1> QED
  BY <1>2, RInvAlways, PTL DEF Spec

=============================================================================
