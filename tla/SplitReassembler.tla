-------------------------- MODULE SplitReassembler --------------------------
(***************************************************************************)
(* SplitReassembler of raknet_codec.py: the fragments of split messages,   *)
(* arriving in any order, repeatedly, with some of them lost, are collected *)
(* in groups.  Three dicts hold a group under the same key (split id, order *)
(* channel, order index, reliability mode); every path through push has to *)
(* keep them together.                                                     *)
(*                                                                         *)
(* Frames is the set of fragments the peer may send, as decoded: a fragment *)
(* belongs to a key, announces how many fragments its message has, and     *)
(* carries one piece.  Frames of one key may disagree: a split id wraps    *)
(* after 2^16 messages and is then used again.                             *)
(***************************************************************************)
EXTENDS Integers, FiniteSets, SequencesExt

CONSTANTS
  Frames,      \* the fragments that may arrive
  Size,        \* bytes of each piece
  MaxGroups,   \* max_groups (128)
  MaxParts,    \* max_parts (4096)
  MaxBytes     \* max_bytes of one group (16 MiB)

Keys == {f.key : f \in Frames}
Pieces == {f.piece : f \in Frames}

\* EncapsulatedFrame.decode refuses a zero count and an index beyond the count.
ASSUME ReassemblerAssumption ==
  /\ \A f \in Frames : /\ f.count \in Nat \ {0}
                       /\ f.index \in 0 .. f.count - 1
                       /\ f = [key |-> f.key, count |-> f.count, index |-> f.index,
                               piece |-> f.piece]
  /\ Size \in [Pieces -> Nat]
  /\ MaxGroups \in Nat \ {0}
  /\ MaxParts \in Nat
  /\ MaxBytes \in Nat

VARIABLES
  groups,     \* _groups: key -> the pieces that arrived, by index
  order,      \* the insertion order of _groups
  counts,     \* _counts: key -> number of fragments
  templates,  \* _templates: key -> the first fragment of the group
  result      \* what the last push returned or raised, and for which key

vars == <<groups, order, counts, templates, result>>

Outcomes == {"none", "incomplete", "message", "refused"}

\* The operators over whole dicts.
Without(dict, S) == Restrict(dict, DOMAIN dict \ S)
With(dict, k, v) == [x \in DOMAIN dict \cup {k} |-> IF x = k THEN v ELSE dict[x]]
SetDefault(dict, k, v) == IF k \in DOMAIN dict THEN dict ELSE With(dict, k, v)

Bytes(parts) == SumFunction([i \in DOMAIN parts |-> Size[parts[i]]])

Position(k) == CHOOSE i \in 1 .. Len(order) : order[i] = k

\* The insertion order once the keys of S, at most one, are gone.
OrderWithout(S) ==
  IF S = {} THEN order ELSE RemoveAt(order, Position(CHOOSE k \in S : TRUE))

Init ==
  /\ groups = <<>>
  /\ order = <<>>
  /\ counts = <<>>
  /\ templates = <<>>
  /\ result = [kind |-> "none"]

-----------------------------------------------------------------------------
(* SplitReassembler.push, one action per way it can end                    *)

\* Mutant: the limit is compared before the new group is counted.
VictimsTooLate(f) ==
  IF f.key \notin DOMAIN groups /\ Cardinality(DOMAIN groups) > MaxGroups
  THEN {Head(order)} ELSE {}

\* Mutant: the newest group makes room.
VictimsNewest(f) ==
  IF f.key \notin DOMAIN groups /\ Cardinality(DOMAIN groups) >= MaxGroups
  THEN {Last(order)} ELSE {}

\* A new key finds max_groups groups: the one inserted first makes room.
Victims(f) ==
  IF f.key \notin DOMAIN groups /\ Cardinality(DOMAIN groups) >= MaxGroups
  THEN {Head(order)} ELSE {}

\* Mutant: indices are counted from one.
PartsFromOne(f) ==
  IF f.key \in DOMAIN groups THEN SetDefault(groups[f.key], f.index + 1, f.piece)
  ELSE With(<<>>, f.index + 1, f.piece)

\* setdefault: a repeated fragment does not replace the first one.
Parts(f) ==
  IF f.key \in DOMAIN groups THEN SetDefault(groups[f.key], f.index, f.piece)
  ELSE With(<<>>, f.index, f.piece)

\* Mutant: the number of fragments is not limited.
AcceptedUnlimited(f) == f.key \in DOMAIN counts => counts[f.key] = f.count

\* Mutant: the number of fragments may change within a group.
AcceptedAnyCount(f) == f.count <= MaxParts

Accepted(f) ==
  /\ f.count <= MaxParts
  /\ f.key \in DOMAIN counts => counts[f.key] = f.count

\* Mutant: one of the three dicts is forgotten.
ForgetTwo(S) ==
  /\ groups' = Without(groups, S)
  /\ counts' = Without(counts, S)
  /\ UNCHANGED templates

\* The groups of S disappear from all three dicts.
Forget(S) ==
  /\ groups' = Without(groups, S)
  /\ counts' = Without(counts, S)
  /\ templates' = Without(templates, S)

\* The group of f disappears, or is not even stored, after making room for it.
Discard(f) ==
  /\ Forget(Victims(f) \cup {f.key})
  /\ order' = IF f.key \in DOMAIN groups THEN OrderWithout({f.key})
              ELSE OrderWithout(Victims(f))

\* ValueError before anything is touched.
TooManyParts(f) ==
  /\ f.count > MaxParts
  /\ result' = [kind |-> "refused", key |-> f.key]
  /\ UNCHANGED <<groups, order, counts, templates>>

\* A group whose fragments disagree about their number is dropped.
CountChanged(f) ==
  /\ f.count <= MaxParts
  /\ f.key \in DOMAIN counts
  /\ counts[f.key] # f.count
  /\ Discard(f)
  /\ result' = [kind |-> "refused", key |-> f.key]

\* A group with too many bytes is dropped.
TooManyBytes(f) ==
  /\ Accepted(f)
  /\ Bytes(Parts(f)) > MaxBytes
  /\ Discard(f)
  /\ result' = [kind |-> "refused", key |-> f.key]

\* The fragment is kept until the others arrive.
Collect(f) ==
  /\ Accepted(f)
  /\ Bytes(Parts(f)) <= MaxBytes
  /\ Cardinality(DOMAIN Parts(f)) # f.count
  /\ groups' = With(Without(groups, Victims(f)), f.key, Parts(f))
  /\ counts' = With(Without(counts, Victims(f)), f.key, f.count)
  /\ templates' = SetDefault(Without(templates, Victims(f)), f.key, f)
  /\ order' = IF f.key \in DOMAIN groups THEN order
              ELSE Append(OrderWithout(Victims(f)), f.key)
  /\ result' = [kind |-> "incomplete", key |-> f.key]

\* Mutant: a group that was joined stays.
CompleteAndKeep(f) ==
  /\ Accepted(f)
  /\ Bytes(Parts(f)) <= MaxBytes
  /\ Cardinality(DOMAIN Parts(f)) = f.count
  /\ groups' = With(Without(groups, Victims(f)), f.key, Parts(f))
  /\ counts' = With(Without(counts, Victims(f)), f.key, f.count)
  /\ templates' = SetDefault(Without(templates, Victims(f)), f.key, f)
  /\ order' = IF f.key \in DOMAIN groups THEN order
              ELSE Append(OrderWithout(Victims(f)), f.key)
  /\ result' = [kind    |-> "message",
                key     |-> f.key,
                count   |-> f.count,
                payload |-> Parts(f),
                header  |-> SetDefault(templates, f.key, f)[f.key]]

\* The last missing fragment: the pieces are joined under the header of the
\* fragment that arrived first.
Complete(f) ==
  /\ Accepted(f)
  /\ Bytes(Parts(f)) <= MaxBytes
  /\ Cardinality(DOMAIN Parts(f)) = f.count
  /\ Discard(f)
  /\ result' = [kind    |-> "message",
                key     |-> f.key,
                count   |-> f.count,
                payload |-> Parts(f),
                header  |-> SetDefault(templates, f.key, f)[f.key]]

Push(f) ==
  \/ TooManyParts(f) \/ CountChanged(f) \/ TooManyBytes(f)
  \/ Collect(f) \/ Complete(f)

Next == \E f \in Frames : Push(f)

Spec == Init /\ [][Next]_vars

-----------------------------------------------------------------------------
(* Properties                                                              *)

\* The types of the three dicts, their insertion order and the last result; a
\* stored group never announces more than max_parts fragments.
TypeOK ==
  /\ DOMAIN groups \subseteq Keys
  /\ \A k \in DOMAIN groups :
       /\ DOMAIN groups[k] \subseteq Nat
       /\ \A i \in DOMAIN groups[k] : groups[k][i] \in Pieces
  /\ \A k \in DOMAIN counts : counts[k] \in 1 .. MaxParts
  /\ \A k \in DOMAIN templates : templates[k] \in Frames
  /\ order \in Seq(Keys)
  /\ result.kind \in Outcomes

\* The three dicts hold the same groups, whichever way a push ends, and the
\* insertion order lists each of them once.
InSync ==
  /\ DOMAIN counts = DOMAIN groups
  /\ DOMAIN templates = DOMAIN groups
  /\ ToSet(order) = DOMAIN groups
  /\ \A i, j \in 1 .. Len(order) : order[i] = order[j] => i = j

\* A peer that opens groups and never finishes them holds at most max_groups, and
\* in none of them more than max_bytes: the memory it can take is the product.
GroupsBounded ==
  /\ Cardinality(DOMAIN groups) <= MaxGroups
  /\ \A k \in DOMAIN groups : Bytes(groups[k]) <= MaxBytes

\* No stored group is complete: the last missing fragment always delivers it,
\* so a message is not stuck behind fragments that arrived earlier.
NoneLeftComplete ==
  \A k \in DOMAIN groups :
    /\ DOMAIN groups[k] \subseteq 0 .. counts[k] - 1
    /\ Cardinality(DOMAIN groups[k]) < counts[k]

\* Every stored piece came in a fragment of this key and this count, and so did
\* the header: the remains of an earlier message under the key are gone.
SameMessage(k, count, parts) ==
  \A i \in DOMAIN parts :
    \E f \in Frames : f = [key |-> k, count |-> count, index |-> i, piece |-> parts[i]]

GroupsUnmixed ==
  \A k \in DOMAIN groups :
    /\ SameMessage(k, counts[k], groups[k])
    /\ templates[k].key = k
    /\ templates[k].count = counts[k]

\* A joined message has a piece for each index (the KeyError branch of push is
\* never taken), all of one key and one count.
MessageWhole ==
  result.kind = "message" =>
    /\ DOMAIN result.payload = 0 .. result.count - 1
    /\ SameMessage(result.key, result.count, result.payload)
    /\ result.header.key = result.key
    /\ result.header.count = result.count

\* A push changes no group but its own, save that a new group may push out the
\* oldest one when max_groups are held.
OthersUntouched ==
  [][\A k \in DOMAIN groups :
       k # result'.key =>
         \/ k \in DOMAIN groups' /\ groups'[k] = groups[k] /\ counts'[k] = counts[k]
         \/ /\ k = Head(order)
            /\ result'.key \notin DOMAIN groups
            /\ Cardinality(DOMAIN groups) = MaxGroups]_vars

=============================================================================
