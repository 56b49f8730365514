--------------------------- MODULE SequenceLemmas ---------------------------
(***************************************************************************)
(* What the array and list operations of queue.c and libmem.c do to a      *)
(* sequence: take the head, append, search for the first match, cut an     *)
(* element out.                                                            *)
(***************************************************************************)
EXTENDS Naturals, Sequences, SequencesExt, WellFoundedInduction, FiniteSetTheorems, TLAPS

(***************************************************************************)
(* A non-empty set of natural numbers has a least element, so a search     *)
(* loop that stops at the first match is well defined.                     *)
(***************************************************************************)
LEMMA MinIsLeast ==
  ASSUME NEW T, T \subseteq Nat, T # {}
  PROVE  Min(T) \in T /\ \A y \in T : Min(T) <= y
<1> DEFINE R == OpToRel(<, Nat)
<1>1. \E x \in T : \A y \in T : ~ (<<y, x>> \in R)
  <2>1. IsWellFoundedOn(R, Nat)
    BY NatLessThanWellFounded
  <2> HIDE DEF R
  <2> QED BY <2>1, WFMin
<1>2. \E x \in T : \A y \in T : x <= y
  <2>1. PICK x \in T : \A y \in T : ~ (<<y, x>> \in R)
    BY <1>1
  <2>2. \A y \in T : ~ (y < x)
    BY <2>1 DEF OpToRel
  <2> QED BY <2>2
<1> QED BY <1>2 DEF Min

(***************************************************************************)
(* A search loop over an array of n elements stops at a position that      *)
(* matches, if there is one.                                               *)
(***************************************************************************)
LEMMA SearchFinds ==
  ASSUME NEW n \in Nat, NEW I, I \subseteq 1 .. n, I # {}
  PROVE  Min(I) \in I
<1>1. I \subseteq Nat
  OBVIOUS
<1> QED BY <1>1, MinIsLeast

(***************************************************************************)
(* The elements of a concatenation.                                        *)
(***************************************************************************)
LEMMA ConcatElements ==
  ASSUME NEW S, NEW a \in Seq(S), NEW b \in Seq(S)
  PROVE  /\ a \o b \in Seq(S)
         /\ Len(a \o b) = Len(a) + Len(b)
         /\ \A j \in 1 .. Len(a) : (a \o b)[j] = a[j]
         /\ \A j \in Len(a) + 1 .. Len(a) + Len(b) : (a \o b)[j] = b[j - Len(a)]
  OBVIOUS

(***************************************************************************)
(* Cutting out position k, as purgequeue and get_free_vmrg_area do, keeps  *)
(* the other elements in their order.                                      *)
(***************************************************************************)
LEMMA RemoveAtProperties ==
  ASSUME NEW S, NEW s \in Seq(S), NEW k \in 1 .. Len(s)
  PROVE  /\ RemoveAt(s, k) \in Seq(S)
         /\ Len(RemoveAt(s, k)) = Len(s) - 1
         /\ \A j \in 1 .. k - 1 : RemoveAt(s, k)[j] = s[j]
         /\ \A j \in k .. Len(s) - 1 : RemoveAt(s, k)[j] = s[j + 1]
<1> DEFINE a == SubSeq(s, 1, k - 1)
           b == SubSeq(s, k + 1, Len(s))
<1>1. a \in Seq(S) /\ Len(a) = k - 1 /\ \A j \in 1 .. k - 1 : a[j] = s[j]
  OBVIOUS
<1>2. b \in Seq(S) /\ Len(b) = Len(s) - k /\ \A j \in 1 .. Len(s) - k : b[j] = s[j + k]
  OBVIOUS
<1>3. RemoveAt(s, k) = a \o b
  BY DEF RemoveAt
<1> HIDE DEF a, b
<1>4. /\ a \o b \in Seq(S)
      /\ Len(a \o b) = Len(a) + Len(b)
      /\ \A j \in 1 .. Len(a) : (a \o b)[j] = a[j]
      /\ \A j \in Len(a) + 1 .. Len(a) + Len(b) : (a \o b)[j] = b[j - Len(a)]
  BY <1>1, <1>2, ConcatElements
<1>5. \A j \in k .. Len(s) - 1 : (a \o b)[j] = s[j + 1]
  <2> SUFFICES ASSUME NEW j \in k .. Len(s) - 1 PROVE (a \o b)[j] = s[j + 1]
    OBVIOUS
  <2>1. j \in Len(a) + 1 .. Len(a) + Len(b) /\ j - Len(a) \in 1 .. Len(s) - k
        /\ (j - Len(a)) + k = j + 1
    BY <1>1, <1>2
  <2> QED BY <1>2, <1>4, <2>1
<1> QED BY <1>1, <1>2, <1>3, <1>4, <1>5

(***************************************************************************)
(* The dequeue loop of queue.c.                                            *)
(***************************************************************************)
LEMMA TailProperties ==
  ASSUME NEW S, NEW s \in Seq(S), s # << >>
  PROVE  /\ Head(s) \in S /\ Head(s) = s[1] /\ Len(s) >= 1
         /\ Tail(s) \in Seq(S)
         /\ Len(Tail(s)) = Len(s) - 1
         /\ \A j \in 1 .. Len(s) - 1 : Tail(s)[j] = s[j + 1]
  OBVIOUS

(***************************************************************************)
(* The enqueue of queue.c when there is room.                              *)
(***************************************************************************)
LEMMA AppendProperties ==
  ASSUME NEW S, NEW s \in Seq(S), NEW e \in S
  PROVE  /\ Append(s, e) \in Seq(S)
         /\ Len(Append(s, e)) = Len(s) + 1
         /\ \A j \in 1 .. Len(s) : Append(s, e)[j] = s[j]
         /\ Append(s, e)[Len(s) + 1] = e
  OBVIOUS

(***************************************************************************)
(* attach_event, enlist_vm_freerg_list and enlist_pgn_node push a node at  *)
(* the head of a list.                                                     *)
(***************************************************************************)
LEMMA PushProperties ==
  ASSUME NEW S, NEW s \in Seq(S), NEW e \in S
  PROVE  /\ <<e>> \o s \in Seq(S)
         /\ Len(<<e>> \o s) = Len(s) + 1
         /\ (<<e>> \o s)[1] = e
         /\ \A j \in 1 .. Len(s) : (<<e>> \o s)[j + 1] = s[j]
         /\ \A j \in 2 .. Len(s) + 1 : (<<e>> \o s)[j] = s[j - 1]
  OBVIOUS

(***************************************************************************)
(* A queue of distinct processes that lacks one of them is shorter than    *)
(* there are processes: that one still fits in (queue.c, enqueue).         *)
(***************************************************************************)
LEMMA LacksOneIsShorter ==
  ASSUME NEW S, IsFiniteSet(S), NEW s \in Seq(S), NEW e \in S,
         \A j, k \in 1 .. Len(s) : s[j] = s[k] => j = k,
         \A j \in 1 .. Len(s) : s[j] # e
  PROVE  Cardinality(S) \in Nat /\ Len(s) < Cardinality(S)
<1> DEFINE n == Len(s) + 1
           f == Append(s, e)
<1>1. /\ n \in Nat /\ f \in Seq(S) /\ Len(f) = n
      /\ (\A j \in 1 .. Len(s) : f[j] = s[j]) /\ f[n] = e
  BY AppendProperties
<1>2. \A j, k \in 1 .. n : f[j] = f[k] => j = k
  <2>1. \A j \in 1 .. n : j \in 1 .. Len(s) \/ j = n
    OBVIOUS
  <2> HIDE DEF f
  <2> QED BY <1>1, <2>1
<1>3. f \in Injection(1 .. n, S)
  <2> HIDE DEF f, n
  <2>1. f \in [1 .. n -> S]
    BY <1>1
  <2> QED BY <1>2, <2>1 DEF Injection, IsInjective
<1>4. Cardinality(1 .. n) <= Cardinality(S)
  <2> HIDE DEF f, n
  <2> QED BY <1>3, FS_Injection
<1>5. Cardinality(1 .. n) = n
  <2>1. 1 \in Int /\ n \in Int /\ 1 <= n
    OBVIOUS
  <2> HIDE DEF n
  <2> QED BY <2>1, FS_Interval
<1>6. Cardinality(S) \in Nat
  BY FS_CardinalityType
<1> QED BY <1>4, <1>5, <1>6

(***************************************************************************)
(* A list of elements of P whose repetitions are told apart by a round,    *)
(* rounds 0 to n - 1 for any element and round n for those of H only, is   *)
(* no longer than there are such pairs (running_list, sched.c).            *)
(***************************************************************************)
LEMMA RoundsBoundLength ==
  ASSUME NEW P, IsFiniteSet(P), NEW H, IsFiniteSet(H), NEW n \in Nat,
         NEW s \in Seq(P), NEW m \in [1 .. Len(s) -> Nat],
         \A j \in 1 .. Len(s) : m[j] < n \/ (m[j] = n /\ s[j] \in H),
         \A j, k \in 1 .. Len(s) : s[j] = s[k] /\ m[j] = m[k] => j = k
  PROVE  Len(s) <= Cardinality(P) * n + Cardinality(H)
<1> DEFINE A == P \X (0 .. n - 1)
           B == H \X {n}
           f == [j \in 1 .. Len(s) |-> <<s[j], m[j]>>]
<1>1. Len(s) \in Nat /\ \A j \in 1 .. Len(s) : s[j] \in P /\ m[j] \in Nat
  OBVIOUS
<1>2. IsFiniteSet(0 .. n - 1) /\ Cardinality(0 .. n - 1) = n
  <2>1. 0 \in Int /\ n - 1 \in Int
    OBVIOUS
  <2>2. IsFiniteSet(0 .. n - 1)
    BY <2>1, FS_Interval
  <2>3. Cardinality(0 .. n - 1) = IF 0 > n - 1 THEN 0 ELSE n - 1 - 0 + 1
    BY <2>1, FS_Interval
  <2>4. (IF 0 > n - 1 THEN 0 ELSE n - 1 - 0 + 1) = n
    OBVIOUS
  <2> QED BY <2>2, <2>3, <2>4, Zenon
<1>3. IsFiniteSet({n}) /\ Cardinality({n}) = 1
  BY FS_Singleton
<1>4. IsFiniteSet(A) /\ Cardinality(A) = Cardinality(P) * n
  BY <1>2, FS_Product, ZenonT(40)
<1>5. IsFiniteSet(B) /\ Cardinality(B) = Cardinality(H) * 1
  BY <1>3, FS_Product, ZenonT(40)
<1>6. /\ Cardinality(P) \in Nat /\ Cardinality(H) \in Nat
      /\ Cardinality(A) \in Nat /\ Cardinality(B) \in Nat
  BY <1>4, <1>5, FS_CardinalityType
<1>7. \A j \in 1 .. Len(s) : f[j] \in A \cup B
  BY <1>1
<1>8. \A j, k \in 1 .. Len(s) : f[j] = f[k] => j = k
  <2> SUFFICES ASSUME NEW j \in 1 .. Len(s), NEW k \in 1 .. Len(s), f[j] = f[k] PROVE j = k
    OBVIOUS
  <2>1. <<s[j], m[j]>> = <<s[k], m[k]>>
    OBVIOUS
  <2> QED BY <2>1
<1>9. f \in Injection(1 .. Len(s), A \cup B)
  <2>1. f \in [1 .. Len(s) -> A \cup B]
    BY <1>7
  <2> HIDE DEF f, A, B
  <2> QED BY <1>8, <2>1 DEF Injection, IsInjective
<1> HIDE DEF A, B, f
<1>10. /\ IsFiniteSet(A \cup B) /\ Cardinality(A \cup B) \in Nat
       /\ Cardinality(A \cup B) <= Cardinality(A) + Cardinality(B)
  <2>1. /\ IsFiniteSet(A \cup B)
        /\ Cardinality(A \cup B) = Cardinality(A) + Cardinality(B) - Cardinality(A \cap B)
    BY <1>4, <1>5, FS_Union
  <2>2. IsFiniteSet(A \cap B)
    BY <1>4, FS_Intersection
  <2>3. Cardinality(A \cap B) \in Nat /\ Cardinality(A \cup B) \in Nat
    BY <2>1, <2>2, FS_CardinalityType
  <2> QED BY <1>6, <2>1, <2>3
<1>11. Cardinality(1 .. Len(s)) <= Cardinality(A \cup B)
  BY <1>9, <1>10, FS_Injection
<1>12. Cardinality(1 .. Len(s)) = Len(s)
  <2>1. 1 \in Int /\ Len(s) \in Int
    BY <1>1
  <2>2. Cardinality(1 .. Len(s)) = IF 1 > Len(s) THEN 0 ELSE Len(s) - 1 + 1
    BY <2>1, FS_Interval
  <2> QED BY <1>1, <2>2
<1>13. Len(s) <= Cardinality(A) + Cardinality(B)
  BY <1>1, <1>6, <1>10, <1>11, <1>12
<1> QED BY <1>4, <1>5, <1>6, <1>13
=============================================================================
