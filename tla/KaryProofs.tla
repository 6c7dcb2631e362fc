----------------------------- MODULE KaryProofs -----------------------------
(***************************************************************************)
(* The arithmetic of kary_parentof and kary_childof, for every fanout and  *)
(* every size of the tree.                                                 *)
(***************************************************************************)
EXTENDS KaryTree, FiniteSetTheorems, TLAPS

\* The ranks of a tree that send their requests to p.
Senders(k, size, p) == {c \in 0 .. size - 1 : kary_parentof(k, c) = p}

-----------------------------------------------------------------------------
\* Division by a positive number, in the form the tree arithmetic uses.
LEMMA DivBounds ==
  ASSUME NEW x \in Nat, NEW k \in Nat \ {0}
  PROVE  /\ x \div k \in Nat
         /\ k * (x \div k) <= x
         /\ x < k * (x \div k) + k
  OBVIOUS

\* The two branches of kary_parentof are one formula.
LEMMA ParentFormula ==
  ASSUME NEW k \in Nat \ {0}, NEW c \in Nat \ {0}
  PROVE  kary_parentof(k, c) = (k + c - 1) \div k - 1
  <1>1. k + (c + 1) - 2 = k + c - 1
    OBVIOUS
  <1>2. CASE k = 1
    BY <1>2 DEF kary_parentof
  <1>3. CASE k # 1
    BY <1>1, <1>3 DEF kary_parentof
  <1> QED
    BY <1>2, <1>3

\* kary_parentof: every rank but 0 has a parent, of a smaller rank, and is one
\* of the k ranks that follow its parent's earlier siblings' children.
LEMMA ParentBounds ==
  ASSUME NEW k \in Nat \ {0}, NEW c \in Nat \ {0}
  PROVE  /\ kary_parentof(k, c) \in Nat
         /\ kary_parentof(k, c) < c
         /\ k * kary_parentof(k, c) + 1 <= c
         /\ c <= k * kary_parentof(k, c) + k
  <1> DEFINE q == (k + c - 1) \div k
  <1>1. k + c - 1 \in Nat
    OBVIOUS
  <1>2. q \in Nat /\ k * q <= k + c - 1 /\ k + c - 1 < k * q + k
    BY <1>1, DivBounds
  <1>3. kary_parentof(k, c) = q - 1
    BY ParentFormula
  <1> HIDE DEF q
  <1>4. q >= 1
    BY <1>2
  <1>5. k * (q - 1) = k * q - k
    BY <1>2
  <1>6. k * (q - 1) >= q - 1
    BY <1>2, <1>4
  <1> QED
    BY <1>2, <1>3, <1>4, <1>5, <1>6

\* kary_parentof undoes kary_childof.
LEMMA ParentOfChild ==
  ASSUME NEW k \in Nat \ {0}, NEW p \in Nat, NEW j \in 0 .. k - 1
  PROVE  kary_parentof(k, k * p + 1 + j) = p
  <1> DEFINE c == k * p + 1 + j
  <1> DEFINE q == kary_parentof(k, c)
  <1>1. c \in Nat \ {0}
    OBVIOUS
  <1>2. q \in Nat /\ k * q + 1 <= c /\ c <= k * q + k
    BY <1>1, ParentBounds
  <1> HIDE DEF q
  <1>3. k * q < k * p + k /\ k * p < k * q + k
    BY <1>2
  <1>4. k * p + k = k * (p + 1) /\ k * q + k = k * (q + 1)
    BY <1>2
  <1>5. q < p + 1 /\ p < q + 1
    BY <1>2, <1>3, <1>4
  <1> QED
    BY <1>2, <1>5 DEF q

\* kary_childof: the jth child of p is the jth of the k ranks that follow the
\* children of the ranks before p, if the tree reaches that far.
LEMMA ChildFormula ==
  ASSUME NEW k \in Nat \ {0}, NEW size \in Nat, NEW p \in Nat, NEW j \in 0 .. k - 1
  PROVE  /\ k * p + 1 + j \in Nat
         /\ kary_childof(k, size, p, j)
              = IF k * p + 1 + j < size THEN k * p + 1 + j ELSE KARY_NONE
  <1>1. k * p \in Nat
    OBVIOUS
  <1>2. k * (p + 1) = k * p + k
    OBVIOUS
  <1>3. k * (p + 1) - (k - 2) + j - 1 = k * p + 1 + j
    BY <1>1, <1>2
  <1>4. k * p + 1 + j \in Nat
    BY <1>1
  <1>5. k > 0 /\ j >= 0 /\ j < k
    OBVIOUS
  <1> QED
    BY <1>3, <1>4, <1>5 DEF kary_childof

\* A rank of the tree is the jth child of p exactly when it is that rank.
LEMMA ChildOfParent ==
  ASSUME NEW k \in Nat \ {0}, NEW size \in Nat \ {0},
         NEW p \in 0 .. size - 1, NEW c \in 0 .. size - 1, NEW j \in 0 .. k - 1
  PROVE  kary_childof(k, size, p, j) = c <=> c = k * p + 1 + j
  <1>1. c # KARY_NONE /\ c < size
    BY DEF KARY_NONE
  <1> QED
    BY <1>1, ChildFormula

\* kary_childof and kary_parentof are inverse to each other: p counts c among its
\* children exactly when c sends its request to p.
LEMMA InverseOfParent ==
  ASSUME NEW k \in Nat \ {0}, NEW size \in Nat \ {0},
         NEW p \in 0 .. size - 1, NEW c \in 0 .. size - 1
  PROVE  kary_parentof(k, c) = p
            <=> \E j \in 0 .. k - 1 : kary_childof(k, size, p, j) = c
  <1>0. p \in Nat /\ c \in Nat
    OBVIOUS
  <1>1. ASSUME NEW j \in 0 .. k - 1, kary_childof(k, size, p, j) = c
        PROVE  kary_parentof(k, c) = p
    <2>1. c = k * p + 1 + j
      BY <1>1, ChildOfParent
    <2> QED
      BY <1>0, <2>1, ParentOfChild
  <1>2. ASSUME kary_parentof(k, c) = p
        PROVE  \E j \in 0 .. k - 1 : kary_childof(k, size, p, j) = c
    <2>1. c \in Nat \ {0}
      BY <1>2 DEF kary_parentof, KARY_NONE
    <2>2. k * p + 1 <= c /\ c <= k * p + k
      BY <1>2, <2>1, ParentBounds
    <2>3. \A m \in Nat : m + 1 <= c /\ c <= m + k
                           => \E j \in 0 .. k - 1 : c = m + 1 + j
      <3> TAKE m \in Nat
      <3> HAVE m + 1 <= c /\ c <= m + k
      <3> WITNESS c - (m + 1) \in 0 .. k - 1
      <3> QED
        BY <1>0
    <2>4. k * p \in Nat
      BY <1>0
    <2>5. PICK j \in 0 .. k - 1 : c = k * p + 1 + j
      BY <2>2, <2>3, <2>4
    <2> QED
      BY <2>5, ChildOfParent
  <1> QED
    BY <1>1, <1>2

\* child_count is exactly the number of ranks that send their requests to p.
LEMMA CountSenders ==
  ASSUME NEW k \in Nat \ {0}, NEW size \in Nat \ {0}, NEW p \in 0 .. size - 1
  PROVE  /\ IsFiniteSet(Senders(k, size, p))
         /\ child_count(k, p, size) = Cardinality(Senders(k, size, p))
  <1> DEFINE J == {j \in 0 .. k - 1 : kary_childof(k, size, p, j) # KARY_NONE}
             F == [j \in J |-> kary_childof(k, size, p, j)]
  <1>1. IsFiniteSet(J)
    <2>1. IsFiniteSet(0 .. k - 1)
      BY FS_Interval
    <2>2. J \in SUBSET (0 .. k - 1)
      OBVIOUS
    <2> HIDE DEF J
    <2> QED
      BY <2>1, <2>2, FS_Subset
  <1>2. ASSUME NEW j \in J
        PROVE  /\ kary_childof(k, size, p, j) = k * p + 1 + j
               /\ kary_childof(k, size, p, j) \in 0 .. size - 1
    <2>1. k * p + 1 + j < size /\ k * p + 1 + j \in Nat
      BY ChildFormula
    <2> QED
      BY <2>1, ChildFormula
  <1>3. F \in [J -> Senders(k, size, p)]
    BY <1>2, InverseOfParent DEF Senders
  <1>4. \A a, b \in J : F[a] = F[b] => a = b
    BY <1>2
  <1>5. \A c \in Senders(k, size, p) : \E j \in J : F[j] = c
    <2> TAKE c \in Senders(k, size, p)
    <2>1. c \in 0 .. size - 1 /\ c # KARY_NONE
      BY DEF Senders, KARY_NONE
    <2> QED
      BY <2>1, InverseOfParent DEF Senders
  <1> HIDE DEF J, F
  <1>6. F \in Bijection(J, Senders(k, size, p))
    BY <1>3, <1>4, <1>5 DEF Bijection, Injection, Surjection, IsInjective
  <1>7. child_count(k, p, size) = Cardinality(J)
    BY DEF child_count, J
  <1> QED
    BY <1>1, <1>6, <1>7, FS_Bijection DEF ExistsBijection

=============================================================================
