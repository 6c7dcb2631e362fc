------------------------------ MODULE KaryTree ------------------------------
(***************************************************************************)
(* The k-ary tree arithmetic of src/shell/plugins/exchange.c: which shell  *)
(* rank is the parent of which, and how many child requests a shell must   *)
(* wait for.  Ranks are 0 .. size-1.                                       *)
(*                                                                         *)
(* The code computes with int and uint32_t.  A rank is a shell rank, at    *)
(* most the number of nodes of a job, and k is at most size, so k * i + k  *)
(* stays far below 2^32 for every job with fewer than 2^15 shells; the     *)
(* fanout in use is 2.  Integers are therefore left unbounded here.        *)
(***************************************************************************)
EXTENDS Integers, FiniteSets

\* No such rank: ~(uint32_t)0 in the code, which is no rank of any tree.
KARY_NONE == -1

\* Fanout used when the caller asks for k <= 0 (fence_create does).
DEFAULT_TREE_K == 2

-----------------------------------------------------------------------------
\* A parent computed one off: the offsets of the division slip by one.
kary_parentof_slip(k, i) ==
    IF i = 0 \/ k <= 0 THEN KARY_NONE
    ELSE IF k = 1 THEN i - 1
    ELSE (k + (i + 1) - 1) \div k - 1

\* A parent left in the 1-based numbering of the division: some ranks become
\* their own parent.
kary_parentof_onebased(k, i) ==
    IF i = 0 \/ k <= 0 THEN KARY_NONE
    ELSE IF k = 1 THEN i - 1
    ELSE (k + (i + 1) - 2) \div k

\* The parent of i, or KARY_NONE if i has no parent.
kary_parentof(k, i) ==
    IF i = 0 \/ k <= 0 THEN KARY_NONE
    ELSE IF k = 1 THEN i - 1
    ELSE (k + (i + 1) - 2) \div k - 1

\* The jth child of i, or KARY_NONE if i has no such child.
kary_childof(k, size, i, j) ==
    LET n == k * (i + 1) - (k - 2) + j - 1
    IN  IF k > 0 /\ j >= 0 /\ j < k /\ n < size THEN n ELSE KARY_NONE

\* A count that stops one short of the last child.
child_count_short(k, rank, size) ==
    Cardinality({j \in 0 .. k - 2 : kary_childof(k, size, rank, j) # KARY_NONE})

\* The number of children of rank in a tree of the given size and degree.
child_count(k, rank, size) ==
    Cardinality({j \in 0 .. k - 1 : kary_childof(k, size, rank, j) # KARY_NONE})

\* The fanout exchange_create settles on for a requested k.
exchange_fanout(k, size) ==
    IF k <= 0 THEN DEFAULT_TREE_K
    ELSE IF k > size THEN size
    ELSE k

=============================================================================
