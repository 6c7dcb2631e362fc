----------------------------- MODULE MCKaryTree -----------------------------
(***************************************************************************)
(* Walks of a message up the tree: a request starts at some rank of some   *)
(* tree and is passed to the parent until it is at rank 0, which is how a  *)
(* contribution of an exchange travels.                                    *)
(***************************************************************************)
EXTENDS KaryTree

CONSTANTS MaxSize,      \* largest tree walked
          MaxFanout     \* largest fanout requested

ASSUME WalkBounds == MaxSize \in Nat \ {0} /\ MaxFanout \in Nat

VARIABLES size,         \* shells in this tree
          asked,        \* the fanout given to exchange_create
          at            \* the rank the walk has reached

vars == <<size, asked, at>>

k == exchange_fanout(asked, size)

Init == /\ size \in 1 .. MaxSize
        /\ asked \in -1 .. MaxFanout
        /\ at \in 0 .. size - 1

\* Pass the request on to the parent.
ToParent == /\ at > 0
            /\ at' = kary_parentof(k, at)
            /\ UNCHANGED <<size, asked>>

Next == ToParent

Spec == Init /\ [][Next]_vars /\ WF_vars(Next)

-----------------------------------------------------------------------------
\* kary_parentof and kary_childof are inverse to each other: a rank sends its
\* request to exactly the rank that counts it among its children.
ParentChildInverse ==
    \A p \in 0 .. size - 1, c \in 0 .. size - 1 :
        (kary_parentof(k, c) = p)
            <=> (\E j \in 0 .. k - 1 : kary_childof(k, size, p, j) = c)

\* child_count is exactly the number of ranks whose requests come here, so a
\* shell waits neither for a request nobody sends nor too short.
CountsSenders ==
    \A p \in 0 .. size - 1 :
        child_count(k, p, size)
            = Cardinality({c \in 0 .. size - 1 : kary_parentof(k, c) = p})

\* Every rank's request reaches the root: the parent links have no cycle and
\* do not lead out of the tree.
ReachesRoot == <>(at = 0)

=============================================================================
