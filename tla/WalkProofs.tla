----------------------------- MODULE WalkProofs -----------------------------
(***************************************************************************)
(* What the walks up the tree are checked for, for trees of every size and *)
(* every fanout that may be asked for.                                     *)
(***************************************************************************)
EXTENDS MCKaryTree, KaryProofs

\* The tree is as it was built, and the walk has not left it.
Walk == /\ size \in Nat \ {0}
        /\ asked \in Int
        /\ at \in 0 .. size - 1

\* exchange_create settles on a fanout of at least 1, whatever it is asked for.
LEMMA SettledFanout == Walk => k \in Nat \ {0}
  BY DEF Walk, k, exchange_fanout, DEFAULT_TREE_K

LEMMA WalkInit == Init => Walk
  BY WalkBounds DEF Init, Walk

\* A request goes to a smaller rank of the tree.
LEMMA WalkNext ==
  ASSUME Walk, [Next]_vars
  PROVE  Walk'
  <1>1. CASE ToParent
    <2>1. at \in Nat \ {0} /\ at < size /\ size' = size /\ asked' = asked
          /\ at' = kary_parentof(k, at)
      BY <1>1 DEF ToParent, Walk
    <2>2. at' \in Nat /\ at' < at
      BY <2>1, SettledFanout, ParentBounds
    <2> QED
      BY <2>1, <2>2 DEF Walk
  <1>2. CASE UNCHANGED vars
    BY <1>2 DEF vars, Walk
  <1> QED
    BY <1>1, <1>2 DEF Next

\* A rank sends its request to exactly the rank that counts it among its
\* children, in every tree that exchange_create may build.
THEOREM ParentsAndChildren == Spec => []ParentChildInverse
  <1>1. Walk => ParentChildInverse
    BY SettledFanout, InverseOfParent DEF ParentChildInverse, Walk
  <1>2. Walk /\ [Next]_vars => Walk'
    BY WalkNext
  <1> QED
    BY <1>1, <1>2, WalkInit, PTL DEF Spec

\* A shell of any such tree waits for exactly as many requests as are sent to it.
THEOREM SendersCounted == Spec => []CountsSenders
  <1>1. Walk => CountsSenders
    BY SettledFanout, CountSenders DEF CountsSenders, Walk, Senders
  <1>2. Walk /\ [Next]_vars => Walk'
    BY WalkNext
  <1> QED
    BY <1>1, <1>2, WalkInit, PTL DEF Spec

=============================================================================
