--------------------------- MODULE ExchangeProofs ---------------------------
(***************************************************************************)
(* The tree that kary_parentof and child_count describe, the type          *)
(* invariant of Exchange, for every set of failures, and its safety        *)
(* properties when no failure leaves part of its effect behind; all of it  *)
(* for every number of shells, every fanout and every bound.               *)
(*                                                                         *)
(* For safety each handler is taken apart into the changes it makes one    *)
(* after the other, and each change is shown to keep the invariant Inv.    *)
(***************************************************************************)
EXTENDS ExchangeInv, KaryProofs, SequenceTheorems, WellFoundedInduction

-----------------------------------------------------------------------------
(* The tree.                                                               *)

\* The shells that send their requests to p.
Children(p) == {c \in Ranks : c # 0 /\ parent_rank(c) = p}

\* A non-empty set of numbers has a least element.
LEMMA LeastNat ==
  ASSUME NEW T, T \subseteq Nat, T # {}
  PROVE  \E x \in T : \A y \in T : x <= y
  <1> DEFINE R == {ss \in Nat \X Nat : ss[1] < ss[2]}
  <1>1. IsWellFoundedOn(R, Nat)
    BY NatLessThanWellFounded DEF OpToRel
  <1>2. \E x \in T : \A y \in T : ~ (<<y, x>> \in R)
    <2> HIDE DEF R
    <2> QED
      BY <1>1, WFMin
  <1>3. PICK x \in T : \A y \in T : ~ (<<y, x>> \in R)
    BY <1>2
  <1>4. \A y \in T : ~ (y < x)
    BY <1>3
  <1> QED
    BY <1>4

\* A non-empty set of ranks has a greatest element.
LEMMA GreatestRank ==
  ASSUME NEW T, T \subseteq Ranks, T # {}
  PROVE  \E x \in T : \A y \in T : y <= x
  <1> DEFINE U == {Size - x : x \in T}
  <1>1. \A x \in T : Size - x \in Nat
    BY SizeAssumption DEF Ranks
  <1>2. PICK u \in U : \A v \in U : u <= v
    <2>1. U \subseteq Nat /\ U # {}
      BY <1>1
    <2> QED
      BY <2>1, LeastNat
  <1>3. PICK x \in T : u = Size - x
    BY <1>2
  <1>4. \A y \in T : Size - x <= Size - y
    BY <1>2, <1>3
  <1> QED
    BY <1>4, SizeAssumption DEF Ranks

-----------------------------------------------------------------------------
\* exchange_create always settles on a fanout of at least 1.
LEMMA FanoutPositive == K \in Nat \ {0}
  BY SizeAssumption, FanoutAssumption DEF K, exchange_fanout, DEFAULT_TREE_K

\* The parent of a rank other than 0 is a rank, and a smaller one.
LEMMA ParentInTree ==
  ASSUME NEW c \in Ranks, c # 0
  PROVE  parent_rank(c) \in Ranks /\ parent_rank(c) < c
  BY ParentBounds, FanoutPositive, SizeAssumption DEF Ranks, parent_rank

\* child_count is exactly the number of shells that send their requests here.
LEMMA ChildCountExact ==
  ASSUME NEW p \in Ranks
  PROVE  /\ IsFiniteSet(Children(p))
         /\ child_count(K, p, Size) = Cardinality(Children(p))
         /\ child_count(K, p, Size) \in Nat
  <1>1. K \in Nat \ {0} /\ Size \in Nat \ {0} /\ p \in 0 .. Size - 1
    BY FanoutPositive, SizeAssumption DEF Ranks
  <1>2. Children(p) = Senders(K, Size, p)
    <2>1. kary_parentof(K, 0) # p
      BY <1>1 DEF kary_parentof, KARY_NONE
    <2> QED
      BY <2>1 DEF Children, Senders, Ranks, parent_rank
  <1> QED
    BY <1>1, <1>2, CountSenders, FS_CardinalityType

\* A shell that holds as many requests as it has children, each from another
\* child, holds one from every child.
LEMMA HoldsAllChildren ==
  ASSUME NEW p \in Ranks, NEW q \in Seq(Route),
         \A i \in DOMAIN q : q[i].from \in Children(p),
         \A i, j \in DOMAIN q : q[i].from = q[j].from => i = j,
         Len(q) >= child_count(K, p, Size)
  PROVE  /\ \A c \in Children(p) : \E i \in DOMAIN q : q[i].from = c
         /\ Len(q) = child_count(K, p, Size)
  <1> DEFINE D == 1 .. Len(q)
  <1> DEFINE F == [i \in D |-> q[i].from]
  <1>1. D = DOMAIN q /\ Len(q) \in Nat
    OBVIOUS
  <1>2. F \in Injection(D, Children(p))
    BY <1>1 DEF Injection, IsInjective
  <1>3. Cardinality(D) = Len(q)
    BY <1>1, FS_Interval
  <1>4. /\ Cardinality(D) <= Cardinality(Children(p))
        /\ Cardinality(D) = Cardinality(Children(p)) <=> F \in Surjection(D, Children(p))
    BY <1>2, ChildCountExact, FS_Injection
  <1>5. Cardinality(D) = Cardinality(Children(p))
    BY <1>1, <1>3, <1>4, ChildCountExact
  <1>6. F \in Surjection(D, Children(p))
    BY <1>4, <1>5
  <1> QED
    BY <1>1, <1>3, <1>5, <1>6, ChildCountExact DEF Surjection

-----------------------------------------------------------------------------
(* The path from a rank to the root.                                       *)

\* A rank is on its own path to the root.
LEMMA AncestorSelf ==
  ASSUME NEW s \in Ranks
  PROVE  s \in Ancestors(s)
  BY DEF Ancestors

\* The parent of a rank on a path is on it too.
LEMMA AncestorParent ==
  ASSUME NEW s \in Ranks, NEW r \in Ancestors(s), r # 0
  PROVE  parent_rank(r) \in Ancestors(s)
  BY ParentInTree DEF Ancestors

\* The ranks on the path from a rank to the root are not larger than it.
LEMMA AncestorSmaller ==
  ASSUME NEW s \in Ranks, NEW r \in Ancestors(s)
  PROVE  r \in Ranks /\ r <= s
  <1> DEFINE S == {x \in Ranks : x <= s}
  <1>1. S \in SUBSET Ranks /\ s \in S
    BY DEF Ranks
  <1>2. \A x \in S \ {0} : parent_rank(x) \in S
    <2> TAKE x \in S \ {0}
    <2>1. parent_rank(x) \in Ranks /\ parent_rank(x) < x
      BY ParentInTree
    <2> QED
      BY <2>1 DEF Ranks
  <1> HIDE DEF S
  <1>3. r \in Ranks /\ r \in S
    BY <1>1, <1>2 DEF Ancestors
  <1> QED
    BY <1>3 DEF S

\* The rest of the path from a rank is the path from its parent.
LEMMA AncestorStep ==
  ASSUME NEW s \in Ranks, s # 0, NEW r \in Ancestors(s), r # s
  PROVE  r \in Ancestors(parent_rank(s))
  <1> DEFINE p == parent_rank(s)
  <1> DEFINE S == {s} \cup Ancestors(p)
  <1>1. p \in Ranks
    BY ParentInTree
  <1>2. S \in SUBSET Ranks /\ s \in S
    BY DEF Ancestors
  <1>3. \A x \in S \ {0} : parent_rank(x) \in S
    BY <1>1, AncestorSelf, AncestorParent
  <1> HIDE DEF S
  <1>4. r \in S
    BY <1>2, <1>3 DEF Ancestors
  <1> QED
    BY <1>4 DEF S

\* Only one child of a shell is on the path from a rank to the root.
LEMMA OneChildOnPath ==
  ASSUME NEW s \in Ranks, NEW c \in Ancestors(s), NEW d \in Ancestors(s),
         c # 0, d # 0, parent_rank(c) = parent_rank(d)
  PROVE  c = d
  <1> DEFINE Bad(x) == \E a, b \in Ancestors(x) :
                a # 0 /\ b # 0 /\ parent_rank(a) = parent_rank(b) /\ a # b
  <1> DEFINE T == {x \in Ranks : Bad(x)}
  <1>1. SUFFICES ASSUME c # d PROVE FALSE
    OBVIOUS
  <1>2. T \subseteq Nat /\ s \in T
    BY <1>1 DEF Ranks
  <1>3. PICK x \in T : \A y \in T : x <= y
    <2> HIDE DEF T
    <2> QED
      BY <1>2, LeastNat
  <1>4. x \in Ranks /\ Bad(x)
    BY <1>3
  <1>5. PICK a \in Ancestors(x), b \in Ancestors(x) :
            a # 0 /\ b # 0 /\ parent_rank(a) = parent_rank(b) /\ a # b
    BY <1>4
  <1>6. a \in Ranks /\ a <= x /\ b \in Ranks /\ b <= x
    BY <1>4, <1>5, AncestorSmaller
  <1>7. x # 0
    BY <1>5, <1>6 DEF Ranks
  <1> DEFINE p == parent_rank(x)
  <1>8. p \in Ranks /\ p < x
    BY <1>4, <1>7, ParentInTree
  <1>9. ASSUME NEW e \in Ancestors(p), e # 0
        PROVE  e \in Ranks /\ parent_rank(e) < e /\ e <= p /\ parent_rank(e) \in Ranks
    BY <1>8, <1>9, AncestorSmaller, ParentInTree
  <1>10. CASE a = x
    <2>1. b \in Ancestors(p)
      BY <1>4, <1>5, <1>7, <1>10, AncestorStep
    <2>2. parent_rank(b) = p
      BY <1>5, <1>10
    <2> HIDE DEF p
    <2> QED
      BY <1>5, <1>8, <1>9, <2>1, <2>2 DEF Ranks
  <1>11. CASE b = x
    <2>1. a \in Ancestors(p)
      BY <1>4, <1>5, <1>7, <1>11, AncestorStep
    <2>2. parent_rank(a) = p
      BY <1>5, <1>11
    <2> HIDE DEF p
    <2> QED
      BY <1>5, <1>8, <1>9, <2>1, <2>2 DEF Ranks
  <1>12. CASE a # x /\ b # x
    <2>1. a \in Ancestors(p) /\ b \in Ancestors(p)
      BY <1>4, <1>5, <1>7, <1>12, AncestorStep
    <2>2. p \in T
      BY <1>5, <1>8, <2>1
    <2> QED
      BY <1>3, <1>4, <1>8, <2>2 DEF Ranks
  <1> QED
    BY <1>10, <1>11, <1>12

-----------------------------------------------------------------------------
(* Types.                                                                  *)

\* The root sends no request, so every request in flight has a parent to go to.
TypeInv == TypeOK /\ \A m \in up : m.from # 0

\* A new session and the absence of one are sessions.
LEMMA NoSessionType == session_create \in Session /\ NoSession \in Session
  BY DEF NoSession, session_create, Session

\* The session a handler works on has the type of one.
LEMMA OpenSessionType ==
  ASSUME TypeOK, NEW r \in Ranks
  PROVE  OpenSession(r) \in Session
  BY NoSessionType DEF OpenSession, TypeOK

\* exchange_enter_base64_string leaves a well-formed session.
LEMMA EnteredType ==
  ASSUME TypeOK, NEW r \in Ranks, NEW n \in Nat, NEW collect \in BOOLEAN
  PROVE  Entered(r, n, collect) \in Session
  <1> DEFINE ses == OpenSession(r)
  <1>1. ses \in Session
    BY OpenSessionType
  <1>2. <<r, n>> \in Contributions
    BY DEF Contributions
  <1>3. Append(ses.data_in, <<r, n>>) \in Seq(Contributions)
    BY <1>1, <1>2 DEF Session
  <1> HIDE DEF ses
  <1> QED
    BY <1>1, <1>3 DEF Session, Entered, ses

\* What the msglist keeps of a request identifies its sender and its rpc.
LEMMA RouteOfType ==
  ASSUME NEW m \in Request
  PROVE  RouteOf(m) \in Route
  BY DEF RouteOf, Request, Route

\* exchange_request_cb leaves a well-formed session.
LEMMA ReceivedType ==
  ASSUME TypeOK, NEW p \in Ranks, NEW m \in Request
  PROVE  Received(p, m) \in Session
  <1> DEFINE ses == OpenSession(p)
  <1>1. ses \in Session
    BY OpenSessionType
  <1>2. ses.data_in \o m.data \in Seq(Contributions)
    BY <1>1 DEF Session, Request
  <1>3. Append(ses.requests, RouteOf(m)) \in Seq(Route)
    BY <1>1, RouteOfType DEF Session
  <1> HIDE DEF ses
  <1> QED
    BY <1>1, <1>2, <1>3 DEF Session, Received, ses

\* The responses to saved requests are well-formed messages.
LEMMA ResponsesType ==
  ASSUME NEW routes \in Seq(Route), NEW out \in Seq(Contributions)
  PROVE  Responses(routes, out) \subseteq Response
  <1>1. \A q \in ToSet(routes) : q \in Route
    BY DEF ToSet
  <1>2. ASSUME NEW q \in Route
        PROVE  [to |-> q.from, tag |-> q.tag, ok |-> TRUE, data |-> out] \in Response
    BY DEF Response, Route
  <1> QED
    BY <1>1, <1>2 DEF Responses

\* The number of failures stays within its bound.
LEMMA FaultType ==
  ASSUME TypeOK, NEW name, NoFault \/ Fault(name)
  PROVE  faults' \in 0 .. MaxFaults
  BY BoundsAssumption DEF TypeOK, NoFault, Fault

\* An answer extends the answers of one shell.
LEMMA ReplyType ==
  ASSUME TypeOK, NEW r \in Ranks, NEW call \in Nat,
         NEW status \in {"PMIX_SUCCESS", "PMIX_ERROR"},
         NEW data \in Seq(Contributions), Reply(r, call, status, data)
  PROVE  answers' \in [Ranks -> Seq(Answer)]
  <1> DEFINE a == [call |-> call, status |-> status, data |-> data]
  <1>1. a \in Answer
    BY DEF Answer
  <1>2. Append(answers[r], a) \in Seq(Answer)
    BY <1>1 DEF TypeOK
  <1> QED
    BY <1>2 DEF Reply, TypeOK

\* The end of an exchange leaves well-formed sessions and answers.
LEMMA ExitType ==
  ASSUME TypeOK, NEW r \in Ranks, NEW ses \in Session,
         NEW status \in {"PMIX_SUCCESS", "PMIX_ERROR"},
         NEW data \in Seq(Contributions), Exit(r, ses, status, data)
  PROVE  session' \in [Ranks -> Session] /\ answers' \in [Ranks -> Seq(Answer)]
  <1>1. ses.arg \in Nat
    BY DEF Session
  <1>2. answers' \in [Ranks -> Seq(Answer)]
    BY <1>1, ReplyType DEF Exit
  <1>3. session' \in [Ranks -> Session]
    BY NoSessionType DEF Exit, TypeOK
  <1> QED
    BY <1>2, <1>3

\* No data is data.
LEMMA EmptyData == <<>> \in Seq(Contributions)
  OBVIOUS

\* Relaying a result and exiting keeps the types.
LEMMA CompleteType ==
  ASSUME TypeOK, NEW r \in Ranks, NEW ses \in Session,
         NEW out \in Seq(Contributions),
         NEW u, NEW d \in SUBSET Response, Complete(r, ses, out, u, d)
  PROVE  /\ session' \in [Ranks -> Session]
         /\ answers' \in [Ranks -> Seq(Answer)]
         /\ up' = u
         /\ down' \subseteq Response
         /\ faults' \in 0 .. MaxFaults
  <1>1. \/ Exit(r, ses, "PMIX_SUCCESS", out)
        \/ Exit(r, ses, "PMIX_ERROR", <<>>)
    BY DEF Complete, exchange_get_data
  <1>2. session' \in [Ranks -> Session] /\ answers' \in [Ranks -> Seq(Answer)]
    BY <1>1, ExitType, EmptyData
  <1>3. NoFault \/ Fault("get_data") \/ Fault("respond")
    BY DEF Complete, exchange_get_data
  <1>4. ses.requests \in Seq(Route)
    BY DEF Session
  <1>5. ASSUME NEW i \in 1 .. Len(ses.requests)
        PROVE  SubSeq(ses.requests, 1, i - 1) \in Seq(Route)
    BY <1>4, SubSeqProperties
  <1>6. down' \subseteq Response
    BY <1>4, <1>5, ResponsesType DEF Complete, exchange_get_data
  <1> QED
    BY <1>2, <1>3, <1>6, FaultType DEF Complete, exchange_get_data

\* session_process keeps the types of what it changes.
LEMMA ProcessType ==
  ASSUME TypeOK, NEW r \in Ranks, NEW ses \in Session,
         NEW u \in SUBSET Request, \A m \in u : m.from # 0,
         NEW d \in SUBSET Response, session_process(r, ses, u, d)
  PROVE  /\ session' \in [Ranks -> Session]
         /\ answers' \in [Ranks -> Seq(Answer)]
         /\ up' \subseteq Request
         /\ \A m \in up' : m.from # 0
         /\ down' \subseteq Response
         /\ gathers' \in Seq(Gather)
         /\ faults' \in 0 .. MaxFaults
  <1>1. CASE Wait(r, ses, u, d)
    BY <1>1, FaultType DEF Wait, TypeOK
  <1>2. CASE SendRequest(r, ses, u, d)
    <2> DEFINE m == [from |-> r, tag |-> ses.arg, data |-> ses.data_in]
    <2>1. m \in Request /\ m.from # 0
      BY <1>2, SizeAssumption DEF SendRequest, Session, Request, Ranks
    <2>2. up' \in {u, u \cup {m}}
      BY <1>2 DEF SendRequest
    <2>3. up' \subseteq Request /\ \A mm \in up' : mm.from # 0
      BY <2>1, <2>2
    <2>4. faults' \in 0 .. MaxFaults
      BY <1>2, FaultType DEF SendRequest
    <2>5. [ses EXCEPT !.f = TRUE] \in Session
      BY DEF Session
    <2>6. \/ /\ session' = [session EXCEPT ![r] = [ses EXCEPT !.f = TRUE]]
             /\ UNCHANGED answers
          \/ Exit(r, ses, "PMIX_ERROR", <<>>)
      BY <1>2 DEF SendRequest
    <2>7. session' \in [Ranks -> Session] /\ answers' \in [Ranks -> Seq(Answer)]
      BY <2>5, <2>6, ExitType, EmptyData DEF TypeOK
    <2> QED
      BY <1>2, <2>3, <2>4, <2>7 DEF SendRequest, TypeOK
  <1>3. CASE RootComplete(r, ses, u, d)
    <2> DEFINE c == [s \in Ranks |-> IF s = r THEN ses.arg ELSE session[s].arg]
    <2>1. c \in [Ranks -> Nat]
      BY DEF TypeOK, Session
    <2>2. ses.data_in \in Seq(Contributions)
      BY DEF Session
    <2>3. [calls |-> c, data |-> ses.data_in] \in Gather
      BY <2>1, <2>2 DEF Gather
    <2>4. gathers' = Append(gathers, [calls |-> c, data |-> ses.data_in])
      BY <1>3 DEF RootComplete
    <2>5. gathers' \in Seq(Gather)
      BY <2>3, <2>4 DEF TypeOK
    <2>6. Complete(r, ses, ses.data_in, u, d)
      BY <1>3 DEF RootComplete
    <2> QED
      BY <2>2, <2>5, <2>6, CompleteType
  <1> QED
    BY <1>1, <1>2, <1>3 DEF session_process

\* A call extends the calls of one shell.
LEMMA CallType ==
  ASSUME TypeOK, NEW r \in Ranks, NEW collect \in Collect, MakeCall(r, collect)
  PROVE  calls' \in [Ranks -> Seq(BOOLEAN)] /\ Len(calls[r]) + 1 \in Nat
  <1>1. Append(calls[r], collect) \in Seq(BOOLEAN)
    BY CollectAssumption DEF TypeOK
  <1>2. Len(calls[r]) \in Nat
    BY DEF TypeOK
  <1> QED
    BY <1>1, <1>2 DEF MakeCall, TypeOK

\* flux_respond_error sends a well-formed response.
LEMMA ErrorResponseType ==
  ASSUME NEW m \in Request
  PROVE  ErrorResponse(m) \in Response
  BY EmptyData DEF ErrorResponse, Request, Response

\* The types hold initially, and there is no request from the root.
LEMMA TypeInvInit == Init => TypeInv
  BY NoSessionType, BoundsAssumption DEF Init, TypeInv, TypeOK

\* Every step keeps the types, and the root never sends a request.
LEMMA TypeInvNext == TypeInv /\ [Next]_vars => TypeInv'
  <1> SUFFICES ASSUME TypeInv, [Next]_vars PROVE TypeInv'
    OBVIOUS
  <1> USE DEF TypeInv
  <1>1. ASSUME NEW r \in Ranks, NEW collect \in Collect, Enter(r, collect)
        PROVE  TypeInv'
    <2> DEFINE ses == Entered(r, Len(calls[r]) + 1, collect)
    <2>1. calls' \in [Ranks -> Seq(BOOLEAN)] /\ Len(calls[r]) + 1 \in Nat
      BY <1>1, CallType DEF Enter
    <2>2. ses \in Session
      BY <2>1, EnteredType, CollectAssumption
    <2>3. session_process(r, ses, up, down)
      BY <1>1 DEF Enter
    <2>4. up \in SUBSET Request /\ down \in SUBSET Response
      BY DEF TypeOK
    <2> HIDE DEF ses
    <2> QED
      BY <2>1, <2>2, <2>3, <2>4, ProcessType DEF TypeOK
  <1>2. ASSUME NEW r \in Ranks, NEW collect \in Collect, EnterRefused(r, collect)
        PROVE  TypeInv'
    <2>1. calls' \in [Ranks -> Seq(BOOLEAN)] /\ Len(calls[r]) + 1 \in Nat
      BY <1>2, CallType DEF EnterRefused
    <2>2. answers' \in [Ranks -> Seq(Answer)]
      BY <1>2, <2>1, ReplyType, EmptyData DEF EnterRefused
    <2> QED
      BY <1>2, <2>1, <2>2 DEF EnterRefused, TypeOK
  <1>3. ASSUME NEW r \in Ranks, NEW collect \in Collect, EnterFails(r, collect)
        PROVE  TypeInv'
    <2>1. calls' \in [Ranks -> Seq(BOOLEAN)] /\ Len(calls[r]) + 1 \in Nat
      BY <1>3, CallType DEF EnterFails
    <2>2. answers' \in [Ranks -> Seq(Answer)]
      BY <1>3, <2>1, ReplyType, EmptyData DEF EnterFails
    <2>3. Entered(r, Len(calls[r]) + 1, FALSE) \in Session
      BY <2>1, EnteredType
    <2>4. session' \in [Ranks -> Session] /\ faults' \in 0 .. MaxFaults
      BY <1>3, <2>3, FaultType DEF EnterFails, TypeOK
    <2> QED
      BY <1>3, <2>1, <2>2, <2>4 DEF EnterFails, TypeOK
  <1>4. ASSUME NEW m \in up, exchange_request_cb(m)
        PROVE  TypeInv'
    <2> DEFINE p == parent_rank(m.from)
    <2>1. m \in Request /\ m.from \in Ranks /\ m.from # 0
      BY DEF TypeOK, Request
    <2>2. p \in Ranks
      BY <2>1, ParentInTree
    <2>3. Received(p, m) \in Session
      BY <2>1, <2>2, ReceivedType
    <2>4. session_process(p, Received(p, m), up \ {m}, down) /\ UNCHANGED calls
      BY <1>4 DEF exchange_request_cb
    <2>5. up \ {m} \in SUBSET Request /\ down \in SUBSET Response
      BY DEF TypeOK
    <2> HIDE DEF p
    <2> QED
      BY <2>2, <2>3, <2>4, <2>5, ProcessType DEF TypeOK
  <1>5. ASSUME NEW m \in up, RequestRefused(m)
        PROVE  TypeInv'
    <2> DEFINE p == parent_rank(m.from)
    <2>1. m \in Request /\ m.from \in Ranks /\ m.from # 0
      BY DEF TypeOK, Request
    <2>2. p \in Ranks
      BY <2>1, ParentInTree
    <2>3. session' \in [Ranks -> Session]
      BY <1>5, <2>2, OpenSessionType DEF RequestRefused, TypeOK
    <2>4. down' \subseteq Response /\ faults' \in 0 .. MaxFaults
      BY <1>5, <2>1, ErrorResponseType, FaultType DEF RequestRefused, TypeOK
    <2> QED
      BY <1>5, <2>3, <2>4 DEF RequestRefused, TypeOK
  <1>6. ASSUME NEW m \in up, RequestFails(m)
        PROVE  TypeInv'
    <2> DEFINE p == parent_rank(m.from)
    <2> DEFINE ses == [OpenSession(p) EXCEPT !.data_in = @ \o m.data]
    <2>1. m \in Request /\ m.from \in Ranks /\ m.from # 0
      BY DEF TypeOK, Request
    <2>2. p \in Ranks
      BY <2>1, ParentInTree
    <2>3. OpenSession(p) \in Session
      BY <2>2, OpenSessionType
    <2>4. OpenSession(p).data_in \o m.data \in Seq(Contributions)
      BY <2>1, <2>3 DEF Session, Request
    <2>5. ses \in Session
      BY <2>3, <2>4 DEF Session
    <2>6. \/ UNCHANGED session
          \/ session' = [session EXCEPT ![p] = OpenSession(p)]
          \/ session' = [session EXCEPT ![p] = ses]
      BY <1>6 DEF RequestFails
    <2> HIDE DEF ses
    <2>7. session' \in [Ranks -> Session]
      BY <2>3, <2>5, <2>6 DEF TypeOK
    <2>8. down' \in {down, down \cup {ErrorResponse(m)}} /\ faults' \in 0 .. MaxFaults
      BY <1>6, BoundsAssumption DEF RequestFails, FaultReported, Fault, TypeOK
    <2>9. down' \subseteq Response
      BY <2>1, <2>8, ErrorResponseType DEF TypeOK
    <2> QED
      BY <1>6, <2>7, <2>8, <2>9 DEF RequestFails, TypeOK
  <1>7. ASSUME NEW m \in down, exchange_response_completion(m)
        PROVE  TypeInv'
    <2> DEFINE r == m.to
    <2>1. m \in Response /\ r \in Ranks /\ m.data \in Seq(Contributions)
      BY DEF TypeOK, Response
    <2>2. session[r] \in Session
      BY <2>1 DEF TypeOK
    <2>3. down \ {m} \in SUBSET Response
      BY DEF TypeOK
    <2>4. UNCHANGED <<calls, gathers>>
      BY <1>7 DEF exchange_response_completion
    <2>5. CASE Complete(r, session[r], m.data, up, down \ {m})
      <3> HIDE DEF r
      <3> QED
        BY <2>1, <2>2, <2>3, <2>4, <2>5, CompleteType DEF TypeOK
    <2>6. CASE /\ NoFault \/ Fault("unpack")
               /\ Exit(r, session[r], "PMIX_ERROR", <<>>)
               /\ UNCHANGED up
               /\ down' = down \ {m}
      <3>1. session' \in [Ranks -> Session] /\ answers' \in [Ranks -> Seq(Answer)]
        BY <2>1, <2>2, <2>6, ExitType, EmptyData
      <3>2. faults' \in 0 .. MaxFaults
        BY <2>6, FaultType
      <3> QED
        BY <2>3, <2>4, <2>6, <3>1, <3>2 DEF TypeOK
    <2> QED
      BY <1>7, <2>5, <2>6 DEF exchange_response_completion
  <1>8. ASSUME NEW m \in down, DropResponse(m)
        PROVE  TypeInv'
    BY <1>8 DEF DropResponse, TypeOK
  <1>9. CASE UNCHANGED vars
    BY <1>9 DEF vars, TypeOK
  <1> QED
    BY <1>1, <1>2, <1>3, <1>4, <1>5, <1>6, <1>7, <1>8, <1>9
    DEF Next, RequestCb, ResponseCb, Finished

\* Every reachable state is well typed, in particular no request is sent to a
\* rank outside the job: a child's parent is always a shell of the tree.
THEOREM TypeCorrect == Spec => []TypeOK
  <1>1. TypeInv => TypeOK
    BY DEF TypeInv
  <1> QED
    BY <1>1, TypeInvInit, TypeInvNext, PTL DEF Spec

-----------------------------------------------------------------------------
(* Safety.                                                                 *)

\* The types of the arguments of Inv.
State(S, U, D, C, A, G) ==
    /\ S \in [Ranks -> Session]
    /\ U \in SUBSET Request
    /\ D \in SUBSET Response
    /\ C \in [Ranks -> Seq(BOOLEAN)]
    /\ A \in [Ranks -> Seq(Answer)]
    /\ G \in Seq(Gather)

-----------------------------------------------------------------------------
(* Sequences.                                                              *)

\* The elements of a sequence with one more at its end.
LEMMA ToSetAppend ==
  ASSUME NEW T, NEW q \in Seq(T), NEW x \in T
  PROVE  ToSet(Append(q, x)) = ToSet(q) \cup {x}
  <1>1. /\ Len(Append(q, x)) = Len(q) + 1
        /\ \A i \in 1 .. Len(q) : Append(q, x)[i] = q[i]
        /\ Append(q, x)[Len(q) + 1] = x
    OBVIOUS
  <1>2. DOMAIN q = 1 .. Len(q) /\ DOMAIN Append(q, x) = 1 .. Len(q) + 1 /\ Len(q) \in Nat
    OBVIOUS
  <1>3. \A i \in 1 .. Len(q) + 1 : i \in 1 .. Len(q) \/ i = Len(q) + 1
    BY <1>2
  <1>4. 1 .. Len(q) \subseteq 1 .. Len(q) + 1 /\ Len(q) + 1 \in 1 .. Len(q) + 1
    BY <1>2
  <1> QED
    BY <1>1, <1>2, <1>3, <1>4, Zenon DEF ToSet

\* The elements of two sequences put together.
LEMMA ToSetConcat ==
  ASSUME NEW T, NEW q \in Seq(T), NEW s \in Seq(T)
  PROVE  ToSet(q \o s) = ToSet(q) \cup ToSet(s)
  <1>1. /\ Len(q \o s) = Len(q) + Len(s)
        /\ \A i \in 1 .. Len(q) : (q \o s)[i] = q[i]
        /\ \A i \in 1 .. Len(s) : (q \o s)[Len(q) + i] = s[i]
    OBVIOUS
  <1>2. /\ DOMAIN q = 1 .. Len(q) /\ DOMAIN s = 1 .. Len(s)
        /\ DOMAIN (q \o s) = 1 .. Len(q) + Len(s)
        /\ Len(q) \in Nat /\ Len(s) \in Nat
    OBVIOUS
  <1>3. \A i \in 1 .. Len(q) + Len(s) :
            i \in 1 .. Len(q) \/ \E j \in 1 .. Len(s) : i = Len(q) + j
    <2> TAKE i \in 1 .. Len(q) + Len(s)
    <2>1. CASE i > Len(q)
      <3>1. i - Len(q) \in 1 .. Len(s) /\ i = Len(q) + (i - Len(q))
        BY <1>2, <2>1
      <3> QED
        BY <3>1
    <2> QED
      BY <1>2, <2>1
  <1>4. /\ 1 .. Len(q) \subseteq 1 .. Len(q) + Len(s)
        /\ \A j \in 1 .. Len(s) : Len(q) + j \in 1 .. Len(q) + Len(s)
    BY <1>2
  <1>5. ASSUME NEW x \in ToSet(q \o s)
        PROVE  x \in ToSet(q) \cup ToSet(s)
    <2>1. PICK i \in 1 .. Len(q) + Len(s) : x = (q \o s)[i]
      BY <1>2 DEF ToSet
    <2> QED
      BY <1>1, <1>2, <1>3, <2>1 DEF ToSet
  <1>6. ASSUME NEW x \in ToSet(q)
        PROVE  x \in ToSet(q \o s)
    BY <1>1, <1>2, <1>4 DEF ToSet
  <1>7. ASSUME NEW x \in ToSet(s)
        PROVE  x \in ToSet(q \o s)
    <2>1. PICK j \in 1 .. Len(s) : x = s[j]
      BY <1>2 DEF ToSet
    <2>2. Len(q) + j \in DOMAIN (q \o s) /\ (q \o s)[Len(q) + j] = x
      BY <1>1, <1>2, <1>4, <2>1
    <2> QED
      BY <2>2 DEF ToSet
  <1> QED
    BY <1>5, <1>6, <1>7

\* A new element appended to distinct ones leaves them distinct.
LEMMA InjectiveAppend ==
  ASSUME NEW T, NEW q \in Seq(T), NEW x \in T, IsInjective(q), x \notin ToSet(q)
  PROVE  IsInjective(Append(q, x))
  BY DEF IsInjective, ToSet

\* Two sequences of distinct elements with none in common stay distinct together.
LEMMA InjectiveConcat ==
  ASSUME NEW T, NEW q \in Seq(T), NEW s \in Seq(T),
         IsInjective(q), IsInjective(s), ToSet(q) \cap ToSet(s) = {}
  PROVE  IsInjective(q \o s)
  <1> SUFFICES ASSUME NEW i \in DOMAIN (q \o s), NEW j \in DOMAIN (q \o s),
                      (q \o s)[i] = (q \o s)[j]
               PROVE  i = j
    BY DEF IsInjective
  <1>1. i \in 1 .. Len(q) + Len(s) /\ j \in 1 .. Len(q) + Len(s)
    OBVIOUS
  <1>2. \A k \in 1 .. Len(q) : (q \o s)[k] = q[k] /\ q[k] \in ToSet(q)
    BY DEF ToSet
  <1>3. ASSUME NEW k \in 1 .. Len(q) + Len(s), k > Len(q)
        PROVE  /\ k - Len(q) \in 1 .. Len(s)
               /\ (q \o s)[k] = s[k - Len(q)]
               /\ s[k - Len(q)] \in ToSet(s)
    BY <1>3 DEF ToSet
  <1>4. CASE i <= Len(q) /\ j <= Len(q)
    BY <1>1, <1>2, <1>4 DEF IsInjective
  <1>5. CASE i > Len(q) /\ j > Len(q)
    BY <1>1, <1>3, <1>5 DEF IsInjective
  <1>6. CASE i <= Len(q) /\ j > Len(q)
    BY <1>1, <1>2, <1>3, <1>6
  <1>7. CASE i > Len(q) /\ j <= Len(q)
    BY <1>1, <1>2, <1>3, <1>7
  <1> QED
    BY <1>1, <1>4, <1>5, <1>6, <1>7

\* A contribution names the rank that made it.
LEMMA ContributionRank ==
  ASSUME NEW q \in Seq(Contributions), NEW y \in ToSet(q)
  PROVE  y \in Contributions /\ y[1] \in Ranks
  <1>1. PICK i \in DOMAIN q : y = q[i]
    BY DEF ToSet
  <1>2. q[i] \in Contributions
    OBVIOUS
  <1> QED
    BY <1>1, <1>2 DEF Contributions

\* The empty sequence has no elements, and none twice.
LEMMA ToSetEmpty == ToSet(<<>>) = {} /\ IsInjective(<<>>)
  BY DEF ToSet, IsInjective

-----------------------------------------------------------------------------
(* The changes a handler makes.                                            *)

\* The messages and the held requests name shells of the job.
LEMMA FromType ==
  ASSUME NEW S, NEW U, NEW D, NEW C, NEW A, NEW G, State(S, U, D, C, A, G)
  PROVE  /\ \A m \in U : m.from \in Ranks
         /\ \A m \in D : m.to \in Ranks
         /\ \A p \in Ranks : S[p] \in Session /\ S[p].requests \in Seq(Route)
         /\ \A p \in Ranks : \A i \in DOMAIN S[p].requests : S[p].requests[i].from \in Ranks
         /\ \A p \in Ranks : \A c \in Held(S, p) : c \in Ranks
  <1>1. \A m \in U : m.from \in Ranks
    BY DEF State, Request
  <1>2. \A m \in D : m.to \in Ranks
    BY DEF State, Response
  <1>3. \A p \in Ranks : S[p] \in Session /\ S[p].requests \in Seq(Route)
    BY DEF State, Session
  <1>4. \A p \in Ranks : \A i \in DOMAIN S[p].requests : S[p].requests[i] \in Route
    BY <1>3
  <1>5. \A p \in Ranks : \A i \in DOMAIN S[p].requests : S[p].requests[i].from \in Ranks
    BY <1>4 DEF Route
  <1> QED
    BY <1>1, <1>2, <1>3, <1>5 DEF Held

\* No request of shell r is on its way, held or answered.
Free(S, U, D, r) == /\ \A m \in U : m.from # r
                    /\ \A p \in Ranks : r \notin Held(S, p)
                    /\ \A n \in D : n.to # r

\* A shell that waits for nothing has no request anywhere.
LEMMA NotWaitingIsFree ==
  ASSUME NEW S, NEW U, NEW D, NEW G, UpInv(S, U), HeldInv(S), DownInv(S, D, G),
         NEW r \in Ranks, ~S[r].f
  PROVE  Free(S, U, D, r)
  BY DEF Free, UpInv, HeldInv, DownInv, Held

\* The call is entered in the session.
LEMMA EnterStep ==
  ASSUME NEW S, NEW U, NEW D, NEW C, NEW A, NEW G,
         State(S, U, D, C, A, G), Inv(S, U, D, C, A, G),
         NEW r \in Ranks, ~S[r].local, NEW collect \in BOOLEAN,
         NEW n, n = Len(C[r]) + 1,
         NEW ses \in Session, ses.open, ses.local, ses.arg = n, ~ses.f,
         ses.requests = S[r].requests,
         ses.data_in = IF collect THEN Append(S[r].data_in, <<r, n>>) ELSE S[r].data_in
  PROVE  Inv([S EXCEPT ![r] = ses], U, D, [C EXCEPT ![r] = Append(@, collect)], A, G)
  <1> DEFINE T == [S EXCEPT ![r] = ses]
  <1> DEFINE B == [C EXCEPT ![r] = Append(@, collect)]
  <1>1. T \in [Ranks -> Session] /\ T[r] = ses /\ \A x \in Ranks \ {r} : T[x] = S[x]
    BY DEF State
  <1>2. /\ \A x \in Ranks \ {r} : B[x] = C[x]
        /\ n \in Nat
        /\ DOMAIN C[r] = 1 .. n - 1
        /\ DOMAIN B[r] = 1 .. n
        /\ B[r][n] = collect
        /\ \A k \in DOMAIN C[r] : B[r][k] = C[r][k]
    BY DEF State
  <1>3. /\ SessionInv(S, C, A) /\ UpInv(S, U) /\ HeldInv(S) /\ DownInv(S, D, G)
        /\ OnePlaceInv(S, U, D) /\ DataInv(S, C) /\ RelayInv(S, G)
        /\ GatherInv(C, G) /\ AnswerInv(C, A, G)
    BY DEF Inv
  <1>4. ~S[r].f
    BY <1>3 DEF SessionInv
  <1>5. Free(S, U, D, r)
    BY <1>3, <1>4, NotWaitingIsFree
  <1>6. \A p \in Ranks : T[p].requests = S[p].requests
    BY <1>1
  <1>7. \A p \in Ranks : Held(T, p) = Held(S, p)
    BY <1>6 DEF Held
  <1>8. \A x \in Ranks : DOMAIN C[x] \subseteq DOMAIN B[x]
                         /\ \A k \in DOMAIN C[x] : B[x][k] = C[x][k]
    BY <1>2
  <1>9. \A x \in Ranks : T[x].f = S[x].f
    BY <1>1, <1>4 DEF State, Session
  <1> HIDE DEF T, B
  <1>10. \A m \in U : m.from \in Ranks
    BY DEF State, Request
  <1>11. \A m \in D : m.to \in Ranks
    BY DEF State, Response
  <1>12. \A p \in Ranks : \A i \in DOMAIN S[p].requests : S[p].requests[i].from \in Ranks
    BY FromType
  <1>13. SessionInv(T, B, A)
    <2>1. n \notin AnsweredIn(A, r)
      BY <1>2, <1>3 DEF AnswerInv, AnsweredIn
    <2> QED
      BY <1>1, <1>2, <1>3, <1>4, <2>1 DEF SessionInv
  <1>14. UpInv(T, U)
    BY <1>1, <1>3, <1>5, <1>10 DEF UpInv, Free
  <1>15. HeldInv(T)
    BY <1>1, <1>3, <1>5, <1>6, <1>12 DEF HeldInv, Free, Held
  <1>16. DownInv(T, D, G)
    BY <1>1, <1>3, <1>5, <1>11 DEF DownInv, Free
  <1>17. OnePlaceInv(T, U, D)
    BY <1>3, <1>7 DEF OnePlaceInv
  <1>18. RelayInv(T, G)
    <2>1. \A i \in DOMAIN G : G[i].calls[r] # n
      BY <1>2, <1>3 DEF GatherInv
    <2> QED
      BY <1>1, <1>3, <1>9, <2>1 DEF RelayInv
  <1>19. GatherInv(B, G)
    <2> SUFFICES ASSUME NEW i \in DOMAIN G
                 PROVE  /\ \A x \in Ranks : G[i].calls[x] \in DOMAIN B[x]
                        /\ ToSet(G[i].data) = {<<x, G[i].calls[x]>> :
                               x \in {t \in Ranks : B[t][G[i].calls[t]]}}
                        /\ IsInjective(G[i].data)
      BY DEF GatherInv
    <2>1. /\ \A x \in Ranks : G[i].calls[x] \in DOMAIN C[x]
          /\ ToSet(G[i].data) = {<<x, G[i].calls[x]>> :
                               x \in {t \in Ranks : C[t][G[i].calls[t]]}}
          /\ IsInjective(G[i].data)
      BY <1>3 DEF GatherInv
    <2>2. \A x \in Ranks : B[x][G[i].calls[x]] = C[x][G[i].calls[x]]
      BY <1>8, <2>1
    <2>3. {t \in Ranks : B[t][G[i].calls[t]]} = {t \in Ranks : C[t][G[i].calls[t]]}
      BY <2>2
    <2> QED
      BY <1>8, <2>1, <2>3
  <1>20. AnswerInv(B, A, G)
    BY <1>3, <1>8 DEF AnswerInv
  <1>21. DataInv(T, B)
    <2>1. ASSUME NEW x \in Ranks
          PROVE  \A c \in Held(S, x) : c \in Ranks /\ c # r /\ T[c].data_in = S[c].data_in
      BY <1>1, <1>5, <1>12 DEF Free, Held
    <2>2. \A x \in Ranks : {ToSet(T[c].data_in) : c \in Held(T, x)}
                              = {ToSet(S[c].data_in) : c \in Held(S, x)}
      BY <1>7, <2>1
    <2>3. ASSUME NEW x \in Ranks, x # r
          PROVE  /\ T[x] = S[x]
                 /\ Own(T, B, x) = Own(S, C, x)
      BY <1>1, <1>2, <2>3 DEF Own
    <2>4. Own(S, C, r) = {} /\ Own(T, B, r) = IF collect THEN {<<r, n>>} ELSE {}
      BY <1>1, <1>2 DEF Own
    <2>5. S[r].data_in \in Seq(Contributions) /\ <<r, n>> \in Contributions
      BY <1>2 DEF State, Session, Contributions
    <2>6. ToSet(ses.data_in) = ToSet(S[r].data_in) \cup Own(T, B, r)
      BY <2>4, <2>5, ToSetAppend
    <2>7. \A x \in ToSet(S[r].data_in) : r \in Ancestors(x[1])
      BY <1>3 DEF DataInv
    <2>8. <<r, n>> \notin ToSet(S[r].data_in)
      <3>1. SUFFICES ASSUME <<r, n>> \in ToSet(S[r].data_in) PROVE FALSE
        OBVIOUS
      <3>2. PICK c \in Held(S, r) : <<r, n>> \in ToSet(S[c].data_in)
        BY <1>3, <2>4, <3>1 DEF DataInv
      <3>3. c \in Ranks /\ c # 0 /\ parent_rank(c) = r
        BY <1>3, <1>12, <3>2 DEF HeldInv, Held
      <3>4. c \in Ancestors(r)
        BY <1>3, <3>2, <3>3 DEF DataInv
      <3> QED
        BY <3>3, <3>4, AncestorSmaller, ParentInTree DEF Ranks
    <2>9. IsInjective(ses.data_in)
      BY <1>3, <2>5, <2>8, InjectiveAppend DEF DataInv
    <2>10. \A x \in ToSet(ses.data_in) : r \in Ancestors(x[1])
      BY <2>4, <2>6, <2>7, AncestorSelf
    <2>11. ASSUME NEW x \in Ranks
           PROVE  /\ ToSet(T[x].data_in) =
                        Own(T, B, x) \cup UNION {ToSet(T[c].data_in) : c \in Held(T, x)}
                  /\ \A y \in ToSet(T[x].data_in) : x \in Ancestors(y[1])
                  /\ IsInjective(T[x].data_in)
      <3>1. /\ ToSet(S[x].data_in) =
                  Own(S, C, x) \cup UNION {ToSet(S[c].data_in) : c \in Held(S, x)}
            /\ \A y \in ToSet(S[x].data_in) : x \in Ancestors(y[1])
            /\ IsInjective(S[x].data_in)
        BY <1>3 DEF DataInv
      <3>2. CASE x = r
        BY <1>1, <2>2, <2>4, <2>6, <2>9, <2>10, <3>1, <3>2
      <3>3. CASE x # r
        BY <2>2, <2>3, <3>1, <3>3
      <3> QED
        BY <3>2, <3>3
    <2> QED
      BY <2>11 DEF DataInv
  <1> QED
    BY <1>13, <1>14, <1>15, <1>16, <1>17, <1>18, <1>19, <1>20, <1>21 DEF Inv, T, B

\* A request is taken from those in flight into the parent's session.
LEMMA ReceiveStep ==
  ASSUME NEW S, NEW U, NEW D, NEW C, NEW A, NEW G,
         State(S, U, D, C, A, G), Inv(S, U, D, C, A, G),
         NEW m \in U, NEW p, p = parent_rank(m.from),
         NEW ses \in Session, ses.open, ses.local = S[p].local, ses.arg = S[p].arg,
         ses.f = S[p].f, Len(S[p].requests) # child_count(K, p, Size),
         ses.requests = Append(S[p].requests, RouteOf(m)),
         ses.data_in = S[p].data_in \o m.data
  PROVE  Inv([S EXCEPT ![p] = ses], U \ {m}, D, C, A, G)
  <1> DEFINE T == [S EXCEPT ![p] = ses]
  <1> DEFINE V == U \ {m}
  <1> DEFINE c == m.from
  <1>1. /\ SessionInv(S, C, A) /\ UpInv(S, U) /\ HeldInv(S) /\ DownInv(S, D, G)
        /\ OnePlaceInv(S, U, D) /\ DataInv(S, C) /\ RelayInv(S, G)
        /\ GatherInv(C, G) /\ AnswerInv(C, A, G)
    BY DEF Inv
  <1>2. /\ c \in Ranks /\ c # 0 /\ p = parent_rank(c) /\ p \in Ranks /\ p < c
        /\ S[c].f /\ m.tag = S[c].arg /\ m.data = S[c].data_in
        /\ m \in Request
    BY <1>1, FromType, ParentInTree DEF UpInv, State
  <1>3. T \in [Ranks -> Session] /\ T[p] = ses /\ \A x \in Ranks \ {p} : T[x] = S[x]
    BY <1>2 DEF State
  <1>4. \A x \in Ranks : T[x].f = S[x].f /\ T[x].arg = S[x].arg /\ T[x].local = S[x].local
    BY <1>3
  <1>5. ~S[p].f
    BY <1>1, <1>2 DEF SessionInv
  <1>6. Free(S, U, D, p)
    BY <1>1, <1>2, <1>5, NotWaitingIsFree
  <1>7. /\ S[p].requests \in Seq(Route) /\ RouteOf(m) \in Route
        /\ RouteOf(m).from = c /\ RouteOf(m).tag = m.tag
    BY <1>2, FromType, RouteOfType DEF RouteOf
  <1> DEFINE L == Len(S[p].requests)
  <1>8. /\ L \in Nat
        /\ DOMAIN S[p].requests = 1 .. L
        /\ DOMAIN T[p].requests = 1 .. L + 1
        /\ T[p].requests[L + 1] = RouteOf(m)
        /\ \A i \in 1 .. L : T[p].requests[i] = S[p].requests[i]
    BY <1>3, <1>7
  <1>9. c \notin Held(S, p)
    BY <1>1, <1>2 DEF OnePlaceInv
  <1> HIDE DEF T, L
  <1>10. \A i \in 1 .. L + 1 : i \in 1 .. L \/ i = L + 1
    BY <1>8
  <1>11. Held(T, p) = Held(S, p) \cup {c}
    <2>1. \A i \in 1 .. L : T[p].requests[i].from = S[p].requests[i].from
      BY <1>8
    <2>2. T[p].requests[L + 1].from = c
      BY <1>7, <1>8
    <2>3. 1 .. L \subseteq 1 .. L + 1 /\ L + 1 \in 1 .. L + 1
      BY <1>8
    <2>4. ASSUME NEW y \in Held(T, p) PROVE y \in Held(S, p) \cup {c}
      <3>1. PICK i \in 1 .. L + 1 : y = T[p].requests[i].from
        BY <1>8 DEF Held
      <3>2. CASE i \in 1 .. L
        BY <1>8, <2>1, <3>1, <3>2 DEF Held
      <3> QED
        BY <1>10, <2>2, <3>1, <3>2
    <2>5. \A y \in Held(S, p) : y \in Held(T, p)
      BY <1>8, <2>1, <2>3 DEF Held
    <2>6. c \in Held(T, p)
      BY <1>8, <2>2, <2>3 DEF Held
    <2> QED
      BY <2>4, <2>5, <2>6
  <1>12. \A x \in Ranks \ {p} : Held(T, x) = Held(S, x)
    BY <1>3 DEF Held
  <1>13. SessionInv(T, C, A)
    BY <1>1, <1>2, <1>3, <1>4, <1>5 DEF SessionInv
  <1>14. UpInv(T, V)
    BY <1>1, <1>3, <1>6, FromType DEF UpInv, Free
  <1>15. HeldInv(T)
    <2>1. ASSUME NEW x \in Ranks, NEW i \in DOMAIN T[x].requests
          PROVE  LET q == T[x].requests[i]
                 IN  /\ q.from # 0
                     /\ parent_rank(q.from) = x
                     /\ T[q.from].f
                     /\ q.tag = T[q.from].arg
      <3>1. CASE x = p /\ i = L + 1
        BY <1>2, <1>4, <1>7, <1>8, <3>1
      <3>2. CASE ~(x = p /\ i = L + 1)
        <4>1. i \in DOMAIN S[x].requests /\ T[x].requests[i] = S[x].requests[i]
          BY <1>3, <1>8, <1>10, <2>1, <3>2
        <4>2. S[x].requests[i].from \in Ranks
          BY <4>1, FromType
        <4> QED
          BY <1>1, <1>4, <4>1, <4>2 DEF HeldInv
      <3> QED
        BY <3>1, <3>2
    <2>2. ASSUME NEW x \in Ranks, NEW i \in DOMAIN T[x].requests,
                 NEW j \in DOMAIN T[x].requests,
                 T[x].requests[i].from = T[x].requests[j].from
          PROVE  i = j
      <3>1. CASE x # p
        BY <1>1, <1>3, <2>2, <3>1 DEF HeldInv
      <3>2. CASE x = p
        <4>1. \A k \in 1 .. L : T[p].requests[k].from # c
          BY <1>8, <1>9 DEF Held
        <4>2. T[p].requests[L + 1].from = c
          BY <1>7, <1>8
        <4>3. CASE i \in 1 .. L /\ j \in 1 .. L
          <5>1. S[p].requests[i].from = S[p].requests[j].from
            BY <1>8, <2>2, <3>2, <4>3
          <5>2. i \in DOMAIN S[p].requests /\ j \in DOMAIN S[p].requests
            BY <1>8, <4>3
          <5> QED
            BY <1>1, <1>2, <5>1, <5>2 DEF HeldInv
        <4>4. (i \in 1 .. L \/ i = L + 1) /\ (j \in 1 .. L \/ j = L + 1)
          BY <1>8, <1>10, <3>2
        <4>5. T[p].requests[i].from = T[p].requests[j].from
          BY <2>2, <3>2
        <4> HIDE DEF c
        <4> QED
          BY <4>1, <4>2, <4>3, <4>4, <4>5
      <3> QED
        BY <3>1, <3>2
    <2> QED
      BY <2>1, <2>2 DEF HeldInv
  <1>16. DownInv(T, D, G)
    BY <1>1, <1>4, FromType DEF DownInv
  <1>17. OnePlaceInv(T, V, D)
    <2>1. \A n \in V : n.from # c
      <3>1. \A n \in U : n.from = c => n = m
        <4>1. \A n \in U : n.from = c => n.tag = m.tag /\ n.data = m.data
          BY <1>1 DEF UpInv
        <4>2. \A n \in U : n = [from |-> n.from, tag |-> n.tag, data |-> n.data]
          BY DEF State, Request
        <4> QED
          BY <4>1, <4>2
      <3> QED
        BY <3>1
    <2>2. \A n \in D : n.to # c
      BY <1>1 DEF OnePlaceInv
    <2> HIDE DEF c
    <2> QED
      BY <1>1, <1>11, <1>12, <2>1, <2>2 DEF OnePlaceInv
  <1>18. RelayInv(T, G)
    BY <1>1, <1>3, <1>4, <1>5 DEF RelayInv
  <1>19. DataInv(T, C)
    <2>1. ASSUME NEW x \in Ranks
          PROVE  \A d \in Held(S, x) : d \in Ranks /\ d # p /\ T[d].data_in = S[d].data_in
      BY <1>2, <1>3, <1>6, FromType DEF Free
    <2>2. T[c].data_in = S[c].data_in
      BY <1>2, <1>3 DEF Ranks
    <2>3. \A x \in Ranks : Own(T, C, x) = Own(S, C, x)
      BY <1>4 DEF Own
    <2>4. S[p].data_in \in Seq(Contributions) /\ S[c].data_in \in Seq(Contributions)
      BY <1>2 DEF State, Session
    <2>5. T[p].data_in = S[p].data_in \o S[c].data_in
      BY <1>2, <1>3
    <2>6. ToSet(T[p].data_in) = ToSet(S[p].data_in) \cup ToSet(S[c].data_in)
      BY <2>4, <2>5, ToSetConcat
    <2>7. /\ \A y \in ToSet(S[p].data_in) : p \in Ancestors(y[1]) /\ y[1] \in Ranks
          /\ \A y \in ToSet(S[c].data_in) : c \in Ancestors(y[1]) /\ y[1] \in Ranks
      BY <1>1, <1>2, <2>4, ContributionRank DEF DataInv
    <2>8. \A y \in ToSet(S[c].data_in) : p \in Ancestors(y[1])
      BY <1>2, <2>7, AncestorParent
    <2>9. ToSet(S[p].data_in) \cap ToSet(S[c].data_in) = {}
      <3>1. SUFFICES ASSUME NEW y \in ToSet(S[p].data_in), y \in ToSet(S[c].data_in)
                     PROVE  FALSE
        OBVIOUS
      <3>2. y[1] \in Ranks /\ c \in Ancestors(y[1])
        BY <2>7, <3>1
      <3>3. CASE y \in Own(S, C, p)
        <4>1. y[1] = p
          BY <3>3 DEF Own
        <4> QED
          BY <1>2, <3>2, <4>1, AncestorSmaller DEF Ranks
      <3>4. CASE \E d \in Held(S, p) : y \in ToSet(S[d].data_in)
        <4>1. PICK d \in Held(S, p) : y \in ToSet(S[d].data_in)
          BY <3>4
        <4>2. d \in Ranks /\ d # 0 /\ parent_rank(d) = p
          BY <1>1, <1>2, <4>1, FromType DEF HeldInv, Held
        <4>3. d \in Ancestors(y[1])
          BY <1>1, <4>1, <4>2 DEF DataInv
        <4>4. d = c
          BY <1>2, <3>2, <4>2, <4>3, OneChildOnPath
        <4> QED
          BY <1>9, <4>1, <4>4
      <3>5. ToSet(S[p].data_in) =
                Own(S, C, p) \cup UNION {ToSet(S[d].data_in) : d \in Held(S, p)}
        BY <1>1, <1>2 DEF DataInv
      <3> QED
        BY <3>1, <3>3, <3>4, <3>5
    <2>10. IsInjective(T[p].data_in)
      <3>1. IsInjective(S[p].data_in) /\ IsInjective(S[c].data_in)
        BY <1>1, <1>2 DEF DataInv
      <3> QED
        BY <2>4, <2>5, <2>9, <3>1, InjectiveConcat
    <2> HIDE DEF c
    <2>11. ASSUME NEW x \in Ranks
           PROVE  /\ ToSet(T[x].data_in) =
                        Own(T, C, x) \cup UNION {ToSet(T[d].data_in) : d \in Held(T, x)}
                  /\ \A y \in ToSet(T[x].data_in) : x \in Ancestors(y[1])
                  /\ IsInjective(T[x].data_in)
      <3>1. /\ ToSet(S[x].data_in) =
                  Own(S, C, x) \cup UNION {ToSet(S[d].data_in) : d \in Held(S, x)}
            /\ \A y \in ToSet(S[x].data_in) : x \in Ancestors(y[1])
            /\ IsInjective(S[x].data_in)
        BY <1>1 DEF DataInv
      <3>2. CASE x = p
        <4>1. UNION {ToSet(T[d].data_in) : d \in Held(T, p)} =
                  (UNION {ToSet(S[d].data_in) : d \in Held(S, p)}) \cup ToSet(S[c].data_in)
          BY <1>11, <2>1, <2>2, <3>2
        <4> QED
          BY <2>3, <2>6, <2>7, <2>8, <2>10, <3>1, <3>2, <4>1
      <3>3. CASE x # p
        <4>1. {ToSet(T[d].data_in) : d \in Held(T, x)} = {ToSet(S[d].data_in) : d \in Held(S, x)}
          BY <1>12, <2>1, <3>3
        <4> QED
          BY <1>3, <2>3, <3>1, <3>3, <4>1
      <3> QED
        BY <3>2, <3>3
    <2> QED
      BY <2>11 DEF DataInv
  <1> QED
    BY <1>1, <1>13, <1>14, <1>15, <1>16, <1>17, <1>18, <1>19 DEF Inv, T

\* An empty session is created.
LEMMA OpenStep ==
  ASSUME NEW S, NEW U, NEW D, NEW C, NEW A, NEW G,
         State(S, U, D, C, A, G), Inv(S, U, D, C, A, G),
         NEW p \in Ranks, ~S[p].open
  PROVE  Inv([S EXCEPT ![p] = session_create], U, D, C, A, G)
  <1> DEFINE T == [S EXCEPT ![p] = session_create]
  <1>1. /\ SessionInv(S, C, A) /\ UpInv(S, U) /\ HeldInv(S) /\ DownInv(S, D, G)
        /\ OnePlaceInv(S, U, D) /\ DataInv(S, C) /\ RelayInv(S, G)
        /\ GatherInv(C, G) /\ AnswerInv(C, A, G)
    BY DEF Inv
  <1>2. S[p] = NoSession
    BY <1>1 DEF SessionInv
  <1>3. T[p].open /\ \A x \in Ranks \ {p} : T[x].open = S[x].open /\ T[x] = S[x]
    BY DEF State, session_create
  <1>4. \A x \in Ranks : /\ T[x].f = S[x].f /\ T[x].arg = S[x].arg
                         /\ T[x].local = S[x].local /\ T[x].requests = S[x].requests
                         /\ T[x].data_in = S[x].data_in
    <2>1. T[p] = session_create
      BY DEF State
    <2>2. /\ session_create.f = NoSession.f /\ session_create.arg = NoSession.arg
          /\ session_create.local = NoSession.local
          /\ session_create.requests = NoSession.requests
          /\ session_create.data_in = NoSession.data_in
      BY DEF session_create, NoSession
    <2> HIDE DEF T
    <2> QED
      BY <1>2, <1>3, <2>1, <2>2
  <1> HIDE DEF T
  <1>5. \A x \in Ranks : Held(T, x) = Held(S, x) /\ Own(T, C, x) = Own(S, C, x)
    BY <1>4 DEF Held, Own
  <1>6. SessionInv(T, C, A)
    BY <1>1, <1>3, <1>4 DEF SessionInv
  <1>7. UpInv(T, U)
    BY <1>1, <1>4, FromType DEF UpInv
  <1>8. HeldInv(T)
    <2>1. ASSUME NEW x \in Ranks, NEW i \in DOMAIN S[x].requests
          PROVE  LET q == S[x].requests[i]
                 IN  /\ q.from # 0
                     /\ parent_rank(q.from) = x
                     /\ T[q.from].f
                     /\ q.tag = T[q.from].arg
      <3> DEFINE q == S[x].requests[i]
      <3>1. q.from \in Ranks
        BY FromType
      <3>2. q.from # 0 /\ parent_rank(q.from) = x /\ S[q.from].f /\ q.tag = S[q.from].arg
        BY <1>1 DEF HeldInv
      <3> HIDE DEF q
      <3>3. T[q.from].f = S[q.from].f /\ T[q.from].arg = S[q.from].arg
        BY <1>4, <3>1
      <3> QED
        BY <3>2, <3>3 DEF q
    <2>2. ASSUME NEW x \in Ranks
          PROVE  \A i, j \in DOMAIN S[x].requests :
                     S[x].requests[i].from = S[x].requests[j].from => i = j
      BY <1>1 DEF HeldInv
    <2>3. \A x \in Ranks : T[x].requests = S[x].requests
      BY <1>4
    <2> QED
      BY <2>1, <2>2, <2>3 DEF HeldInv
  <1>9. DownInv(T, D, G)
    BY <1>1, <1>4, FromType DEF DownInv
  <1>10. OnePlaceInv(T, U, D)
    BY <1>1, <1>5 DEF OnePlaceInv
  <1>11. RelayInv(T, G)
    BY <1>1, <1>4 DEF RelayInv
  <1>12. DataInv(T, C)
    <2>1. \A x \in Ranks : {ToSet(T[d].data_in) : d \in Held(T, x)}
                              = {ToSet(S[d].data_in) : d \in Held(S, x)}
      BY <1>4, <1>5, FromType
    <2> QED
      BY <1>1, <1>4, <1>5, <2>1 DEF DataInv
  <1> QED
    BY <1>1, <1>6, <1>7, <1>8, <1>9, <1>10, <1>11, <1>12 DEF Inv, T

\* Messages in flight are taken out.
LEMMA RemoveStep ==
  ASSUME NEW S, NEW U, NEW D, NEW C, NEW A, NEW G, Inv(S, U, D, C, A, G),
         NEW V \in SUBSET U, NEW E \in SUBSET D
  PROVE  Inv(S, V, E, C, A, G)
  BY DEF Inv, UpInv, DownInv, OnePlaceInv

\* A request in flight is refused: an error response takes its place.
LEMMA RefuseStep ==
  ASSUME NEW S, NEW U, NEW D, NEW C, NEW A, NEW G,
         State(S, U, D, C, A, G), Inv(S, U, D, C, A, G), NEW m \in U
  PROVE  Inv(S, U \ {m}, D \cup {ErrorResponse(m)}, C, A, G)
  <1> DEFINE e == ErrorResponse(m)
  <1>1. UpInv(S, U) /\ DownInv(S, D, G) /\ OnePlaceInv(S, U, D)
    BY DEF Inv
  <1>2. e.to = m.from /\ e.tag = m.tag /\ ~e.ok
    BY DEF ErrorResponse
  <1>3. UpInv(S, U \ {m}) /\ DownInv(S, D \cup {e}, G)
    <2> HIDE DEF e
    <2> QED
      BY <1>1, <1>2 DEF UpInv, DownInv
  <1>4. \A n \in U \ {m} : n.from # m.from
    <2>1. \A n \in U : n.from = m.from => n.tag = m.tag /\ n.data = m.data
      BY <1>1 DEF UpInv
    <2>2. \A n \in U : n = [from |-> n.from, tag |-> n.tag, data |-> n.data]
      BY DEF State, Request
    <2> QED
      BY <2>1, <2>2
  <1>5. OnePlaceInv(S, U \ {m}, D \cup {e})
    <2> HIDE DEF e
    <2> QED
      BY <1>1, <1>2, <1>4 DEF OnePlaceInv
  <1> QED
    BY <1>3, <1>5 DEF Inv

\* The requests a shell holds are from all its children when there are as many.
LEMMA ReadyHoldsAll ==
  ASSUME NEW S, NEW U, NEW D, NEW C, NEW A, NEW G,
         State(S, U, D, C, A, G), HeldInv(S),
         NEW r \in Ranks, Len(S[r].requests) >= child_count(K, r, Size)
  PROVE  /\ Held(S, r) = Children(r)
         /\ Len(S[r].requests) = child_count(K, r, Size)
  <1> DEFINE q == S[r].requests
  <1>1. q \in Seq(Route) /\ \A i \in DOMAIN q : q[i].from \in Ranks
    BY FromType
  <1>2. \A i \in DOMAIN q : q[i].from \in Children(r)
    BY <1>1 DEF HeldInv, Children
  <1>3. \A i, j \in DOMAIN q : q[i].from = q[j].from => i = j
    BY DEF HeldInv
  <1> HIDE DEF q
  <1>4. Len(q) >= child_count(K, r, Size)
    BY DEF q
  <1>5. /\ \A c \in Children(r) : \E i \in DOMAIN q : q[i].from = c
        /\ Len(q) = child_count(K, r, Size)
    BY <1>1, <1>2, <1>3, <1>4, HoldsAllChildren
  <1>6. {q[i].from : i \in DOMAIN q} = Children(r)
    BY <1>2, <1>5
  <1> QED
    BY <1>5, <1>6 DEF Held, q

\* The request to the parent is sent.
LEMMA SendStep ==
  ASSUME NEW S, NEW U, NEW D, NEW C, NEW A, NEW G,
         State(S, U, D, C, A, G), Inv(S, U, D, C, A, G),
         NEW r \in Ranks, r # 0, S[r].local, ~S[r].f,
         Len(S[r].requests) >= child_count(K, r, Size),
         NEW ses \in Session, ses.open = S[r].open, ses.f, ses.local, ses.arg = S[r].arg,
         ses.requests = S[r].requests, ses.data_in = S[r].data_in
  PROVE  Inv([S EXCEPT ![r] = ses],
             U \cup {[from |-> r, tag |-> S[r].arg, data |-> S[r].data_in]}, D, C, A, G)
  <1> DEFINE T == [S EXCEPT ![r] = ses]
  <1> DEFINE m == [from |-> r, tag |-> S[r].arg, data |-> S[r].data_in]
  <1>1. /\ SessionInv(S, C, A) /\ UpInv(S, U) /\ HeldInv(S) /\ DownInv(S, D, G)
        /\ OnePlaceInv(S, U, D) /\ DataInv(S, C) /\ RelayInv(S, G)
        /\ GatherInv(C, G) /\ AnswerInv(C, A, G)
    BY DEF Inv
  <1>2. T[r] = ses /\ \A x \in Ranks \ {r} : T[x] = S[x]
    BY DEF State
  <1>3. \A x \in Ranks : /\ T[x].open = S[x].open /\ T[x].arg = S[x].arg
                         /\ T[x].local = S[x].local /\ T[x].requests = S[x].requests
                         /\ T[x].data_in = S[x].data_in
    BY <1>2, FromType DEF Session
  <1>4. T[r].f /\ \A x \in Ranks : S[x].f => T[x].f
    BY <1>2
  <1>5. m.from = r /\ m.tag = S[r].arg /\ m.data = S[r].data_in
    OBVIOUS
  <1>6. Free(S, U, D, r)
    BY <1>1, NotWaitingIsFree
  <1>7. Len(S[r].requests) = child_count(K, r, Size)
    BY <1>1, ReadyHoldsAll
  <1> HIDE DEF T, m
  <1>8. \A x \in Ranks : Held(T, x) = Held(S, x) /\ Own(T, C, x) = Own(S, C, x)
    BY <1>3 DEF Held, Own
  <1>9. SessionInv(T, C, A)
    <2>1. S[r].open
      BY <1>1 DEF SessionInv, NoSession
    <2> QED
      BY <1>1, <1>2, <1>3, <1>7, <2>1 DEF SessionInv
  <1>10. UpInv(T, U \cup {m})
    BY <1>1, <1>3, <1>4, <1>5, FromType DEF UpInv
  <1>11. HeldInv(T)
    BY <1>1, <1>3, <1>4, FromType DEF HeldInv
  <1>12. DownInv(T, D, G)
    BY <1>1, <1>3, <1>4, FromType DEF DownInv
  <1>13. OnePlaceInv(T, U \cup {m}, D)
    BY <1>1, <1>5, <1>6, <1>8 DEF OnePlaceInv, Free
  <1>14. RelayInv(T, G)
    <2>1. G # <<>> => Last(G).calls[r] # S[r].arg
      <3>1. G # <<>> => Len(G) \in DOMAIN G
        BY DEF State
      <3> QED
        BY <1>1, <3>1 DEF RelayInv, Last
    <2> QED
      BY <1>1, <1>2, <1>3, <1>4, <2>1 DEF RelayInv
  <1>15. DataInv(T, C)
    <2>1. \A x \in Ranks : {ToSet(T[d].data_in) : d \in Held(T, x)}
                              = {ToSet(S[d].data_in) : d \in Held(S, x)}
      BY <1>3, <1>8, FromType
    <2> QED
      BY <1>1, <1>3, <1>8, <2>1 DEF DataInv
  <1> QED
    BY <1>1, <1>9, <1>10, <1>11, <1>12, <1>13, <1>14, <1>15 DEF Inv, T, m

\* The root has been entered and holds as many requests as it has children.
RootReady(S) == S[0].local /\ Len(S[0].requests) >= child_count(K, 0, Size)

\* When the root is ready, every other shell waits with its request held by its
\* parent: no message is in flight.
LEMMA AllWaiting ==
  ASSUME NEW S, NEW U, NEW D, NEW C, NEW A, NEW G,
         State(S, U, D, C, A, G), Inv(S, U, D, C, A, G), RootReady(S)
  PROVE  /\ \A c \in Ranks \ {0} : S[c].f /\ c \in Held(S, parent_rank(c))
         /\ U = {}
         /\ D = {}
  <1> DEFINE Good(c) == S[c].f /\ c \in Held(S, parent_rank(c))
  <1> DEFINE T == {c \in Ranks \ {0} : ~Good(c)}
  <1>1. SessionInv(S, C, A) /\ UpInv(S, U) /\ HeldInv(S) /\ DownInv(S, D, G)
        /\ OnePlaceInv(S, U, D)
    BY DEF Inv
  <1>2. 0 \in Ranks
    BY SizeAssumption DEF Ranks
  <1>3. T = {}
    <2>1. SUFFICES ASSUME T # {} PROVE FALSE
      OBVIOUS
    <2>2. T \subseteq Nat
      BY DEF Ranks
    <2>3. PICK c \in T : \A y \in T : c <= y
      <3> HIDE DEF T
      <3> QED
        BY <2>1, <2>2, LeastNat
    <2>4. c \in Ranks /\ c # 0 /\ ~Good(c)
      BY <2>3
    <2> DEFINE p == parent_rank(c)
    <2>5. p \in Ranks /\ p < c /\ c \in Children(p)
      BY <2>4, ParentInTree DEF Children
    <2>6. CASE p = 0
      <3>1. Held(S, p) = Children(p)
        BY <1>1, <1>2, <2>6, ReadyHoldsAll DEF RootReady
      <3>2. c \in Held(S, p)
        BY <2>5, <3>1
      <3> QED
        BY <1>1, <2>4, <2>5, <3>2 DEF HeldInv, Held
    <2>7. CASE p # 0
      <3>1. p \notin T
        BY <2>3, <2>4, <2>5 DEF Ranks
      <3>2. S[p].f
        BY <2>5, <2>7, <3>1
      <3>3. Len(S[p].requests) = child_count(K, p, Size)
        BY <1>1, <2>5, <3>2 DEF SessionInv
      <3>4. child_count(K, p, Size) \in Nat
        BY <2>5, ChildCountExact
      <3>5. Held(S, p) = Children(p)
        BY <1>1, <2>5, <3>3, <3>4, ReadyHoldsAll
      <3>6. c \in Held(S, p)
        BY <2>5, <3>5
      <3> QED
        BY <1>1, <2>4, <2>5, <3>6 DEF HeldInv, Held
    <2> QED
      BY <2>6, <2>7
  <1>4. \A c \in Ranks \ {0} : Good(c)
    BY <1>3
  <1>5. U = {}
    <2>1. \A m \in U : m.from \in Ranks \ {0}
      BY <1>1, FromType DEF UpInv
    <2>2. \A m \in U : parent_rank(m.from) \in Ranks
      BY <2>1, ParentInTree
    <2> QED
      BY <1>1, <1>4, <2>1, <2>2 DEF OnePlaceInv
  <1>6. D = {}
    <2>1. \A m \in D : m.to \in Ranks \ {0}
      BY <1>1, FromType DEF DownInv, SessionInv
    <2>2. \A m \in D : parent_rank(m.to) \in Ranks
      BY <2>1, ParentInTree
    <2> QED
      BY <1>1, <1>4, <2>1, <2>2 DEF OnePlaceInv
  <1> QED
    BY <1>4, <1>5, <1>6

\* What the root has gathered then is what every shell's call contributes.
LEMMA RootHasAll ==
  ASSUME NEW S, NEW U, NEW D, NEW C, NEW A, NEW G,
         State(S, U, D, C, A, G), Inv(S, U, D, C, A, G), RootReady(S)
  PROVE  /\ \A s \in Ranks : S[s].arg \in DOMAIN C[s]
         /\ ToSet(S[0].data_in) = {<<s, S[s].arg>> : s \in {t \in Ranks : C[t][S[t].arg]}}
  <1>1. SessionInv(S, C, A) /\ HeldInv(S) /\ DataInv(S, C)
    BY DEF Inv
  <1>2. \A c \in Ranks \ {0} : S[c].f /\ c \in Held(S, parent_rank(c))
    BY AllWaiting
  <1>3. \A s \in Ranks : S[s].local
    BY <1>1, <1>2 DEF SessionInv, RootReady
  <1>4. \A s \in Ranks : S[s].arg \in DOMAIN C[s]
    BY <1>1, <1>3 DEF SessionInv
  <1>5. \A r \in Ranks : ToSet(S[r].data_in) =
              Own(S, C, r) \cup UNION {ToSet(S[c].data_in) : c \in Held(S, r)}
    BY <1>1 DEF DataInv
  <1>6. ASSUME NEW s \in Ranks, C[s][S[s].arg]
        PROVE  <<s, S[s].arg>> \in ToSet(S[0].data_in)
    <2> DEFINE x == <<s, S[s].arg>>
    <2> DEFINE T == {r \in Ranks : x \in ToSet(S[r].data_in)}
    <2>1. s \in T
      BY <1>3, <1>5, <1>6 DEF Own
    <2>2. T \subseteq Nat
      BY DEF Ranks
    <2>3. PICK r \in T : \A y \in T : r <= y
      <3> HIDE DEF T
      <3> QED
        BY <2>1, <2>2, LeastNat
    <2>4. r \in Ranks /\ x \in ToSet(S[r].data_in)
      BY <2>3
    <2> HIDE DEF x
    <2>5. CASE r # 0
      <3>1. parent_rank(r) \in Ranks /\ parent_rank(r) < r
        BY <2>4, <2>5, ParentInTree
      <3>2. r \in Held(S, parent_rank(r))
        BY <1>2, <2>4, <2>5
      <3>3. x \in ToSet(S[parent_rank(r)].data_in)
        BY <1>5, <2>4, <3>1, <3>2
      <3>4. parent_rank(r) \in T
        BY <3>1, <3>3
      <3> QED
        BY <2>3, <2>4, <3>1, <3>4 DEF Ranks
    <2> QED
      BY <2>4, <2>5 DEF x
  <1>7. ASSUME NEW x \in ToSet(S[0].data_in)
        PROVE  \E s \in Ranks : C[s][S[s].arg] /\ x = <<s, S[s].arg>>
    <2> DEFINE T == {r \in Ranks : x \in ToSet(S[r].data_in)}
    <2>1. 0 \in T /\ T \subseteq Ranks
      BY SizeAssumption DEF Ranks
    <2>2. PICK r \in T : \A y \in T : y <= r
      <3> HIDE DEF T
      <3> QED
        BY <2>1, GreatestRank
    <2>3. r \in Ranks /\ x \in ToSet(S[r].data_in)
      BY <2>2
    <2>4. ASSUME NEW c \in Held(S, r)
          PROVE  x \notin ToSet(S[c].data_in)
      <3>1. c \in Ranks /\ c # 0 /\ parent_rank(c) = r
        BY <1>1, <2>3, FromType DEF HeldInv, Held
      <3>2. r < c
        BY <3>1, ParentInTree
      <3> QED
        BY <2>2, <2>3, <3>1, <3>2 DEF Ranks
    <2>5. x \in Own(S, C, r)
      BY <1>5, <2>3, <2>4
    <2> QED
      BY <2>3, <2>5 DEF Own
  <1> QED
    BY <1>4, <1>6, <1>7

\* Gather g takes the calls the shells wait with and the data of the root.
Takes(S, g) == /\ g \in Gather
               /\ g.calls = [s \in Ranks |-> S[s].arg]
               /\ g.data = S[0].data_in

\* H is the gathers G and then g.
Extends(H, G, g) == H = Append(G, g)

\* The root makes a gather.
LEMMA GatherStep ==
  ASSUME NEW S, NEW U, NEW D, NEW C, NEW A, NEW G,
         State(S, U, D, C, A, G), Inv(S, U, D, C, A, G), RootReady(S),
         NEW g, Takes(S, g), NEW H, Extends(H, G, g)
  PROVE  Inv(S, U, D, C, A, H) /\ Last(H) = g
  <1>0. g \in Gather /\ g.calls = [s \in Ranks |-> S[s].arg] /\ g.data = S[0].data_in
    BY DEF Takes
  <1>1. /\ SessionInv(S, C, A) /\ UpInv(S, U) /\ HeldInv(S) /\ DownInv(S, D, G)
        /\ OnePlaceInv(S, U, D) /\ DataInv(S, C) /\ RelayInv(S, G)
        /\ GatherInv(C, G) /\ AnswerInv(C, A, G)
    BY DEF Inv
  <1>2. /\ G \in Seq(Gather) /\ Len(G) \in Nat
        /\ DOMAIN G = 1 .. Len(G)
        /\ DOMAIN H = 1 .. Len(G) + 1
        /\ Len(H) = Len(G) + 1
        /\ H[Len(G) + 1] = g
        /\ \A i \in 1 .. Len(G) : H[i] = G[i]
    BY DEF State, Extends, Takes
  <1>3. Last(H) = g
    BY <1>2 DEF Last
  <1>4. /\ \A i \in DOMAIN H : i \in DOMAIN G \/ i = Len(G) + 1
        /\ DOMAIN G \subseteq DOMAIN H
        /\ Len(G) + 1 \in DOMAIN H
    BY <1>2
  <1>5. /\ \A c \in Ranks \ {0} : S[c].f /\ c \in Held(S, parent_rank(c))
        /\ D = {}
    BY AllWaiting
  <1>6. /\ \A s \in Ranks : S[s].arg \in DOMAIN C[s]
        /\ ToSet(S[0].data_in) = {<<s, S[s].arg>> : s \in {t \in Ranks : C[t][S[t].arg]}}
    BY RootHasAll
  <1>7. DownInv(S, D, H)
    BY <1>5 DEF DownInv
  <1>8. RelayInv(S, H)
    <2>1. ASSUME NEW r \in Ranks, NEW i \in DOMAIN S[r].requests
          PROVE  S[r].requests[i].tag = g.calls[S[r].requests[i].from]
      <3>1. S[r].requests[i].from \in Ranks
        BY FromType
      <3>2. S[r].requests[i].tag = S[S[r].requests[i].from].arg
        BY <1>1 DEF HeldInv
      <3> QED
        BY <1>0, <3>1, <3>2
    <2> QED
      BY <1>3, <1>5, <2>1 DEF RelayInv
  <1> DEFINE Whole(h) ==
          /\ \A s \in Ranks : h.calls[s] \in DOMAIN C[s]
          /\ ToSet(h.data) = {<<s, h.calls[s]>> : s \in {t \in Ranks : C[t][h.calls[t]]}}
          /\ IsInjective(h.data)
  <1>9. GatherInv(C, H)
    <2>1. Whole(g)
      <3>1. \A s \in Ranks : g.calls[s] = S[s].arg
        BY <1>0
      <3>2. {t \in Ranks : C[t][g.calls[t]]} = {t \in Ranks : C[t][S[t].arg]}
        BY <3>1
      <3>3. {<<s, g.calls[s]>> : s \in {t \in Ranks : C[t][g.calls[t]]}} =
                {<<s, S[s].arg>> : s \in {t \in Ranks : C[t][S[t].arg]}}
        BY <3>1, <3>2
      <3>4. IsInjective(g.data)
        BY <1>1, <1>0, SizeAssumption DEF DataInv, Ranks
      <3> QED
        BY <1>6, <1>0, <3>1, <3>3, <3>4
    <2>2. \A i \in DOMAIN G : Whole(G[i])
      BY <1>1 DEF GatherInv
    <2>3. \A i \in DOMAIN H : Whole(H[i])
      <3> HIDE DEF Whole
      <3> QED
        BY <1>2, <1>4, <2>1, <2>2
    <2> QED
      BY <2>3 DEF GatherInv
  <1>10. AnswerInv(C, A, H)
    BY <1>1, <1>2, <1>4 DEF AnswerInv
  <1> QED
    BY <1>1, <1>3, <1>7, <1>8, <1>9, <1>10 DEF Inv

\* The responses R relay the latest gather to shells whose requests r holds.
Relays(S, r, G, R) ==
    \A n \in R : /\ \E i \in DOMAIN S[r].requests :
                        /\ n.to = S[r].requests[i].from
                        /\ n.tag = S[r].requests[i].tag
                 /\ n.ok
                 /\ G # <<>>
                 /\ n.data = Last(G).data
                 /\ n.tag = Last(G).calls[n.to]

\* Answer a to a call of shell r, if a success, is the result of its gather.
Justified(r, a, G) ==
    a.status = "PMIX_SUCCESS" =>
        \E k \in DOMAIN G : G[k].calls[r] = a.call /\ G[k].data = a.data

\* Responses are sent for requests that shell r holds, its call is answered and
\* its session destroyed.
LEMMA ExitStep ==
  ASSUME NEW S, NEW U, NEW D, NEW C, NEW A, NEW G,
         State(S, U, D, C, A, G), Inv(S, U, D, C, A, G),
         NEW r \in Ranks, S[r].local, Free(S, U, D, r),
         NEW a \in Answer, a.call = S[r].arg, Justified(r, a, G),
         NEW R \in SUBSET Response, Relays(S, r, G, R)
  PROVE  Inv([S EXCEPT ![r] = NoSession], U, D \cup R, C,
             [A EXCEPT ![r] = Append(@, a)], G)
  <1> DEFINE T == [S EXCEPT ![r] = NoSession]
  <1> DEFINE B == [A EXCEPT ![r] = Append(@, a)]
  <1>1. /\ SessionInv(S, C, A) /\ UpInv(S, U) /\ HeldInv(S) /\ DownInv(S, D, G)
        /\ OnePlaceInv(S, U, D) /\ DataInv(S, C) /\ RelayInv(S, G)
        /\ GatherInv(C, G) /\ AnswerInv(C, A, G)
    BY DEF Inv
  <1>2. T[r] = NoSession /\ \A x \in Ranks \ {r} : T[x] = S[x]
    BY DEF State
  <1>3. /\ ~NoSession.open /\ ~NoSession.local /\ NoSession.arg = 0 /\ ~NoSession.f
        /\ NoSession.requests = <<>> /\ NoSession.data_in = <<>>
    BY DEF NoSession
  <1>4. \A x \in Ranks \ {r} : B[x] = A[x]
    BY DEF State
  <1>5. /\ A[r] \in Seq(Answer) /\ Len(A[r]) \in Nat
        /\ DOMAIN A[r] = 1 .. Len(A[r])
        /\ DOMAIN B[r] = 1 .. Len(A[r]) + 1
        /\ B[r][Len(A[r]) + 1] = a
        /\ \A i \in DOMAIN A[r] : B[r][i] = A[r][i]
    BY DEF State
  <1>6. \A i \in DOMAIN B[r] : i \in DOMAIN A[r] \/ i = Len(A[r]) + 1
    BY <1>5
  <1> HIDE DEF T, B
  <1>7. Held(T, r) = {} /\ \A x \in Ranks \ {r} : Held(T, x) = Held(S, x)
    BY <1>2, <1>3 DEF Held
  <1>8. \A x \in Ranks : r \notin Held(T, x)
    BY <1>7 DEF Free
  <1>9. \A n \in R : n.to \in Held(S, r) /\ n.to \in Ranks /\ n.to # r
    BY FromType DEF Held, Free, Relays
  <1>10. SessionInv(T, C, B)
    <2>1. \A x \in Ranks \ {r} : AnsweredIn(B, x) = AnsweredIn(A, x)
      BY <1>4 DEF AnsweredIn
    <2> QED
      BY <1>1, <1>2, <1>3, <2>1 DEF SessionInv
  <1>11. UpInv(T, U)
    BY <1>1, <1>2, FromType DEF UpInv, Free
  <1>12. HeldInv(T)
    <2>1. \A x \in Ranks \ {r} : T[x].requests = S[x].requests
      BY <1>2
    <2>2. \A x \in Ranks \ {r} : \A i \in DOMAIN S[x].requests :
              S[x].requests[i].from \in Ranks \ {r}
      BY FromType DEF Free, Held
    <2>3. DOMAIN T[r].requests = {}
      BY <1>2, <1>3
    <2> QED
      BY <1>1, <1>2, <2>1, <2>2, <2>3 DEF HeldInv
  <1>13. DownInv(T, D \cup R, G)
    <2>1. ASSUME NEW n \in D
          PROVE  /\ T[n.to].f
                 /\ n.tag = T[n.to].arg
                 /\ n.ok => /\ G # <<>>
                            /\ n.data = Last(G).data
                            /\ n.tag = Last(G).calls[n.to]
      BY <1>1, <1>2, FromType DEF DownInv, Free
    <2>2. ASSUME NEW n \in R
          PROVE  T[n.to].f /\ n.tag = T[n.to].arg
      <3>1. PICK i \in DOMAIN S[r].requests :
                n.to = S[r].requests[i].from /\ n.tag = S[r].requests[i].tag
        BY DEF Relays
      <3>2. S[n.to].f /\ n.tag = S[n.to].arg
        BY <1>1, <3>1 DEF HeldInv
      <3> QED
        BY <1>2, <1>9, <3>2
    <2> QED
      BY <2>1, <2>2 DEF DownInv, Relays
  <1>14. OnePlaceInv(T, U, D \cup R)
    <2>1. \A m \in U, n \in D \cup R : m.from # n.to
      BY <1>1, <1>9 DEF OnePlaceInv
    <2>2. \A p \in Ranks : \A m \in U : m.from \notin Held(T, p)
      BY <1>1, <1>7 DEF OnePlaceInv
    <2>3. \A p \in Ranks : \A n \in D : n.to \notin Held(T, p)
      BY <1>1, <1>7 DEF OnePlaceInv
    <2>4. ASSUME NEW p \in Ranks, NEW n \in R
          PROVE  n.to \notin Held(T, p)
      <3>1. CASE p # r
        <4>1. parent_rank(n.to) = r
          BY <1>1, <1>9 DEF HeldInv, Held
        <4>2. n.to \in Held(S, p) => parent_rank(n.to) = p
          BY <1>1 DEF HeldInv, Held
        <4> QED
          BY <1>7, <3>1, <4>1, <4>2
      <3> QED
        BY <1>7, <3>1
    <2>5. ASSUME NEW m \in D \cup R, NEW n \in D \cup R, m.to = n.to
          PROVE  m = n
      <3>1. CASE m \in D /\ n \in D
        BY <1>1, <2>5, <3>1 DEF OnePlaceInv
      <3>2. CASE m \in R /\ n \in R
        <4>1. m.tag = n.tag /\ m.data = n.data /\ m.ok /\ n.ok
          BY <2>5, <3>2 DEF Relays
        <4>2. m \in Response /\ n \in Response
          BY <3>2
        <4>3. /\ m.ok = TRUE /\ n.ok = TRUE
              /\ m = [to |-> m.to, tag |-> m.tag, ok |-> m.ok, data |-> m.data]
              /\ n = [to |-> n.to, tag |-> n.tag, ok |-> n.ok, data |-> n.data]
          BY <4>1, <4>2 DEF Response
        <4> QED
          BY <2>5, <4>1, <4>3
      <3>3. \A x \in D, y \in R : x.to # y.to
        BY <1>1, <1>9 DEF OnePlaceInv
      <3> QED
        BY <2>5, <3>1, <3>2, <3>3
    <2> QED
      BY <2>1, <2>2, <2>3, <2>4, <2>5 DEF OnePlaceInv
  <1>15. DataInv(T, C)
    <2>1. ASSUME NEW x \in Ranks, x # r
          PROVE  /\ T[x] = S[x]
                 /\ Own(T, C, x) = Own(S, C, x)
                 /\ {ToSet(T[d].data_in) : d \in Held(T, x)}
                        = {ToSet(S[d].data_in) : d \in Held(S, x)}
      <3>1. \A d \in Held(S, x) : d \in Ranks /\ d # r /\ T[d] = S[d]
        BY <1>2, <2>1, FromType DEF Free
      <3>2. T[x] = S[x] /\ Held(T, x) = Held(S, x)
        BY <1>2, <1>7, <2>1
      <3>3. Own(T, C, x) = Own(S, C, x)
        BY <3>2 DEF Own
      <3> QED
        BY <3>1, <3>2, <3>3
    <2>2. Own(T, C, r) = {} /\ ToSet(T[r].data_in) = {} /\ IsInjective(T[r].data_in)
      BY <1>2, <1>3, ToSetEmpty DEF Own
    <2>3. UNION {ToSet(T[d].data_in) : d \in Held(T, r)} = {}
      BY <1>7
    <2>4. ASSUME NEW x \in Ranks
          PROVE  /\ ToSet(T[x].data_in) =
                        Own(T, C, x) \cup UNION {ToSet(T[d].data_in) : d \in Held(T, x)}
                 /\ \A y \in ToSet(T[x].data_in) : x \in Ancestors(y[1])
                 /\ IsInjective(T[x].data_in)
      <3>1. CASE x # r
        BY <1>1, <2>1, <3>1 DEF DataInv
      <3> QED
        BY <2>2, <2>3, <3>1
    <2> QED
      BY <2>4 DEF DataInv
  <1>16. RelayInv(T, G)
    BY <1>1, <1>2, <1>3 DEF RelayInv
  <1>17. AnswerInv(C, B, G)
    <2>1. a.call \in DOMAIN C[r] /\ \A i \in DOMAIN A[r] : A[r][i].call # a.call
      BY <1>1 DEF SessionInv, AnsweredIn
    <2>2. ASSUME NEW i \in DOMAIN B[r]
          PROVE  /\ B[r][i].call \in DOMAIN C[r]
                 /\ \A j \in DOMAIN B[r] : B[r][i].call = B[r][j].call => i = j
                 /\ B[r][i].status = "PMIX_SUCCESS" =>
                       \E k \in DOMAIN G : /\ G[k].calls[r] = B[r][i].call
                                           /\ G[k].data = B[r][i].data
      <3>1. CASE i \in DOMAIN A[r]
        <4>1. B[r][i] = A[r][i]
          BY <1>5, <3>1
        <4>2. /\ A[r][i].call \in DOMAIN C[r]
              /\ \A j \in DOMAIN A[r] : A[r][i].call = A[r][j].call => i = j
              /\ A[r][i].status = "PMIX_SUCCESS" =>
                    \E k \in DOMAIN G : /\ G[k].calls[r] = A[r][i].call
                                        /\ G[k].data = A[r][i].data
          BY <1>1, <3>1 DEF AnswerInv
        <4>3. \A j \in DOMAIN B[r] : A[r][i].call = B[r][j].call => i = j
          BY <1>5, <1>6, <2>1, <3>1, <4>2
        <4> QED
          BY <4>1, <4>2, <4>3
      <3>2. CASE i = Len(A[r]) + 1
        <4>1. B[r][i] = a
          BY <1>5, <3>2
        <4>2. \A j \in DOMAIN A[r] : B[r][j].call # a.call
          BY <1>5, <2>1
        <4>3. \A j \in DOMAIN B[r] : a.call = B[r][j].call => j = i
          BY <1>6, <3>2, <4>2
        <4> QED
          BY <2>1, <4>1, <4>3 DEF Justified
      <3> QED
        BY <1>6, <3>1, <3>2
    <2> QED
      BY <1>1, <1>4, <2>2 DEF AnswerInv
  <1> QED
    BY <1>1, <1>10, <1>11, <1>12, <1>13, <1>14, <1>15, <1>16, <1>17 DEF Inv, T, B

-----------------------------------------------------------------------------
(* The handlers.                                                           *)

\* No failure leaves part of its effect behind.
NoLeaks == Faults \cap LeakyFaults = {}

\* What session_process knows of a session it does not make wait.
LEMMA NotAwaitingIsReady ==
  ASSUME NEW r \in Ranks, NEW ses \in Session, ~Awaiting(r, ses)
  PROVE  /\ ses.local
         /\ ~ses.f
         /\ Len(ses.requests) >= child_count(K, r, Size)
  <1>1. Len(ses.requests) \in Nat /\ child_count(K, r, Size) \in Nat
    BY ChildCountExact DEF Session
  <1> QED
    BY <1>1 DEF Awaiting

\* An exit with an error, without a response to any child.
LEMMA ErrorExitInv ==
  ASSUME NEW S, NEW u, NEW d, NEW C, NEW G,
         NEW r \in Ranks, NEW ses \in Session, session \in [Ranks -> Session],
         S = [session EXCEPT ![r] = ses],
         State(S, u, d, C, answers, G), Inv(S, u, d, C, answers, G),
         ses.local, Free(S, u, d, r), Exit(r, ses, "PMIX_ERROR", <<>>)
  PROVE  Inv(session', u, d, C, answers', G)
  <1> DEFINE a == [call |-> ses.arg, status |-> "PMIX_ERROR", data |-> <<>>]
  <1>1. S[r] = ses
    OBVIOUS
  <1>2. a \in Answer /\ a.call = S[r].arg /\ a.status # "PMIX_SUCCESS"
    BY <1>1, EmptyData DEF Answer, Session
  <1>3. session' = [S EXCEPT ![r] = NoSession]
    BY DEF Exit
  <1>4. answers' = [answers EXCEPT ![r] = Append(@, a)]
    BY DEF Exit, Reply
  <1>5. {} \in SUBSET Response /\ Relays(S, r, G, {}) /\ Justified(r, a, G)
    BY <1>2 DEF Relays, Justified
  <1> HIDE DEF a
  <1>6. Inv([S EXCEPT ![r] = NoSession], u, d \cup {}, C,
            [answers EXCEPT ![r] = Append(@, a)], G)
    BY <1>1, <1>2, <1>5, ExitStep
  <1>7. d \cup {} = d
    OBVIOUS
  <1> QED
    BY <1>3, <1>4, <1>6, <1>7

\* The result is relayed to the children, or to some of them, and the shell exits.
LEMMA CompleteInv ==
  ASSUME NEW S, NEW u, NEW d, NEW C, NEW G, NEW out,
         NEW r \in Ranks, NEW ses \in Session, session \in [Ranks -> Session],
         S = [session EXCEPT ![r] = ses],
         State(S, u, d, C, answers, G), Inv(S, u, d, C, answers, G),
         ses.local, Free(S, u, d, r), Complete(r, ses, out, u, d),
         G # <<>>, out = Last(G).data, Last(G).calls[r] = ses.arg,
         out \in Seq(Contributions),
         \A i \in DOMAIN ses.requests :
             ses.requests[i].tag = Last(G).calls[ses.requests[i].from]
  PROVE  Inv(session', up', down', C, answers', G)
  <1>1. S[r] = ses
    OBVIOUS
  <1>2. up' = u
    BY DEF Complete, exchange_get_data
  <1>3. PICK a \in Answer : /\ answers' = [answers EXCEPT ![r] = Append(@, a)]
                            /\ a.call = ses.arg
                            /\ a.status = "PMIX_SUCCESS" => a.data = out
    <2>1. CASE Exit(r, ses, "PMIX_SUCCESS", out)
      <3> DEFINE b == [call |-> ses.arg, status |-> "PMIX_SUCCESS", data |-> out]
      <3>1. b \in Answer /\ b.call = ses.arg /\ b.data = out
        BY DEF Answer, Session
      <3>2. answers' = [answers EXCEPT ![r] = Append(@, b)]
        BY <2>1 DEF Exit, Reply
      <3> HIDE DEF b
      <3> QED
        BY <3>1, <3>2
    <2>2. CASE Exit(r, ses, "PMIX_ERROR", <<>>)
      <3> DEFINE b == [call |-> ses.arg, status |-> "PMIX_ERROR", data |-> <<>>]
      <3>1. b \in Answer /\ b.call = ses.arg /\ b.status # "PMIX_SUCCESS"
        BY EmptyData DEF Answer, Session
      <3>2. answers' = [answers EXCEPT ![r] = Append(@, b)]
        BY <2>2 DEF Exit, Reply
      <3> HIDE DEF b
      <3> QED
        BY <3>1, <3>2
    <2> QED
      BY <2>1, <2>2 DEF Complete, exchange_get_data
  <1>4. session' = [S EXCEPT ![r] = NoSession]
    BY DEF Exit, Complete, exchange_get_data
  <1>5. PICK routes \in Seq(Route) : /\ down' = d \cup Responses(routes, out)
                                     /\ \A q \in ToSet(routes) :
                                           \E i \in DOMAIN ses.requests : q = ses.requests[i]
    <2>1. ses.requests \in Seq(Route)
      BY DEF Session
    <2>2. CASE down' = d \cup Responses(ses.requests, out)
      BY <2>1, <2>2 DEF ToSet
    <2>3. ASSUME NEW i \in 1 .. Len(ses.requests),
                 down' = d \cup Responses(SubSeq(ses.requests, 1, i - 1), out)
          PROVE  \E routes \in Seq(Route) :
                     /\ down' = d \cup Responses(routes, out)
                     /\ \A q \in ToSet(routes) :
                           \E j \in DOMAIN ses.requests : q = ses.requests[j]
      <3> DEFINE sub == SubSeq(ses.requests, 1, i - 1)
      <3>1. /\ sub \in Seq(Route)
            /\ DOMAIN sub = 1 .. i - 1
            /\ \A j \in 1 .. i - 1 : sub[j] = ses.requests[j]
        BY <2>1, SubSeqProperties
      <3>2. \A j \in 1 .. i - 1 : j \in DOMAIN ses.requests
        BY <2>1
      <3> HIDE DEF sub
      <3>3. \A q \in ToSet(sub) : \E j \in DOMAIN ses.requests : q = ses.requests[j]
        BY <3>1, <3>2 DEF ToSet
      <3> QED
        BY <2>3, <3>1, <3>3 DEF sub
    <2> QED
      BY <2>2, <2>3 DEF Complete, exchange_get_data
  <1> DEFINE R == Responses(routes, out)
  <1>6. R \in SUBSET Response
    BY <1>5, ResponsesType
  <1>7. Relays(S, r, G, R)
    <2> SUFFICES ASSUME NEW n \in R
                 PROVE  /\ \E i \in DOMAIN S[r].requests :
                              /\ n.to = S[r].requests[i].from
                              /\ n.tag = S[r].requests[i].tag
                        /\ n.ok
                        /\ G # <<>>
                        /\ n.data = Last(G).data
                        /\ n.tag = Last(G).calls[n.to]
      BY DEF Relays
    <2>1. PICK q \in ToSet(routes) :
              n = [to |-> q.from, tag |-> q.tag, ok |-> TRUE, data |-> out]
      BY DEF Responses
    <2>2. PICK i \in DOMAIN ses.requests : q = ses.requests[i]
      BY <1>5
    <2> QED
      BY <1>1, <2>1, <2>2
  <1>8. Justified(r, a, G)
    <2>1. Len(G) \in DOMAIN G
      BY DEF State
    <2> QED
      BY <1>3, <2>1 DEF Last, Justified
  <1> HIDE DEF R
  <1>9. a \in Answer /\ a.call = S[r].arg /\ S[r].local
    BY <1>1, <1>3
  <1>10. Inv([S EXCEPT ![r] = NoSession], u, d \cup R, C,
            [answers EXCEPT ![r] = Append(@, a)], G)
    BY <1>6, <1>7, <1>8, <1>9, ExitStep
  <1> QED
    BY <1>2, <1>3, <1>4, <1>5, <1>10 DEF R

\* session_process keeps the invariant of the session it is given.
LEMMA ProcessInv ==
  ASSUME NoLeaks, TypeOK, NEW r \in Ranks, NEW ses \in Session,
         NEW S, S = [session EXCEPT ![r] = ses], NEW u, NEW d,
         State(S, u, d, calls', answers, gathers),
         Inv(S, u, d, calls', answers, gathers),
         session_process(r, ses, u, d)
  PROVE  IndInv'
  <1>1. session \in [Ranks -> Session] /\ S[r] = ses
    BY DEF TypeOK
  <1>2. UpInv(S, u) /\ HeldInv(S) /\ DownInv(S, d, gathers)
    BY DEF Inv
  <1>3. CASE Wait(r, ses, u, d)
    BY <1>3 DEF Wait, IndInv
  <1>4. CASE SendRequest(r, ses, u, d)
    <2>1. ses.local /\ ~ses.f /\ Len(ses.requests) >= child_count(K, r, Size)
      BY <1>4, NotAwaitingIsReady DEF SendRequest
    <2>2. r # 0 /\ down' = d /\ gathers' = gathers
      BY <1>4 DEF SendRequest, Ranks
    <2>3. CASE /\ session' = [session EXCEPT ![r] = [ses EXCEPT !.f = TRUE]]
               /\ up' = u \cup {[from |-> r, tag |-> ses.arg, data |-> ses.data_in]}
               /\ UNCHANGED answers
      <3> DEFINE sent == [ses EXCEPT !.f = TRUE]
      <3>1. /\ sent \in Session /\ sent.open = ses.open /\ sent.f /\ sent.local
            /\ sent.arg = ses.arg /\ sent.requests = ses.requests
            /\ sent.data_in = ses.data_in
        BY <2>1 DEF Session
      <3> HIDE DEF sent
      <3>2. Inv([S EXCEPT ![r] = sent],
                u \cup {[from |-> r, tag |-> S[r].arg, data |-> S[r].data_in]},
                d, calls', answers, gathers)
        BY <1>1, <2>1, <2>2, <3>1, SendStep
      <3>3. session' = [S EXCEPT ![r] = sent]
        BY <1>1, <2>3 DEF sent
      <3> QED
        BY <1>1, <2>2, <2>3, <3>2, <3>3 DEF IndInv
    <2>4. CASE Exit(r, ses, "PMIX_ERROR", <<>>) /\ up' = u
      <3>1. Free(S, u, d, r)
        BY <1>1, <1>2, <2>1, NotWaitingIsFree
      <3>2. Inv(session', u, d, calls', answers', gathers)
        BY <1>1, <2>1, <2>4, <3>1, ErrorExitInv
      <3> QED
        BY <2>2, <2>4, <3>2 DEF IndInv
    <2>5. ~Fault("then")
      BY DEF NoLeaks, LeakyFaults, Fault
    <2> QED
      BY <1>4, <2>3, <2>4, <2>5 DEF SendRequest
  <1>5. CASE RootComplete(r, ses, u, d)
    <2> DEFINE g == [calls |-> [s \in Ranks |-> S[s].arg], data |-> ses.data_in]
    <2> DEFINE H == Append(gathers, g)
    <2>1. ses.local /\ ~ses.f /\ Len(ses.requests) >= child_count(K, r, Size)
      BY <1>5, NotAwaitingIsReady DEF RootComplete
    <2>2. r = 0 /\ Complete(r, ses, ses.data_in, u, d)
      BY <1>5 DEF RootComplete
    <2>3. [s \in Ranks |-> IF s = r THEN ses.arg ELSE session[s].arg]
              = [s \in Ranks |-> S[s].arg]
      BY <1>1
    <2>4. gathers' = H
      BY <1>5, <2>3 DEF RootComplete
    <2>5. ses.data_in \in Seq(Contributions)
      BY DEF Session
    <2>6. g \in Gather /\ g.calls = [s \in Ranks |-> S[s].arg] /\ g.data = S[0].data_in
      <3>1. [s \in Ranks |-> S[s].arg] \in [Ranks -> Nat]
        BY DEF State, Session
      <3> QED
        BY <1>1, <2>2, <2>5, <3>1 DEF Gather
    <2> HIDE DEF g
    <2>7. /\ Inv(S, u, d, calls', answers, H)
          /\ Last(H) = g
      <3>1. RootReady(S)
        BY <1>1, <2>1, <2>2 DEF RootReady
      <3>2. Takes(S, g)
        BY <2>6 DEF Takes
      <3>3. Extends(H, gathers, g)
        BY DEF Extends
      <3> HIDE DEF H
      <3> QED
        BY <3>1, <3>2, <3>3, GatherStep
    <2>8. State(S, u, d, calls', answers, H) /\ H # <<>>
      <3>1. gathers \in Seq(Gather)
        BY DEF State
      <3>2. H \in Seq(Gather) /\ H # <<>>
        BY <2>6, <3>1
      <3> HIDE DEF H
      <3> QED
        BY <3>2 DEF State
    <2> HIDE DEF H
    <2>9. Free(S, u, d, r)
      BY <1>1, <1>2, <2>1, NotWaitingIsFree
    <2>10. Last(H).data = ses.data_in /\ Last(H).calls[r] = ses.arg
      BY <1>1, <2>2, <2>6, <2>7
    <2>11. \A i \in DOMAIN ses.requests :
               ses.requests[i].tag = Last(H).calls[ses.requests[i].from]
      <3> TAKE i \in DOMAIN ses.requests
      <3>1. i \in DOMAIN S[r].requests /\ S[r].requests[i] = ses.requests[i]
        BY <1>1
      <3>2. S[r].requests[i].from \in Ranks
        BY <3>1, FromType
      <3>3. S[r].requests[i].tag = S[S[r].requests[i].from].arg
        BY <1>2, <3>1 DEF HeldInv
      <3>4. g.calls[S[r].requests[i].from] = S[S[r].requests[i].from].arg
        BY <2>6, <3>2
      <3> QED
        BY <2>7, <3>1, <3>3, <3>4
    <2>12. Inv(session', up', down', calls', answers', H)
      BY <1>1, <2>1, <2>2, <2>5, <2>7, <2>8, <2>9, <2>10, <2>11, CompleteInv
    <2> QED
      BY <2>4, <2>12 DEF IndInv
  <1> QED
    BY <1>3, <1>4, <1>5 DEF session_process

\* The invariant holds before any call is made.
LEMMA IndInvInit == Init => IndInv
  <1> SUFFICES ASSUME Init PROVE IndInv
    OBVIOUS
  <1>1. /\ \A r \in Ranks : session[r] = NoSession
        /\ up = {} /\ down = {} /\ gathers = <<>>
        /\ \A r \in Ranks : answers[r] = <<>>
    BY DEF Init
  <1>2. /\ ~NoSession.open /\ ~NoSession.local /\ NoSession.arg = 0 /\ ~NoSession.f
        /\ NoSession.requests = <<>> /\ NoSession.data_in = <<>>
    BY DEF NoSession
  <1>3. \A r \in Ranks : Held(session, r) = {} /\ Own(session, calls, r) = {}
    BY <1>1, <1>2 DEF Held, Own
  <1>4. SessionInv(session, calls, answers)
    BY <1>1, <1>2 DEF SessionInv
  <1>5. UpInv(session, up) /\ DownInv(session, down, gathers) /\ OnePlaceInv(session, up, down)
    BY <1>1 DEF UpInv, DownInv, OnePlaceInv
  <1>6. HeldInv(session)
    BY <1>1, <1>2 DEF HeldInv
  <1>7. DataInv(session, calls)
    BY <1>1, <1>2, <1>3, ToSetEmpty DEF DataInv
  <1>8. RelayInv(session, gathers)
    BY <1>1, <1>2 DEF RelayInv
  <1>9. GatherInv(calls, gathers) /\ AnswerInv(calls, answers, gathers)
    BY <1>1 DEF GatherInv, AnswerInv
  <1> QED
    BY <1>4, <1>5, <1>6, <1>7, <1>8, <1>9 DEF IndInv, Inv

\* The types of the variables, as the lemmas about a single change need them.
LEMMA TypedState ==
  ASSUME TypeOK
  PROVE  State(session, up, down, calls, answers, gathers)
  BY DEF TypeOK, State

\* OpenSession differs from the session only in being open.
LEMMA OpenSessionFields ==
  ASSUME TypeOK, IndInv, NEW r \in Ranks
  PROVE  LET ses == OpenSession(r)
         IN  /\ ses \in Session /\ ses.open
             /\ ses.f = session[r].f /\ ses.local = session[r].local
             /\ ses.arg = session[r].arg /\ ses.requests = session[r].requests
             /\ ses.data_in = session[r].data_in
  <1>1. OpenSession(r) \in Session
    BY OpenSessionType
  <1>2. CASE session[r].open
    BY <1>1, <1>2 DEF OpenSession
  <1>3. CASE ~session[r].open
    <2>1. session[r] = NoSession /\ OpenSession(r) = session_create
      BY <1>3 DEF IndInv, Inv, SessionInv, OpenSession
    <2>2. /\ session_create.open
          /\ session_create.f = NoSession.f /\ session_create.arg = NoSession.arg
          /\ session_create.local = NoSession.local
          /\ session_create.requests = NoSession.requests
          /\ session_create.data_in = NoSession.data_in
      BY DEF session_create, NoSession
    <2> QED
      BY <1>1, <2>1, <2>2
  <1> QED
    BY <1>2, <1>3

-----------------------------------------------------------------------------
(* A handler begins by changing the session of its shell r, which gives    *)
(* sessions S with requests u and responses d in flight, and then runs     *)
(* session_process or ends the exchange.                                   *)

\* exchange_enter_base64_string has entered a new call of shell r.
Enters(r, S, u, d) ==
    /\ MayCall(r)
    /\ \E collect \in Collect : calls' = [calls EXCEPT ![r] = Append(@, collect)]
    /\ ~session[r].local
    /\ S[r].local /\ ~S[r].f /\ S[r].arg = Len(calls[r]) + 1
    /\ S[r].requests = session[r].requests
    /\ u = up
    /\ d = down

\* exchange_request_cb has taken a request into the session of shell r.
Receives(r, S, u, d) ==
    /\ calls' = calls
    /\ S[r].local = session[r].local /\ S[r].arg = session[r].arg /\ S[r].f = session[r].f
    /\ \E m \in up : /\ parent_rank(m.from) = r
                     /\ S[r].requests = Append(session[r].requests, RouteOf(m))
                     /\ u = up \ {m}
    /\ d = down

\* exchange_response_completion has taken the response shell r waits for.
Returns(r, S, u, d) ==
    /\ calls' = calls
    /\ S = session
    /\ S[r].f
    /\ u = up
    /\ \E m \in down : m.to = r /\ d = down \ {m}

\* What holds of every handler before session_process.
Begins(r, S, u, d) ==
    /\ State(S, u, d, calls', answers, gathers)
    /\ Inv(S, u, d, calls', answers, gathers)
    /\ \A x \in Ranks \ {r} : S[x] = session[x]
    /\ Enters(r, S, u, d) \/ Receives(r, S, u, d) \/ Returns(r, S, u, d)

\* exchange_enter_base64_string accepts a call.
LEMMA EnterBegins ==
  ASSUME TypeInv, IndInv, TypeInv',
         NEW r \in Ranks, NEW collect \in Collect, Enter(r, collect)
  PROVE  \E ses \in Session : /\ Begins(r, [session EXCEPT ![r] = ses], up, down)
                              /\ session_process(r, ses, up, down)
  <1> DEFINE n == Len(calls[r]) + 1
  <1> DEFINE ses == Entered(r, n, collect)
  <1> DEFINE S == [session EXCEPT ![r] = ses]
  <1>1. TypeOK /\ TypeOK' /\ collect \in BOOLEAN
    BY CollectAssumption DEF TypeInv
  <1>2. /\ calls' = [calls EXCEPT ![r] = Append(@, collect)]
        /\ MayCall(r)
        /\ ~session[r].local
        /\ session_process(r, ses, up, down)
    BY DEF Enter, MakeCall
  <1>3. n \in Nat
    BY <1>1 DEF TypeOK
  <1>4. ses \in Session
    BY <1>1, <1>3, EnteredType
  <1>5. /\ ses.open /\ ses.local /\ ses.arg = n /\ ~ses.f
        /\ ses.requests = session[r].requests
        /\ ses.data_in = IF collect THEN Append(session[r].data_in, <<r, n>>)
                         ELSE session[r].data_in
    <2> DEFINE o == OpenSession(r)
    <2>1. /\ o \in Session /\ o.open
          /\ o.f = session[r].f /\ o.requests = session[r].requests
          /\ o.data_in = session[r].data_in
      BY <1>1, OpenSessionFields
    <2>2. ~session[r].f
      BY <1>2 DEF IndInv, Inv, SessionInv
    <2> HIDE DEF o
    <2>3. ses = [o EXCEPT !.local = TRUE, !.arg = n,
                    !.data_in = IF collect THEN Append(@, <<r, n>>) ELSE @]
      BY DEF Entered, o
    <2> QED
      BY <2>1, <2>2, <2>3 DEF Session
  <1> HIDE DEF ses, n
  <1>6. n = Len(calls[r]) + 1
    BY DEF n
  <1>7. State(session, up, down, calls, answers, gathers)
        /\ Inv(session, up, down, calls, answers, gathers)
    BY <1>1, TypedState DEF IndInv
  <1>8. Inv([session EXCEPT ![r] = ses], up, down,
            [calls EXCEPT ![r] = Append(@, collect)], answers, gathers)
    BY <1>1, <1>2, <1>4, <1>5, <1>6, <1>7, EnterStep
  <1>9. Inv(S, up, down, calls', answers, gathers)
    BY <1>2, <1>8
  <1>10. State(S, up, down, calls', answers, gathers)
    BY <1>1, <1>4 DEF TypeOK, State
  <1>11. S[r] = ses /\ \A x \in Ranks \ {r} : S[x] = session[x]
    BY <1>1 DEF TypeOK
  <1>12. Enters(r, S, up, down)
    <2> HIDE DEF S
    <2> QED
      BY <1>2, <1>5, <1>6, <1>11 DEF Enters
  <1> QED
    BY <1>2, <1>4, <1>9, <1>10, <1>11, <1>12 DEF Begins

\* exchange_request_cb accepts a request.
LEMMA RequestBegins ==
  ASSUME TypeInv, IndInv, NEW m \in up, exchange_request_cb(m)
  PROVE  \E r \in Ranks, ses \in Session :
             /\ Begins(r, [session EXCEPT ![r] = ses], up \ {m}, down)
             /\ session_process(r, ses, up \ {m}, down)
  <1> DEFINE p == parent_rank(m.from)
  <1> DEFINE ses == Received(p, m)
  <1> DEFINE S == [session EXCEPT ![p] = ses]
  <1>1. TypeOK /\ m \in Request /\ m.from \in Ranks /\ m.from # 0
    BY DEF TypeInv, TypeOK, Request
  <1>2. p \in Ranks
    BY <1>1, ParentInTree
  <1>3. /\ ~TooMany(p)
        /\ session_process(p, ses, up \ {m}, down)
        /\ calls' = calls
    BY DEF exchange_request_cb
  <1>4. ses \in Session
    BY <1>1, <1>2, ReceivedType
  <1>5. /\ ses.open /\ ses.local = session[p].local /\ ses.arg = session[p].arg
        /\ ses.f = session[p].f
        /\ Len(session[p].requests) # child_count(K, p, Size)
        /\ ses.requests = Append(session[p].requests, RouteOf(m))
        /\ ses.data_in = session[p].data_in \o m.data
    <2> DEFINE o == OpenSession(p)
    <2>1. /\ o \in Session /\ o.open
          /\ o.f = session[p].f /\ o.local = session[p].local
          /\ o.arg = session[p].arg /\ o.requests = session[p].requests
          /\ o.data_in = session[p].data_in
      BY <1>1, <1>2, OpenSessionFields
    <2>2. Len(o.requests) # child_count(K, p, Size)
      BY <1>3 DEF TooMany
    <2> HIDE DEF o
    <2>3. ses = [o EXCEPT !.data_in = @ \o m.data, !.requests = Append(@, RouteOf(m))]
      BY DEF Received, o
    <2> QED
      BY <2>1, <2>2, <2>3 DEF Session
  <1> HIDE DEF ses
  <1>6. State(session, up, down, calls, answers, gathers)
        /\ Inv(session, up, down, calls, answers, gathers)
    BY <1>1, TypedState DEF IndInv
  <1>7. Inv(S, up \ {m}, down, calls', answers, gathers)
    BY <1>3, <1>4, <1>5, <1>6, ReceiveStep
  <1>8. State(S, up \ {m}, down, calls', answers, gathers)
    BY <1>1, <1>2, <1>3, <1>4 DEF TypeOK, State
  <1>9. S[p] = ses /\ \A x \in Ranks \ {p} : S[x] = session[x]
    BY <1>1, <1>2 DEF TypeOK
  <1>10. Receives(p, S, up \ {m}, down)
    <2> HIDE DEF S
    <2> QED
      BY <1>3, <1>5, <1>9 DEF Receives
  <1>11. Begins(p, S, up \ {m}, down)
    BY <1>7, <1>8, <1>9, <1>10 DEF Begins
  <1> HIDE DEF p
  <1> QED
    BY <1>2, <1>3, <1>4, <1>11

\* exchange_response_completion takes a response.
LEMMA ResponseBegins ==
  ASSUME TypeInv, IndInv, NEW m \in down, exchange_response_completion(m)
  PROVE  /\ Begins(m.to, session, up, down \ {m})
         /\ m.to \in Ranks /\ m.to # 0
         /\ session[m.to] \in Session /\ session[m.to].local
         /\ session[m.to].f /\ session[m.to].arg = m.tag
         /\ Free(session, up, down \ {m}, m.to)
         /\ m.data \in Seq(Contributions)
         /\ calls' = calls /\ gathers' = gathers
  <1> DEFINE r == m.to
  <1> DEFINE d == down \ {m}
  <1>1. TypeOK /\ r \in Ranks /\ m.data \in Seq(Contributions)
    BY DEF TypeInv, TypeOK, Response
  <1>2. State(session, up, down, calls, answers, gathers)
        /\ Inv(session, up, down, calls, answers, gathers)
    BY <1>1, TypedState DEF IndInv
  <1>3. session[r].f /\ session[r].arg = m.tag /\ calls' = calls /\ gathers' = gathers
    BY DEF exchange_response_completion, Expected
  <1>4. session[r] \in Session
    BY <1>1 DEF TypeOK
  <1>5. session[r].local /\ r # 0
    BY <1>1, <1>2, <1>3 DEF Inv, SessionInv
  <1>6. up \in SUBSET up /\ d \in SUBSET down
    OBVIOUS
  <1>7. Inv(session, up, d, calls, answers, gathers)
    BY <1>2, <1>6, RemoveStep
  <1>8. State(session, up, d, calls, answers, gathers)
    BY <1>2 DEF State
  <1>9. Free(session, up, d, r)
    BY <1>2 DEF Free, Inv, OnePlaceInv
  <1>10. Returns(r, session, up, d)
    BY <1>3 DEF Returns
  <1> QED
    BY <1>1, <1>3, <1>4, <1>5, <1>7, <1>8, <1>9, <1>10 DEF Begins

\* exchange_enter_base64_string, when it accepts a call, keeps the invariant.
LEMMA EnterInv ==
  ASSUME NoLeaks, TypeInv, IndInv, TypeInv',
         NEW r \in Ranks, NEW collect \in Collect, Enter(r, collect)
  PROVE  IndInv'
  BY EnterBegins, ProcessInv DEF Begins, TypeInv

\* exchange_request_cb, when it accepts a request, keeps the invariant.
LEMMA RequestInv ==
  ASSUME NoLeaks, TypeInv, IndInv, NEW m \in up, exchange_request_cb(m)
  PROVE  IndInv'
  BY RequestBegins, ProcessInv DEF Begins, TypeInv

\* A request that fails or is refused, whether or not the child is told.
LEMMA RequestErrorInv ==
  ASSUME NoLeaks, TypeInv, IndInv, NEW m \in up, RequestRefused(m) \/ RequestFails(m)
  PROVE  IndInv'
  <1> DEFINE p == parent_rank(m.from)
  <1>1. TypeOK /\ m.from \in Ranks /\ m.from # 0
    BY DEF TypeInv, TypeOK, Request
  <1>2. p \in Ranks
    BY <1>1, ParentInTree
  <1>3. ~Fault("append") /\ ~FaultReported("append", m)
    BY DEF NoLeaks, LeakyFaults, Fault, FaultReported
  <1>4. session' = session \/ session' = [session EXCEPT ![p] = OpenSession(p)]
    BY <1>3 DEF RequestRefused, RequestFails
  <1>5. /\ up' = up \ {m}
        /\ down' = down \/ down' = down \cup {ErrorResponse(m)}
        /\ calls' = calls /\ answers' = answers /\ gathers' = gathers
    BY DEF RequestRefused, RequestFails, FaultReported
  <1>6. State(session, up, down, calls, answers, gathers)
        /\ Inv(session, up, down, calls, answers, gathers)
    BY <1>1, TypedState DEF IndInv
  <1>7. \/ session' = session
        \/ ~session[p].open /\ session' = [session EXCEPT ![p] = session_create]
    BY <1>1, <1>2, <1>4 DEF OpenSession, TypeOK
  <1>8. Inv(session', up, down, calls, answers, gathers)
    BY <1>2, <1>6, <1>7, OpenStep
  <1>9. State(session', up, down, calls, answers, gathers)
    BY <1>2, <1>6, <1>7, NoSessionType DEF State
  <1>10. Inv(session', up \ {m}, down \cup {ErrorResponse(m)}, calls, answers, gathers)
    BY <1>8, <1>9, RefuseStep
  <1>11. up \ {m} \in SUBSET up /\ down \in SUBSET down
    OBVIOUS
  <1>12. Inv(session', up \ {m}, down, calls, answers, gathers)
    BY <1>8, <1>11, RemoveStep
  <1> QED
    BY <1>5, <1>10, <1>12 DEF IndInv

\* exchange_response_completion keeps the invariant.
LEMMA ResponseInv ==
  ASSUME NoLeaks, TypeInv, IndInv, NEW m \in down, exchange_response_completion(m)
  PROVE  IndInv'
  <1> DEFINE r == m.to
  <1> DEFINE d == down \ {m}
  <1>1. /\ Begins(r, session, up, d)
        /\ r \in Ranks /\ r # 0
        /\ session[r] \in Session /\ session[r].local
        /\ session[r].f /\ session[r].arg = m.tag
        /\ Free(session, up, d, r)
        /\ m.data \in Seq(Contributions)
        /\ calls' = calls /\ gathers' = gathers
    BY ResponseBegins
  <1>2. State(session, up, d, calls, answers, gathers)
        /\ Inv(session, up, d, calls, answers, gathers)
    BY <1>1 DEF Begins
  <1>3. session \in [Ranks -> Session] /\ session = [session EXCEPT ![r] = session[r]]
    BY <1>1 DEF TypeInv, TypeOK
  <1>4. CASE m.ok /\ Complete(r, session[r], m.data, up, d)
    <2>1. gathers # <<>> /\ m.data = Last(gathers).data /\ m.tag = Last(gathers).calls[r]
      BY <1>4 DEF IndInv, Inv, DownInv
    <2>2. \A i \in DOMAIN session[r].requests :
              session[r].requests[i].tag = Last(gathers).calls[session[r].requests[i].from]
      BY <1>1, <1>2, <2>1 DEF Inv, RelayInv
    <2>3. Last(gathers).calls[r] = session[r].arg
      BY <1>1, <2>1
    <2> HIDE DEF r, d
    <2>4. Inv(session', up', down', calls, answers', gathers)
      BY <1>1, <1>2, <1>3, <1>4, <2>1, <2>2, <2>3, CompleteInv
    <2> QED
      BY <1>1, <2>4 DEF IndInv
  <1>5. CASE /\ Exit(r, session[r], "PMIX_ERROR", <<>>)
             /\ UNCHANGED up
             /\ down' = d
    <2> HIDE DEF r, d
    <2>1. Inv(session', up, d, calls, answers', gathers)
      BY <1>1, <1>2, <1>3, <1>5, ErrorExitInv
    <2> QED
      BY <1>1, <1>5, <2>1 DEF IndInv
  <1> QED
    BY <1>4, <1>5 DEF exchange_response_completion

\* A call is answered with an error at once, and no session has anything of it.
LEMMA RejectStep ==
  ASSUME NEW S, NEW U, NEW D, NEW C, NEW A, NEW G,
         State(S, U, D, C, A, G), Inv(S, U, D, C, A, G),
         NEW r \in Ranks, NEW collect \in BOOLEAN,
         NEW a \in Answer, a.call = Len(C[r]) + 1, a.status = "PMIX_ERROR"
  PROVE  Inv(S, U, D, [C EXCEPT ![r] = Append(@, collect)],
             [A EXCEPT ![r] = Append(@, a)], G)
  <1> DEFINE n == Len(C[r]) + 1
  <1> DEFINE B == [C EXCEPT ![r] = Append(@, collect)]
  <1> DEFINE E == [A EXCEPT ![r] = Append(@, a)]
  <1>1. /\ SessionInv(S, C, A) /\ UpInv(S, U) /\ HeldInv(S) /\ DownInv(S, D, G)
        /\ OnePlaceInv(S, U, D) /\ DataInv(S, C) /\ RelayInv(S, G)
        /\ GatherInv(C, G) /\ AnswerInv(C, A, G)
    BY DEF Inv
  <1>2. /\ \A x \in Ranks \ {r} : B[x] = C[x]
        /\ n \in Nat
        /\ DOMAIN C[r] = 1 .. n - 1
        /\ DOMAIN B[r] = 1 .. n
        /\ \A k \in DOMAIN C[r] : B[r][k] = C[r][k]
    BY DEF State
  <1>3. /\ \A x \in Ranks \ {r} : E[x] = A[x]
        /\ A[r] \in Seq(Answer) /\ Len(A[r]) \in Nat
        /\ DOMAIN A[r] = 1 .. Len(A[r])
        /\ DOMAIN E[r] = 1 .. Len(A[r]) + 1
        /\ E[r][Len(A[r]) + 1] = a
        /\ \A i \in DOMAIN A[r] : E[r][i] = A[r][i]
    BY DEF State
  <1>4. \A i \in DOMAIN E[r] : i \in DOMAIN A[r] \/ i = Len(A[r]) + 1
    BY <1>3
  <1>5. \A x \in Ranks : DOMAIN C[x] \subseteq DOMAIN B[x]
                         /\ \A k \in DOMAIN C[x] : B[x][k] = C[x][k]
    BY <1>2
  <1>6. a.call = n /\ n \notin DOMAIN C[r] /\ n \in DOMAIN B[r]
    BY <1>2
  <1> HIDE DEF n, B, E
  <1>7. SessionInv(S, B, E)
    <2>1. ASSUME NEW x \in Ranks, S[x].local
          PROVE  S[x].arg \in DOMAIN B[x] /\ S[x].arg \notin AnsweredIn(E, x)
      <3>1. S[x].arg \in DOMAIN C[x] /\ S[x].arg \notin AnsweredIn(A, x)
        BY <1>1, <2>1 DEF SessionInv
      <3>2. CASE x # r
        BY <1>3, <1>5, <3>1, <3>2 DEF AnsweredIn
      <3>3. CASE x = r
        <4>1. \A i \in DOMAIN E[r] : E[r][i].call \in AnsweredIn(A, r) \/ E[r][i].call = n
          BY <1>3, <1>4, <1>6 DEF AnsweredIn
        <4>2. \A k \in AnsweredIn(E, r) : k \in AnsweredIn(A, r) \/ k = n
          BY <4>1 DEF AnsweredIn
        <4> QED
          BY <1>5, <1>6, <3>1, <3>3, <4>2
      <3> QED
        BY <3>2, <3>3
    <2> QED
      BY <1>1, <2>1 DEF SessionInv
  <1>8. GatherInv(B, G)
    <2> SUFFICES ASSUME NEW i \in DOMAIN G
                 PROVE  /\ \A x \in Ranks : G[i].calls[x] \in DOMAIN B[x]
                        /\ ToSet(G[i].data) = {<<x, G[i].calls[x]>> :
                               x \in {t \in Ranks : B[t][G[i].calls[t]]}}
                        /\ IsInjective(G[i].data)
      BY DEF GatherInv
    <2>1. /\ \A x \in Ranks : G[i].calls[x] \in DOMAIN C[x]
          /\ ToSet(G[i].data) = {<<x, G[i].calls[x]>> :
                               x \in {t \in Ranks : C[t][G[i].calls[t]]}}
          /\ IsInjective(G[i].data)
      BY <1>1 DEF GatherInv
    <2>2. {t \in Ranks : B[t][G[i].calls[t]]} = {t \in Ranks : C[t][G[i].calls[t]]}
      BY <1>5, <2>1
    <2> QED
      BY <1>5, <2>1, <2>2
  <1>9. DataInv(S, B)
    <2>1. \A x \in Ranks : Own(S, B, x) = Own(S, C, x)
      BY <1>1, <1>5 DEF Own, SessionInv
    <2> QED
      BY <1>1, <2>1 DEF DataInv
  <1>10. AnswerInv(B, E, G)
    <2>1. \A i \in DOMAIN A[r] : A[r][i].call \in DOMAIN C[r] /\ A[r][i].call # n
      BY <1>1, <1>6 DEF AnswerInv
    <2>2. ASSUME NEW i \in DOMAIN E[r]
          PROVE  /\ E[r][i].call \in DOMAIN B[r]
                 /\ \A j \in DOMAIN E[r] : E[r][i].call = E[r][j].call => i = j
                 /\ E[r][i].status = "PMIX_SUCCESS" =>
                       \E k \in DOMAIN G : /\ G[k].calls[r] = E[r][i].call
                                           /\ G[k].data = E[r][i].data
      <3>1. CASE i \in DOMAIN A[r]
        <4>1. E[r][i] = A[r][i] /\ A[r][i].call \in DOMAIN B[r]
          BY <1>3, <1>5, <2>1, <3>1
        <4>2. /\ \A j \in DOMAIN A[r] : A[r][i].call = A[r][j].call => i = j
              /\ A[r][i].status = "PMIX_SUCCESS" =>
                    \E k \in DOMAIN G : /\ G[k].calls[r] = A[r][i].call
                                        /\ G[k].data = A[r][i].data
          BY <1>1, <3>1 DEF AnswerInv
        <4>3. \A j \in DOMAIN E[r] : A[r][i].call = E[r][j].call => i = j
          BY <1>3, <1>4, <1>6, <2>1, <3>1, <4>2
        <4> QED
          BY <4>1, <4>2, <4>3
      <3>2. CASE i = Len(A[r]) + 1
        <4>1. E[r][i] = a /\ a.call = n
          BY <1>3, <1>6, <3>2
        <4>2. \A j \in DOMAIN A[r] : E[r][j].call # n
          BY <1>3, <2>1
        <4>3. \A j \in DOMAIN E[r] : n = E[r][j].call => j = i
          BY <1>4, <3>2, <4>2
        <4> QED
          BY <1>6, <4>1, <4>3
      <3> QED
        BY <1>4, <3>1, <3>2
    <2>3. ASSUME NEW x \in Ranks \ {r}, NEW i \in DOMAIN E[x]
          PROVE  /\ E[x][i].call \in DOMAIN B[x]
                 /\ \A j \in DOMAIN E[x] : E[x][i].call = E[x][j].call => i = j
                 /\ E[x][i].status = "PMIX_SUCCESS" =>
                       \E k \in DOMAIN G : /\ G[k].calls[x] = E[x][i].call
                                           /\ G[k].data = E[x][i].data
      BY <1>1, <1>3, <1>5 DEF AnswerInv
    <2> QED
      BY <2>2, <2>3 DEF AnswerInv
  <1> QED
    BY <1>1, <1>7, <1>8, <1>9, <1>10 DEF Inv, B, E

\* A refused or failed call keeps the invariant.
LEMMA EnterErrorInv ==
  ASSUME NoLeaks, TypeInv, IndInv, NEW r \in Ranks, NEW collect \in Collect,
         EnterRefused(r, collect) \/ EnterFails(r, collect)
  PROVE  IndInv'
  <1> DEFINE a == [call |-> Len(calls[r]) + 1, status |-> "PMIX_ERROR", data |-> <<>>]
  <1>1. TypeOK /\ collect \in BOOLEAN
    BY CollectAssumption DEF TypeInv
  <1>2. ~Fault("enter_append")
    BY DEF NoLeaks, LeakyFaults, Fault
  <1>3. /\ calls' = [calls EXCEPT ![r] = Append(@, collect)]
        /\ answers' = [answers EXCEPT ![r] = Append(@, a)]
        /\ session' = session /\ up' = up /\ down' = down /\ gathers' = gathers
    BY <1>2 DEF EnterRefused, EnterFails, MakeCall, Reply
  <1>4. Len(calls[r]) + 1 \in Nat
    BY <1>1 DEF TypeOK
  <1>5. a \in Answer
    BY <1>4, EmptyData DEF Answer
  <1>6. a.call = Len(calls[r]) + 1 /\ a.status = "PMIX_ERROR"
    OBVIOUS
  <1>7. State(session, up, down, calls, answers, gathers)
        /\ Inv(session, up, down, calls, answers, gathers)
    BY <1>1, TypedState DEF IndInv
  <1> HIDE DEF a
  <1>8. Inv(session, up, down, [calls EXCEPT ![r] = Append(@, collect)],
            [answers EXCEPT ![r] = Append(@, a)], gathers)
    BY <1>1, <1>5, <1>6, <1>7, RejectStep
  <1> QED
    BY <1>3, <1>8 DEF IndInv

\* A response nobody waits for is dropped without effect.
LEMMA DropInv ==
  ASSUME TypeInv, IndInv, NEW m \in down, DropResponse(m)
  PROVE  IndInv'
  <1>1. up \in SUBSET up /\ down \ {m} \in SUBSET down
    OBVIOUS
  <1>2. State(session, up, down, calls, answers, gathers)
        /\ Inv(session, up, down, calls, answers, gathers)
    BY TypedState DEF IndInv, TypeInv
  <1>3. Inv(session, up, down \ {m}, calls, answers, gathers)
    BY <1>1, <1>2, RemoveStep
  <1> QED
    BY <1>3 DEF DropResponse, IndInv

-----------------------------------------------------------------------------
(* The theorems.                                                           *)

\* Every step keeps the invariant, if no failure leaves part of its effect behind.
LEMMA IndInvNext == NoLeaks /\ TypeInv /\ IndInv /\ [Next]_vars => IndInv'
  <1> SUFFICES ASSUME NoLeaks, TypeInv, IndInv, [Next]_vars
               PROVE  IndInv'
    OBVIOUS
  <1>0. TypeInv'
    BY TypeInvNext
  <1>1. ASSUME NEW r \in Ranks, NEW collect \in Collect, Enter(r, collect)
        PROVE  IndInv'
    BY <1>0, <1>1, EnterInv
  <1>2. ASSUME NEW r \in Ranks, NEW collect \in Collect,
               EnterRefused(r, collect) \/ EnterFails(r, collect)
        PROVE  IndInv'
    BY <1>2, EnterErrorInv
  <1>3. ASSUME NEW m \in up, exchange_request_cb(m)
        PROVE  IndInv'
    BY <1>3, RequestInv
  <1>4. ASSUME NEW m \in up, RequestRefused(m) \/ RequestFails(m)
        PROVE  IndInv'
    BY <1>4, RequestErrorInv
  <1>5. ASSUME NEW m \in down, exchange_response_completion(m)
        PROVE  IndInv'
    BY <1>5, ResponseInv
  <1>6. ASSUME NEW m \in down, DropResponse(m)
        PROVE  IndInv'
    BY <1>6, DropInv
  <1>7. CASE UNCHANGED vars
    BY <1>7 DEF vars, IndInv
  <1>8. CASE Finished
    BY <1>7, <1>8 DEF Finished
  <1> QED
    BY <1>1, <1>2, <1>3, <1>4, <1>5, <1>6, <1>7, <1>8
    DEF Next, RequestCb, ResponseCb

\* The invariant is inductive, hence always true.
LEMMA IndInvAlways == ASSUME NoLeaks PROVE Spec => []IndInv
  <1>1. Spec => []TypeInv
    BY TypeInvInit, TypeInvNext, PTL DEF Spec
  <1>2. TypeInv /\ IndInv /\ [Next]_vars => IndInv'
    BY IndInvNext
  <1> QED
    BY <1>1, <1>2, IndInvInit, PTL DEF Spec

\* Every result the root makes holds exactly one contribution of each shell
\* whose call collects, from a call that shell made: session_process never
\* completes with data missing, repeated or from another round.
THEOREM GatherIsComplete == ASSUME NoLeaks PROVE Spec => []GatherComplete
  <1>1. IndInv => GatherComplete
    BY DEF IndInv, Inv, GatherInv, GatherComplete, Expectation, ToSet
  <1> QED
    BY <1>1, IndInvAlways, PTL

\* A fence that succeeds on a shell brings the data of the gather its own call
\* took part in, whichever other handlers fail.
THEOREM SuccessIsFromOwnGather == ASSUME NoLeaks PROVE Spec => []SuccessFromOwnGather
  <1>1. IndInv => SuccessFromOwnGather
    BY DEF IndInv, Inv, AnswerInv, SuccessFromOwnGather, ToSet
  <1> QED
    BY <1>1, IndInvAlways, PTL

\* cbfunc is called at most once for each call.
THEOREM AnswersAreUnique == ASSUME NoLeaks PROVE Spec => []AnsweredOnce
  <1>1. IndInv => AnsweredOnce
    BY DEF IndInv, Inv, AnswerInv, AnsweredOnce, IsInjective
  <1> QED
    BY <1>1, IndInvAlways, PTL

=============================================================================
