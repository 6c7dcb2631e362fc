------------------------ MODULE ExchangeRoundsProofs ------------------------
(***************************************************************************)
(* What keeps the rounds of an exchange apart, for every tree, every bound *)
(* and every set of failures that leave nothing of their effect behind: no *)
(* call is gathered twice, and an exchange implements an allgather.        *)
(*                                                                         *)
(* Every step is first put in one of a few forms: a handler begins by      *)
(* changing the session of its shell (Begins) and ends in one of three     *)
(* ways (Ends), or a call is turned away, or a request is lost or refused. *)
(* An invariant is then shown to be kept by each form.                     *)
(***************************************************************************)
EXTENDS ExchangeProofs

-----------------------------------------------------------------------------
(* The forms of a step.                                                    *)

\* session_process finds that the exchange cannot go on yet.
Waits(S, u, d) ==
    /\ session' = S
    /\ up' = u
    /\ down' = d
    /\ answers' = answers
    /\ gathers' = gathers

\* session_process sends the request of shell r to its parent.
Sends(r, S, u, d) ==
    /\ r # 0 /\ S[r].local /\ ~S[r].f
    /\ \E ses \in Session :
          /\ session' = [S EXCEPT ![r] = ses]
          /\ ses.f /\ ses.local /\ ses.arg = S[r].arg /\ ses.requests = S[r].requests
    /\ \E m \in Request : m.from = r /\ m.tag = S[r].arg /\ up' = u \cup {m}
    /\ down' = d
    /\ answers' = answers
    /\ gathers' = gathers

\* Shell r is the root and has made a gather of the calls in S.
Gathers(r, S) == /\ r = 0
                 /\ RootReady(S)
                 /\ \E g : Takes(S, g) /\ Extends(gathers', gathers, g)

\* The call of shell r gets answer a, and the children whose requests it holds
\* get responses R: without an error each of them gets one.
Tells(r, S, d, a, R) ==
    /\ answers' = [answers EXCEPT ![r] = Append(@, a)]
    /\ a.call = S[r].arg
    /\ Faults = {} /\ (\A n \in down : n.ok) => a.status = "PMIX_SUCCESS"
    /\ down' = d \cup R
    /\ \A n \in R : n.ok
    /\ \/ a.status = "PMIX_ERROR"
       \/ \A i \in DOMAIN S[r].requests :
             \E n \in R : /\ n.to = S[r].requests[i].from
                          /\ n.tag = S[r].requests[i].tag

\* Shell r ends its exchange.
Exits(r, S, u, d) ==
    /\ S[r].local
    /\ Free(S, u, d, r)
    /\ session' = [S EXCEPT ![r] = NoSession]
    /\ up' = u
    /\ gathers' = gathers \/ Gathers(r, S)
    /\ \E a \in Answer, R \in SUBSET Response : Tells(r, S, d, a, R)

\* How a handler of shell r that began with S, u and d ends.
Ends(r, S, u, d) == Waits(S, u, d) \/ Sends(r, S, u, d) \/ Exits(r, S, u, d)

\* A call of shell r is answered with an error at once.
Rejects(r) ==
    /\ \E collect \in Collect : calls' = [calls EXCEPT ![r] = Append(@, collect)]
    /\ \E a \in Answer : /\ answers' = [answers EXCEPT ![r] = Append(@, a)]
                         /\ a.call = Len(calls[r]) + 1
                         /\ a.status = "PMIX_ERROR"
    /\ MayCall(r)
    /\ session[r].local \/ Faults # {}
    /\ session' = session /\ up' = up /\ down' = down /\ gathers' = gathers

\* Two failures at once lose a request without telling the child.
Silent == MaxFaults >= 2 /\ {"request", "respond_error"} \subseteq Faults

\* Request m fails at its parent, which may or may not have opened a session;
\* the child is told, if telling it does not fail as well.
Loses(m) ==
    /\ \A x \in Ranks : /\ session'[x].local = session[x].local
                        /\ session'[x].arg = session[x].arg
                        /\ session'[x].f = session[x].f
                        /\ session'[x].requests = session[x].requests
    /\ Faults # {}
    /\ up' = up \ {m}
    /\ \/ down' = down \cup {ErrorResponse(m)}
       \/ Silent /\ down' = down
    /\ calls' = calls /\ answers' = answers /\ gathers' = gathers

\* An exit with an error, without a response to any child, has the form of one.
LEMMA ErrorExits ==
  ASSUME NEW S, NEW u, NEW d,
         NEW r \in Ranks, NEW ses \in Session, session \in [Ranks -> Session],
         S = [session EXCEPT ![r] = ses],
         ses.local, Free(S, u, d, r), Exit(r, ses, "PMIX_ERROR", <<>>),
         up' = u, down' = d, gathers' = gathers,
         Faults # {} \/ ~ \A n \in down : n.ok
  PROVE  Exits(r, S, u, d)
  <1> DEFINE a == [call |-> ses.arg, status |-> "PMIX_ERROR", data |-> <<>>]
  <1>1. S[r] = ses
    OBVIOUS
  <1>2. a \in Answer /\ a.call = S[r].arg /\ a.status = "PMIX_ERROR"
    BY <1>1, EmptyData DEF Answer, Session
  <1>3. session' = [S EXCEPT ![r] = NoSession]
    BY DEF Exit
  <1>4. answers' = [answers EXCEPT ![r] = Append(@, a)]
    BY DEF Exit, Reply
  <1> HIDE DEF a
  <1>5. Tells(r, S, d, a, {})
    BY <1>2, <1>4 DEF Tells
  <1>6. {} \in SUBSET Response
    OBVIOUS
  <1> QED
    BY <1>1, <1>2, <1>3, <1>5, <1>6 DEF Exits

\* An exit with the result has the form of one.
LEMMA CompleteExits ==
  ASSUME NEW S, NEW u, NEW d, NEW out \in Seq(Contributions),
         NEW r \in Ranks, NEW ses \in Session, session \in [Ranks -> Session],
         S = [session EXCEPT ![r] = ses],
         ses.local, Free(S, u, d, r), Complete(r, ses, out, u, d),
         gathers' = gathers \/ Gathers(r, S)
  PROVE  Exits(r, S, u, d)
  <1>1. S[r] = ses /\ ses.requests \in Seq(Route)
    BY DEF Session
  <1>2. up' = u /\ session' = [S EXCEPT ![r] = NoSession]
    BY DEF Complete, exchange_get_data, Exit
  <1>3. CASE Exit(r, ses, "PMIX_ERROR", <<>>) /\ Faults # {}
    <2> DEFINE a == [call |-> ses.arg, status |-> "PMIX_ERROR", data |-> <<>>]
    <2>1. a \in Answer /\ a.call = S[r].arg /\ a.status = "PMIX_ERROR"
      BY <1>1, EmptyData DEF Answer, Session
    <2>2. answers' = [answers EXCEPT ![r] = Append(@, a)]
      BY <1>3 DEF Exit, Reply
    <2>3. ASSUME NEW i \in 1 .. Len(ses.requests)
          PROVE  SubSeq(ses.requests, 1, i - 1) \in Seq(Route)
      BY <1>1, SubSeqProperties
    <2>4. PICK routes \in Seq(Route) : down' = d \cup Responses(routes, out)
      BY <1>1, <2>3 DEF Complete, exchange_get_data
    <2> DEFINE R == Responses(routes, out)
    <2>5. R \in SUBSET Response /\ \A n \in R : n.ok
      BY ResponsesType DEF Responses
    <2>6. down' = d \cup R
      BY <2>4
    <2> HIDE DEF a, R
    <2>7. Tells(r, S, d, a, R)
      BY <1>3, <2>1, <2>2, <2>5, <2>6 DEF Tells
    <2> QED
      BY <1>1, <1>2, <2>1, <2>5, <2>7 DEF Exits
  <1>4. CASE Exit(r, ses, "PMIX_SUCCESS", out) /\ down' = d \cup Responses(ses.requests, out)
    <2> DEFINE a == [call |-> ses.arg, status |-> "PMIX_SUCCESS", data |-> out]
    <2> DEFINE R == Responses(ses.requests, out)
    <2>1. a \in Answer /\ a.call = S[r].arg /\ a.status = "PMIX_SUCCESS"
      BY <1>1 DEF Answer, Session
    <2>2. answers' = [answers EXCEPT ![r] = Append(@, a)]
      BY <1>4 DEF Exit, Reply
    <2>3. R \in SUBSET Response /\ \A n \in R : n.ok
      BY <1>1, ResponsesType DEF Responses
    <2>4. ASSUME NEW i \in DOMAIN S[r].requests
          PROVE  \E n \in R : /\ n.to = S[r].requests[i].from
                              /\ n.tag = S[r].requests[i].tag
      <3> DEFINE q == ses.requests[i]
      <3> DEFINE n == [to |-> q.from, tag |-> q.tag, ok |-> TRUE, data |-> out]
      <3>1. q \in ToSet(ses.requests)
        BY <1>1 DEF ToSet
      <3>2. n \in R /\ n.to = q.from /\ n.tag = q.tag
        BY <3>1 DEF Responses
      <3> HIDE DEF n, R
      <3> QED
        BY <1>1, <3>2
    <2> HIDE DEF a, R
    <2>5. down' = d \cup R
      BY <1>4 DEF R
    <2>6. Tells(r, S, d, a, R)
      BY <2>1, <2>2, <2>3, <2>4, <2>5 DEF Tells
    <2> QED
      BY <1>1, <1>2, <2>1, <2>3, <2>6 DEF Exits
  <1> QED
    BY <1>3, <1>4 DEF Complete, exchange_get_data, Fault

\* session_process ends a handler in one of the three ways.
LEMMA ProcessEnds ==
  ASSUME NoLeaks, TypeOK, NEW r \in Ranks, NEW ses \in Session,
         NEW S, S = [session EXCEPT ![r] = ses], NEW u, NEW d,
         State(S, u, d, calls', answers, gathers),
         Inv(S, u, d, calls', answers, gathers),
         session_process(r, ses, u, d)
  PROVE  Ends(r, S, u, d)
  <1>1. session \in [Ranks -> Session] /\ S[r] = ses
    BY DEF TypeOK
  <1>2. UpInv(S, u) /\ HeldInv(S) /\ DownInv(S, d, gathers)
    BY DEF Inv
  <1>3. CASE Wait(r, ses, u, d)
    BY <1>3 DEF Wait, Waits, Ends
  <1>4. CASE SendRequest(r, ses, u, d)
    <2>1. ses.local /\ ~ses.f
      BY <1>4, NotAwaitingIsReady DEF SendRequest
    <2>2. r # 0 /\ down' = d /\ gathers' = gathers
      BY <1>4 DEF SendRequest, Ranks
    <2>3. CASE /\ session' = [session EXCEPT ![r] = [ses EXCEPT !.f = TRUE]]
               /\ up' = u \cup {[from |-> r, tag |-> ses.arg, data |-> ses.data_in]}
               /\ UNCHANGED answers
      <3> DEFINE sent == [ses EXCEPT !.f = TRUE]
      <3> DEFINE m == [from |-> r, tag |-> ses.arg, data |-> ses.data_in]
      <3>1. /\ sent \in Session /\ sent.f /\ sent.local
            /\ sent.arg = ses.arg /\ sent.requests = ses.requests
        BY <2>1 DEF Session
      <3>2. m \in Request /\ m.from = r /\ m.tag = ses.arg
        BY DEF Session, Request
      <3>3. session' = [S EXCEPT ![r] = sent] /\ up' = u \cup {m}
        BY <1>1, <2>3
      <3> HIDE DEF sent, m
      <3> QED
        BY <1>1, <2>1, <2>2, <2>3, <3>1, <3>2, <3>3 DEF Sends, Ends
    <2>4. CASE Exit(r, ses, "PMIX_ERROR", <<>>) /\ up' = u /\ Fault("send")
      <3>1. Free(S, u, d, r)
        BY <1>1, <1>2, <2>1, NotWaitingIsFree
      <3>2. Faults # {}
        BY <2>4 DEF Fault
      <3> QED
        BY <1>1, <2>1, <2>2, <2>4, <3>1, <3>2, ErrorExits DEF Ends
    <2>5. ~Fault("then")
      BY DEF NoLeaks, LeakyFaults, Fault
    <2> QED
      BY <1>4, <2>3, <2>4, <2>5 DEF SendRequest
  <1>5. CASE RootComplete(r, ses, u, d)
    <2> DEFINE g == [calls |-> [s \in Ranks |-> S[s].arg], data |-> ses.data_in]
    <2>1. ses.local /\ ~ses.f /\ Len(ses.requests) >= child_count(K, r, Size)
      BY <1>5, NotAwaitingIsReady DEF RootComplete
    <2>2. r = 0 /\ Complete(r, ses, ses.data_in, u, d)
      BY <1>5 DEF RootComplete
    <2>3. [s \in Ranks |-> IF s = r THEN ses.arg ELSE session[s].arg]
              = [s \in Ranks |-> S[s].arg]
      BY <1>1
    <2>4. gathers' = Append(gathers, g)
      BY <1>5, <2>3 DEF RootComplete
    <2>5. ses.data_in \in Seq(Contributions)
      BY DEF Session
    <2>6. g \in Gather /\ g.calls = [s \in Ranks |-> S[s].arg] /\ g.data = S[0].data_in
      <3>1. [s \in Ranks |-> S[s].arg] \in [Ranks -> Nat]
        BY DEF State, Session
      <3> QED
        BY <1>1, <2>2, <2>5, <3>1 DEF Gather
    <2> HIDE DEF g
    <2>7. Gathers(r, S)
      BY <1>1, <2>1, <2>2, <2>4, <2>6 DEF Gathers, RootReady, Takes, Extends
    <2>8. Free(S, u, d, r)
      BY <1>1, <1>2, <2>1, NotWaitingIsFree
    <2> QED
      BY <1>1, <2>1, <2>2, <2>5, <2>7, <2>8, CompleteExits DEF Ends
  <1> QED
    BY <1>3, <1>4, <1>5 DEF session_process

\* exchange_request_cb is never handed one request too many.
LEMMA NeverTooMany ==
  ASSUME TypeInv, IndInv, NEW m \in up
  PROVE  ~TooMany(parent_rank(m.from))
  <1> DEFINE p == parent_rank(m.from)
  <1>1. TypeOK /\ m.from \in Ranks /\ m.from # 0
    BY DEF TypeInv, TypeOK, Request
  <1>2. p \in Ranks /\ m.from \in Children(p)
    BY <1>1, ParentInTree DEF Children
  <1>3. State(session, up, down, calls, answers, gathers) /\ HeldInv(session)
    BY <1>1, TypedState DEF IndInv, Inv
  <1>4. m.from \notin Held(session, p)
    BY <1>2 DEF IndInv, Inv, OnePlaceInv
  <1>5. child_count(K, p, Size) \in Nat
    BY <1>2, ChildCountExact
  <1>6. Len(session[p].requests) # child_count(K, p, Size)
    <2> HIDE DEF p
    <2> QED
      BY <1>2, <1>3, <1>4, <1>5, ReadyHoldsAll
  <1>7. OpenSession(p).requests = session[p].requests
    BY <1>1, <1>2, OpenSessionFields
  <1> HIDE DEF p
  <1>8. ~TooMany(p)
    BY <1>6, <1>7 DEF TooMany
  <1> QED
    BY <1>8 DEF p

\* A request that fails is lost or answered with an error.
LEMMA RequestLoses ==
  ASSUME NoLeaks, TypeInv, IndInv, NEW m \in up, RequestFails(m)
  PROVE  Loses(m)
  <1> DEFINE p == parent_rank(m.from)
  <1>1. TypeOK /\ m.from \in Ranks /\ m.from # 0
    BY DEF TypeInv, TypeOK, Request
  <1>2. p \in Ranks
    BY <1>1, ParentInTree
  <1>3. ~FaultReported("append", m)
    BY DEF NoLeaks, LeakyFaults, Fault, FaultReported
  <1>4. session' = session \/ session' = [session EXCEPT ![p] = OpenSession(p)]
    BY <1>3 DEF RequestFails
  <1>5. \A x \in Ranks : /\ session'[x].local = session[x].local
                         /\ session'[x].arg = session[x].arg
                         /\ session'[x].f = session[x].f
                         /\ session'[x].requests = session[x].requests
    <2> DEFINE o == OpenSession(p)
    <2>1. /\ o.f = session[p].f /\ o.local = session[p].local
          /\ o.arg = session[p].arg /\ o.requests = session[p].requests
      BY <1>1, <1>2, OpenSessionFields
    <2>2. session \in [Ranks -> Session]
      BY <1>1 DEF TypeOK
    <2>3. session' = session \/ session' = [session EXCEPT ![p] = o]
      BY <1>4
    <2> HIDE DEF o, p
    <2> QED
      BY <1>2, <2>1, <2>2, <2>3
  <1>6. FaultReported("request", m)
    BY <1>3 DEF RequestFails
  <1>7. faults \in Nat
    BY <1>1, BoundsAssumption DEF TypeOK
  <1>8. /\ Faults # {}
        /\ down' = down \cup {ErrorResponse(m)} \/ (Silent /\ down' = down)
    BY <1>6, <1>7, BoundsAssumption DEF FaultReported, Fault, Silent
  <1> QED
    BY <1>5, <1>8 DEF RequestFails, Loses

\* A call that is refused or fails is turned away.
LEMMA EnterRejects ==
  ASSUME NoLeaks, TypeInv, NEW r \in Ranks, NEW collect \in Collect,
         EnterRefused(r, collect) \/ EnterFails(r, collect)
  PROVE  Rejects(r)
  <1> DEFINE a == [call |-> Len(calls[r]) + 1, status |-> "PMIX_ERROR", data |-> <<>>]
  <1>1. ~Fault("enter_append")
    BY DEF NoLeaks, LeakyFaults, Fault
  <1>2. /\ calls' = [calls EXCEPT ![r] = Append(@, collect)]
        /\ MayCall(r)
        /\ answers' = [answers EXCEPT ![r] = Append(@, a)]
        /\ session[r].local \/ Faults # {}
        /\ session' = session /\ up' = up /\ down' = down /\ gathers' = gathers
    BY <1>1 DEF EnterRefused, EnterFails, MakeCall, Reply, Fault
  <1>3. Len(calls[r]) + 1 \in Nat
    BY DEF TypeInv, TypeOK
  <1>4. a \in Answer /\ a.call = Len(calls[r]) + 1 /\ a.status = "PMIX_ERROR"
    BY <1>3, EmptyData DEF Answer
  <1> HIDE DEF a
  <1> QED
    BY <1>2, <1>4 DEF Rejects

\* A response handler ends the exchange of its shell.
LEMMA ResponseExits ==
  ASSUME NoLeaks, TypeInv, IndInv, NEW m \in down, exchange_response_completion(m)
  PROVE  Exits(m.to, session, up, down \ {m})
  <1> DEFINE r == m.to
  <1> DEFINE d == down \ {m}
  <1>1. /\ r \in Ranks
        /\ session[r] \in Session /\ session[r].local
        /\ Free(session, up, d, r)
        /\ m.data \in Seq(Contributions)
        /\ gathers' = gathers
    BY ResponseBegins
  <1>2. session \in [Ranks -> Session] /\ session = [session EXCEPT ![r] = session[r]]
    BY <1>1 DEF TypeInv, TypeOK
  <1>3. CASE Complete(r, session[r], m.data, up, d)
    <2> HIDE DEF r, d
    <2> QED
      BY <1>1, <1>2, <1>3, CompleteExits DEF r, d
  <1>4. CASE /\ ~m.ok \/ Fault("unpack")
             /\ Exit(r, session[r], "PMIX_ERROR", <<>>)
             /\ UNCHANGED up
             /\ down' = d
    <2>1. Faults # {} \/ ~ \A n \in down : n.ok
      BY <1>4 DEF Fault
    <2> HIDE DEF r, d
    <2>2. Exits(r, session, up, d)
      BY <1>1, <1>2, <1>4, <2>1, ErrorExits
    <2> QED
      BY <2>2 DEF r, d
  <1> QED
    BY <1>3, <1>4 DEF exchange_response_completion

\* A handler of shell r has run.
Handles(r) == \E S, u, d : /\ Begins(r, S, u, d)
                           /\ Ends(r, S, u, d)
                           /\ Returns(r, S, u, d) => Exits(r, S, u, d)

\* Every step has one of the forms.
LEMMA StepForms ==
  ASSUME NoLeaks, TypeInv, IndInv, [Next]_vars
  PROVE  \/ \E r \in Ranks : Handles(r) \/ Rejects(r)
         \/ \E m \in up : Loses(m)
         \/ UNCHANGED vars
  <1>0. TypeInv' /\ TypeOK
    BY TypeInvNext DEF TypeInv
  <1>1. ASSUME NEW r \in Ranks, NEW collect \in Collect, Enter(r, collect)
        PROVE  Handles(r)
    <2>1. PICK ses \in Session : /\ Begins(r, [session EXCEPT ![r] = ses], up, down)
                                 /\ session_process(r, ses, up, down)
      BY <1>0, <1>1, EnterBegins
    <2>2. Ends(r, [session EXCEPT ![r] = ses], up, down)
      BY <1>0, <2>1, ProcessEnds DEF Begins
    <2>3. ~Returns(r, [session EXCEPT ![r] = ses], up, down)
      BY DEF Returns
    <2> QED
      BY <2>1, <2>2, <2>3 DEF Handles
  <1>2. ASSUME NEW m \in up, exchange_request_cb(m)
        PROVE  \E r \in Ranks : Handles(r)
    <2>1. PICK r \in Ranks, ses \in Session :
              /\ Begins(r, [session EXCEPT ![r] = ses], up \ {m}, down)
              /\ session_process(r, ses, up \ {m}, down)
      BY <1>2, RequestBegins
    <2>2. Ends(r, [session EXCEPT ![r] = ses], up \ {m}, down)
      BY <1>0, <2>1, ProcessEnds DEF Begins
    <2>3. ~Returns(r, [session EXCEPT ![r] = ses], up \ {m}, down)
      BY DEF Returns
    <2> QED
      BY <2>1, <2>2, <2>3 DEF Handles
  <1>3. ASSUME NEW m \in down, exchange_response_completion(m)
        PROVE  \E r \in Ranks : Handles(r)
    BY <1>3, ResponseBegins, ResponseExits DEF Handles, Ends
  <1>4. ASSUME NEW m \in up
        PROVE  ~RequestRefused(m)
    BY NeverTooMany DEF RequestRefused
  <1>5. ASSUME NEW m \in down
        PROVE  ~DropResponse(m)
    BY DEF DropResponse, Expected, IndInv, Inv, DownInv
  <1> QED
    BY <1>1, <1>2, <1>3, <1>4, <1>5, EnterRejects, RequestLoses
    DEF Next, RequestCb, ResponseCb, Finished

-----------------------------------------------------------------------------
(* No call is gathered twice.                                              *)

\* Nothing was gathered before any call is made.
LEMMA FreshInit == Init => Fresh(session, up, gathers)
  BY DEF Init, Fresh, Gathered

\* A new call, a request taken in and a response taken out leave the sessions fresh.
LEMMA FreshBegins ==
  ASSUME TypeInv, RoundInv, NEW r \in Ranks, NEW S, NEW u, NEW d, Begins(r, S, u, d)
  PROVE  Fresh(S, u, gathers)
  <1>1. /\ \A m \in up : ~Gathered(gathers, m.from, m.tag)
        /\ session[0].local => ~Gathered(gathers, 0, session[0].arg)
        /\ \A p \in Ranks : \A i \in DOMAIN session[p].requests :
              Gathered(gathers, session[p].requests[i].from, session[p].requests[i].tag)
                  => session[p].local /\ Gathered(gathers, p, session[p].arg)
    BY DEF RoundInv, Fresh
  <1>2. \A x \in Ranks \ {r} : S[x] = session[x]
    BY DEF Begins
  <1>3. 0 \in Ranks
    BY SizeAssumption DEF Ranks
  <1>4. CASE Enters(r, S, u, d)
    <2>1. /\ ~session[r].local
          /\ S[r].local /\ S[r].arg = Len(calls[r]) + 1
          /\ S[r].requests = session[r].requests
          /\ u = up
      BY <1>4 DEF Enters
    <2>2. ~Gathered(gathers, r, S[r].arg)
      <3>1. \A i \in DOMAIN gathers : gathers[i].calls[r] \in DOMAIN calls[r]
        BY DEF RoundInv, IndInv, Inv, GatherInv
      <3>2. S[r].arg \notin DOMAIN calls[r]
        BY <2>1 DEF TypeInv, TypeOK
      <3> QED
        BY <3>1, <3>2 DEF Gathered
    <2>3. S[0].local => ~Gathered(gathers, 0, S[0].arg)
      BY <1>1, <1>2, <1>3, <2>2
    <2>4. ASSUME NEW p \in Ranks, NEW i \in DOMAIN S[p].requests,
                 Gathered(gathers, S[p].requests[i].from, S[p].requests[i].tag)
          PROVE  S[p].local /\ Gathered(gathers, p, S[p].arg)
      BY <1>1, <1>2, <2>1, <2>4
    <2> QED
      BY <1>1, <2>1, <2>3, <2>4 DEF Fresh
  <1>5. CASE Receives(r, S, u, d)
    <2>1. /\ S[r].local = session[r].local /\ S[r].arg = session[r].arg
          /\ u \subseteq up
      BY <1>5 DEF Receives
    <2>2. PICK m \in up : S[r].requests = Append(session[r].requests, RouteOf(m))
      BY <1>5 DEF Receives
    <2>3. S[0].local => ~Gathered(gathers, 0, S[0].arg)
      BY <1>1, <1>2, <1>3, <2>1
    <2>4. ASSUME NEW i \in DOMAIN S[r].requests,
                 Gathered(gathers, S[r].requests[i].from, S[r].requests[i].tag)
          PROVE  S[r].local /\ Gathered(gathers, r, S[r].arg)
      <3>1. m \in Request /\ session[r].requests \in Seq(Route)
        BY DEF TypeInv, TypeOK, Session
      <3>2. RouteOf(m) \in Route /\ RouteOf(m).from = m.from /\ RouteOf(m).tag = m.tag
        BY <3>1, RouteOfType DEF RouteOf
      <3>3. CASE i \in DOMAIN session[r].requests
        <4>1. S[r].requests[i] = session[r].requests[i]
          BY <2>2, <3>1, <3>2, <3>3
        <4> QED
          BY <1>1, <2>1, <2>4, <3>3, <4>1
      <3>4. CASE i \notin DOMAIN session[r].requests
        <4>1. S[r].requests[i] = RouteOf(m)
          BY <2>2, <3>1, <3>2, <3>4
        <4> QED
          BY <1>1, <2>4, <3>2, <4>1
      <3> QED
        BY <3>3, <3>4
    <2>5. ASSUME NEW p \in Ranks, NEW i \in DOMAIN S[p].requests,
                 Gathered(gathers, S[p].requests[i].from, S[p].requests[i].tag)
          PROVE  S[p].local /\ Gathered(gathers, p, S[p].arg)
      BY <1>1, <1>2, <2>4, <2>5
    <2> QED
      BY <1>1, <2>1, <2>3, <2>5 DEF Fresh
  <1>6. CASE Returns(r, S, u, d)
    BY <1>1, <1>6 DEF Returns, Fresh
  <1> QED
    BY <1>4, <1>5, <1>6 DEF Begins

\* The gather made by a step takes open calls that no earlier gather has taken.
NewGather ==
    \E g \in Gather :
        /\ gathers' = Append(gathers, g)
        /\ \A s \in Ranks : /\ ~Gathered(gathers, s, g.calls[s])
                            /\ g.calls[s] \in DOMAIN calls'[s]
                            /\ g.calls[s] \notin AnsweredIn(answers, s)

\* When the root is ready, no call that a shell waits with has been gathered.
LEMMA AllFresh ==
  ASSUME NEW S, NEW u, NEW d, NEW C, NEW A, NEW G,
         State(S, u, d, C, A, G), Inv(S, u, d, C, A, G), Fresh(S, u, G), RootReady(S),
         NEW s \in Ranks
  PROVE  ~Gathered(G, s, S[s].arg)
  <1> DEFINE T == {x \in Ranks : Gathered(G, x, S[x].arg)}
  <1>1. SUFFICES ASSUME T # {} PROVE FALSE
    OBVIOUS
  <1>2. T \subseteq Nat
    BY DEF Ranks
  <1>3. PICK c \in T : \A y \in T : c <= y
    <2> HIDE DEF T
    <2> QED
      BY <1>1, <1>2, LeastNat
  <1>4. c \in Ranks /\ Gathered(G, c, S[c].arg)
    BY <1>3
  <1>5. c # 0
    BY <1>4 DEF Fresh, RootReady
  <1> DEFINE p == parent_rank(c)
  <1>6. p \in Ranks /\ p < c
    BY <1>4, <1>5, ParentInTree
  <1>7. c \in Held(S, p)
    BY <1>4, <1>5, AllWaiting
  <1> HIDE DEF p
  <1>8. PICK i \in DOMAIN S[p].requests : S[p].requests[i].from = c
    BY <1>7 DEF Held
  <1>9. S[p].requests[i].tag = S[c].arg
    BY <1>6, <1>8 DEF Inv, HeldInv
  <1>10. Gathered(G, p, S[p].arg)
    BY <1>4, <1>6, <1>8, <1>9 DEF Fresh
  <1>11. p \in T
    BY <1>6, <1>10
  <1> QED
    BY <1>3, <1>4, <1>6, <1>11 DEF Ranks

\* The root gathers only new calls.
LEMMA GathersNew ==
  ASSUME NEW r, NEW S, NEW u, NEW d,
         State(S, u, d, calls', answers, gathers),
         Inv(S, u, d, calls', answers, gathers),
         Fresh(S, u, gathers), Gathers(r, S)
  PROVE  NewGather
  <1>1. RootReady(S)
    BY DEF Gathers
  <1>2. PICK g : Takes(S, g) /\ gathers' = Append(gathers, g)
    BY DEF Gathers, Extends
  <1>3. g \in Gather /\ \A s \in Ranks : g.calls[s] = S[s].arg
    BY <1>2 DEF Takes
  <1>4. \A s \in Ranks : ~Gathered(gathers, s, S[s].arg)
    BY <1>1, AllFresh
  <1>5. SessionInv(S, calls', answers)
    BY DEF Inv
  <1>6. \A s \in Ranks : S[s].local
    <2>1. \A s \in Ranks \ {0} : S[s].f
      BY <1>1, AllWaiting
    <2> QED
      BY <1>1, <1>5, <2>1 DEF SessionInv, RootReady
  <1>7. \A s \in Ranks : S[s].arg \in DOMAIN calls'[s] /\ S[s].arg \notin AnsweredIn(answers, s)
    BY <1>5, <1>6 DEF SessionInv
  <1> QED
    BY <1>2, <1>3, <1>4, <1>7 DEF NewGather

\* Whatever session_process does leaves the sessions fresh.
LEMMA FreshEnds ==
  ASSUME NEW r \in Ranks, NEW S, NEW u, NEW d,
         State(S, u, d, calls', answers, gathers),
         Inv(S, u, d, calls', answers, gathers),
         Fresh(S, u, gathers), Ends(r, S, u, d)
  PROVE  Fresh(session', up', gathers')
  <1>1. /\ \A m \in u : ~Gathered(gathers, m.from, m.tag)
        /\ S[0].local => ~Gathered(gathers, 0, S[0].arg)
        /\ \A p \in Ranks : \A i \in DOMAIN S[p].requests :
              Gathered(gathers, S[p].requests[i].from, S[p].requests[i].tag)
                  => S[p].local /\ Gathered(gathers, p, S[p].arg)
    BY DEF Fresh
  <1>2. 0 \in Ranks /\ S \in [Ranks -> Session]
    BY SizeAssumption DEF Ranks, State
  <1>3. CASE Waits(S, u, d)
    BY <1>3 DEF Waits
  <1>4. CASE Sends(r, S, u, d)
    <2>1. gathers' = gathers /\ r # 0 /\ S[r].local /\ ~S[r].f
      BY <1>4 DEF Sends
    <2>2. PICK ses \in Session : /\ session' = [S EXCEPT ![r] = ses]
                                 /\ ses.local /\ ses.arg = S[r].arg
                                 /\ ses.requests = S[r].requests
      BY <1>4 DEF Sends
    <2>3. PICK m \in Request : m.from = r /\ m.tag = S[r].arg /\ up' = u \cup {m}
      BY <1>4 DEF Sends
    <2>4. ~Gathered(gathers, r, S[r].arg)
      BY <2>1 DEF Inv, RelayInv, Gathered
    <2>5. \A x \in Ranks : /\ session'[x].local = S[x].local
                           /\ session'[x].arg = S[x].arg
                           /\ session'[x].requests = S[x].requests
      BY <1>2, <2>1, <2>2 DEF Session
    <2> QED
      BY <1>1, <1>2, <2>1, <2>3, <2>4, <2>5 DEF Fresh
  <1>5. CASE Exits(r, S, u, d)
    <2>1. /\ session' = [S EXCEPT ![r] = NoSession] /\ up' = u
          /\ gathers' = gathers \/ Gathers(r, S)
      BY <1>5 DEF Exits
    <2>2. /\ session'[r] = NoSession
          /\ \A x \in Ranks \ {r} : session'[x] = S[x]
      BY <1>2, <2>1
    <2>3. ~NoSession.local /\ NoSession.requests = <<>>
      BY DEF NoSession
    <2>4. CASE gathers' = gathers
      BY <1>1, <1>2, <2>1, <2>2, <2>3, <2>4 DEF Fresh
    <2>5. CASE Gathers(r, S)
      <3>1. r = 0 /\ RootReady(S)
        BY <2>5 DEF Gathers
      <3>2. PICK g : Takes(S, g) /\ gathers' = Append(gathers, g)
        BY <2>5 DEF Gathers, Extends
      <3>3. u = {} /\ \A s \in Ranks \ {0} : S[s].f
        BY <3>1, AllWaiting
      <3>4. \A s \in Ranks : g.calls[s] = S[s].arg
        BY <3>2 DEF Takes
      <3>5. gathers \in Seq(Gather) /\ g \in Gather
        BY <3>2 DEF State, Takes
      <3>6. Len(gathers) + 1 \in DOMAIN gathers' /\ gathers'[Len(gathers) + 1] = g
        BY <3>2, <3>5
      <3>7. \A s \in Ranks : Gathered(gathers', s, S[s].arg)
        BY <3>4, <3>6 DEF Gathered
      <3>8. \A s \in Ranks \ {0} : S[s].local
        BY <3>3 DEF Inv, SessionInv
      <3> QED
        BY <1>2, <2>1, <2>2, <2>3, <3>1, <3>3, <3>7, <3>8 DEF Fresh
    <2> QED
      BY <2>1, <2>4, <2>5
  <1> QED
    BY <1>3, <1>4, <1>5 DEF Ends

\* Every step keeps the sessions fresh, and gathers new calls if it gathers any.
LEMMA FreshNext ==
  ASSUME NoLeaks, TypeInv, RoundInv, [Next]_vars
  PROVE  /\ Fresh(session', up', gathers')
         /\ gathers' = gathers \/ NewGather
  <1>1. IndInv /\ Fresh(session, up, gathers)
    BY DEF RoundInv
  <1>2. ASSUME NEW r \in Ranks, Handles(r)
        PROVE  /\ Fresh(session', up', gathers')
               /\ gathers' = gathers \/ NewGather
    <2>1. PICK S, u, d : Begins(r, S, u, d) /\ Ends(r, S, u, d)
      BY <1>2 DEF Handles
    <2>2. /\ State(S, u, d, calls', answers, gathers)
          /\ Inv(S, u, d, calls', answers, gathers)
      BY <2>1 DEF Begins
    <2>3. Fresh(S, u, gathers)
      BY <2>1, FreshBegins
    <2>4. gathers' = gathers \/ Gathers(r, S)
      BY <2>1 DEF Ends, Waits, Sends, Exits
    <2> QED
      BY <2>1, <2>2, <2>3, <2>4, FreshEnds, GathersNew
  <1>3. ASSUME NEW r \in Ranks, Rejects(r)
        PROVE  Fresh(session', up', gathers') /\ gathers' = gathers
    BY <1>1, <1>3 DEF Rejects
  <1>4. ASSUME NEW m \in up, Loses(m)
        PROVE  Fresh(session', up', gathers') /\ gathers' = gathers
    <2>1. 0 \in Ranks
      BY SizeAssumption DEF Ranks
    <2> QED
      BY <1>1, <1>4, <2>1 DEF Loses, Fresh
  <1>5. CASE UNCHANGED vars
    BY <1>1, <1>5 DEF vars
  <1> QED
    BY <1>1, <1>2, <1>3, <1>4, <1>5, StepForms

\* The invariant behind the rounds is inductive: whatever the order of requests
\* and responses of successive rounds, exchange_request_cb holds at most one open
\* request of each child, and none of a round that is over.
THEOREM RoundInvariant == ASSUME NoLeaks PROVE Spec => []RoundInv
  <1>1. Spec => []TypeInv
    BY TypeInvInit, TypeInvNext, PTL DEF Spec
  <1>2. Init => RoundInv
    BY IndInvInit, FreshInit DEF RoundInv
  <1>3. TypeInv /\ RoundInv /\ [Next]_vars => RoundInv'
    BY IndInvNext, FreshNext DEF RoundInv
  <1> QED
    BY <1>1, <1>2, <1>3, PTL DEF Spec

\* session_process completes at the root at most once with a given call of a
\* shell: a request answered in one round is never gathered again with the next.
THEOREM NoCallIsGatheredTwice == ASSUME NoLeaks PROVE Spec => []NoCallGatheredTwice
  <1>1. Spec => []TypeInv
    BY TypeInvInit, TypeInvNext, PTL DEF Spec
  <1>2. Init => NoCallGatheredTwice
    BY DEF Init, NoCallGatheredTwice
  <1>3. ASSUME TypeInv, RoundInv, NoCallGatheredTwice, [Next]_vars
        PROVE  NoCallGatheredTwice'
    <2>1. CASE gathers' = gathers
      BY <1>3, <2>1 DEF NoCallGatheredTwice
    <2>2. CASE NewGather
      <3>1. PICK g \in Gather :
                /\ gathers' = Append(gathers, g)
                /\ \A s \in Ranks : ~Gathered(gathers, s, g.calls[s])
        BY <2>2 DEF NewGather
      <3>2. gathers \in Seq(Gather)
        BY <1>3 DEF TypeInv, TypeOK
      <3>3. /\ DOMAIN gathers' = 1 .. Len(gathers) + 1
            /\ DOMAIN gathers = 1 .. Len(gathers) /\ Len(gathers) \in Nat
            /\ gathers'[Len(gathers) + 1] = g
            /\ \A i \in DOMAIN gathers : gathers'[i] = gathers[i]
        BY <3>1, <3>2
      <3>4. \A i \in DOMAIN gathers' : i \in DOMAIN gathers \/ i = Len(gathers) + 1
        BY <3>3
      <3>5. \A i \in DOMAIN gathers : \A s \in Ranks : gathers'[i].calls[s] # g.calls[s]
        BY <3>1, <3>3 DEF Gathered
      <3> SUFFICES ASSUME NEW i \in DOMAIN gathers', NEW j \in DOMAIN gathers',
                          NEW s \in Ranks, gathers'[i].calls[s] = gathers'[j].calls[s]
                   PROVE  i = j
        BY DEF NoCallGatheredTwice
      <3>6. CASE i \in DOMAIN gathers /\ j \in DOMAIN gathers
        BY <1>3, <3>3, <3>6 DEF NoCallGatheredTwice
      <3> QED
        BY <3>3, <3>4, <3>5, <3>6
    <2> QED
      BY <1>3, <2>1, <2>2, FreshNext
  <1>4. TypeInv /\ RoundInv /\ NoCallGatheredTwice /\ [Next]_vars => NoCallGatheredTwice'
    BY <1>3
  <1> QED
    BY <1>1, <1>2, <1>4, RoundInvariant, PTL DEF Spec

-----------------------------------------------------------------------------
(* The exchange implements an allgather.                                   *)

\* What a step does to the calls and the answers of one shell.
CallsOf(r) ==
    /\ \/ calls' = calls
       \/ \E collect \in Collect : calls' = [calls EXCEPT ![r] = Append(@, collect)]
    /\ \/ answers' = answers
       \/ \E a \in Answer : answers' = [answers EXCEPT ![r] = Append(@, a)]

\* A step makes calls and answers of one shell only.
LEMMA OneCaller ==
  ASSUME NoLeaks, TypeInv, IndInv, [Next]_vars
  PROVE  \E r \in Ranks : CallsOf(r)
  <1>1. ASSUME NEW r \in Ranks, Handles(r)
        PROVE  CallsOf(r)
    <2>1. PICK S, u, d : Begins(r, S, u, d) /\ Ends(r, S, u, d)
      BY <1>1 DEF Handles
    <2>2. \/ calls' = calls
          \/ \E collect \in Collect : calls' = [calls EXCEPT ![r] = Append(@, collect)]
      BY <2>1 DEF Begins, Enters, Receives, Returns
    <2>3. \/ answers' = answers
          \/ \E a \in Answer : answers' = [answers EXCEPT ![r] = Append(@, a)]
      BY <2>1 DEF Ends, Waits, Sends, Exits, Tells
    <2> QED
      BY <2>2, <2>3 DEF CallsOf
  <1>2. ASSUME NEW r \in Ranks, Rejects(r)
        PROVE  CallsOf(r)
    BY <1>2 DEF Rejects, CallsOf
  <1>3. ASSUME NEW m \in up, Loses(m)
        PROVE  CallsOf(0)
    BY <1>3 DEF Loses, CallsOf
  <1>4. UNCHANGED vars => CallsOf(0)
    BY DEF vars, CallsOf
  <1>5. 0 \in Ranks
    BY SizeAssumption DEF Ranks
  <1> QED
    BY <1>1, <1>2, <1>3, <1>4, <1>5, StepForms

\* The operators on sequences are those of AllGather.
LEMMA SameOperators ==
  ASSUME NEW q
  PROVE  /\ AG!ToSet(q) = ToSet(q)
         /\ AG!Last(q) = Last(q)
         /\ AG!IsInjective(q) <=> IsInjective(q)
  BY DEF AG!ToSet, ToSet, AG!Last, Last, AG!IsInjective, IsInjective

\* The gather of a step is a proper one.
LEMMA GatherImplemented ==
  ASSUME NoLeaks, TypeInv, RoundInv, IndInv', [Next]_vars
  PROVE  AG!MakeGather
  <1>1. CASE gathers' = gathers
    BY <1>1 DEF AG!MakeGather
  <1>2. CASE NewGather
    <2>1. PICK g \in Gather :
              /\ gathers' = Append(gathers, g)
              /\ \A s \in Ranks : /\ ~Gathered(gathers, s, g.calls[s])
                                  /\ g.calls[s] \in DOMAIN calls'[s]
                                  /\ g.calls[s] \notin AnsweredIn(answers, s)
      BY <1>2 DEF NewGather
    <2>2. gathers \in Seq(Gather)
      BY DEF TypeInv, TypeOK
    <2>3. /\ gathers' # <<>> /\ Len(gathers') = Len(gathers) + 1
          /\ Len(gathers) + 1 \in DOMAIN gathers'
          /\ gathers'[Len(gathers) + 1] = g
      BY <2>1, <2>2
    <2>4. Last(gathers') = g
      BY <2>3 DEF Last
    <2>5. ASSUME NEW s \in Ranks
          PROVE  /\ AG!Open(calls', s, g.calls[s])
                 /\ \A h \in ToSet(gathers) : h.calls[s] # g.calls[s]
      BY <2>1 DEF AG!Open, AnsweredIn, Gathered, ToSet
    <2>6. /\ ToSet(g.data) = {<<s, g.calls[s]>> : s \in {t \in Ranks : calls'[t][g.calls[t]]}}
          /\ IsInjective(g.data)
      BY <2>3 DEF IndInv, Inv, GatherInv
    <2>7. AG!Proper(calls', g)
      BY <2>5, <2>6, SameOperators DEF AG!Proper
    <2> QED
      BY <2>1, <2>3, <2>4, <2>7, SameOperators DEF AG!MakeGather
  <1> QED
    BY <1>1, <1>2, FreshNext

\* The answer of a step is to an open call, and just.
LEMMA AnswerImplemented ==
  ASSUME TypeInv, TypeInv', IndInv', NEW r \in Ranks, CallsOf(r)
  PROVE  AG!AnswerCall(r)
  <1>1. CASE answers' = answers
    BY <1>1 DEF AG!AnswerCall
  <1>2. ASSUME NEW a \in Answer, answers' = [answers EXCEPT ![r] = Append(@, a)]
        PROVE  AG!AnswerCall(r)
    <2>1. answers \in [Ranks -> Seq(Answer)]
      BY DEF TypeInv, TypeOK
    <2>2. /\ answers'[r] = Append(answers[r], a)
          /\ answers'[r] # <<>>
          /\ Len(answers'[r]) = Len(answers[r]) + 1
          /\ Len(answers[r]) \in Nat
          /\ DOMAIN answers[r] = 1 .. Len(answers[r])
          /\ Len(answers[r]) + 1 \in DOMAIN answers'[r]
          /\ answers'[r][Len(answers[r]) + 1] = a
          /\ \A i \in DOMAIN answers[r] : i \in DOMAIN answers'[r]
                                          /\ answers'[r][i] = answers[r][i]
      BY <1>2, <2>1
    <2>3. Last(answers'[r]) = a
      BY <2>2 DEF Last
    <2>4. /\ a.call \in DOMAIN calls'[r]
          /\ \A j \in DOMAIN answers'[r] :
                answers'[r][j].call = a.call => j = Len(answers[r]) + 1
          /\ a.status = "PMIX_SUCCESS" =>
                \E k \in DOMAIN gathers' : /\ gathers'[k].calls[r] = a.call
                                           /\ gathers'[k].data = a.data
      BY <2>2 DEF IndInv, Inv, AnswerInv
    <2>5. AG!Open(calls', r, a.call)
      BY <2>2, <2>4 DEF AG!Open
    <2>6. AG!Just(r, a)
      <3>1. a.status \in {"PMIX_SUCCESS", "PMIX_ERROR"}
        BY DEF Answer
      <3> QED
        BY <2>4, <3>1, SameOperators DEF AG!Just, ToSet
    <2>7. answers' = [answers EXCEPT ![r] = Append(@, Last(answers'[r]))]
      BY <1>2, <2>3
    <2> QED
      BY <2>2, <2>3, <2>5, <2>6, <2>7, SameOperators DEF AG!AnswerCall
  <1> QED
    BY <1>1, <1>2 DEF CallsOf

\* An exchange is an allgather as its callers see it (exchange.h): a gather takes
\* an open call of every shell, and every call is answered once, with its result
\* or an error.
THEOREM ExchangeImplementsAllGather == ASSUME NoLeaks PROVE Spec => ImplementsAllGather
  <1>1. Spec => []TypeInv
    BY TypeInvInit, TypeInvNext, PTL DEF Spec
  <1>2. Init => AG!Init
    BY DEF Init, AG!Init
  <1>3. ASSUME TypeInv, RoundInv, TypeInv', RoundInv', [Next]_vars
        PROVE  [AG!Next]_(AG!vars)
    <2>1. PICK r \in Ranks : CallsOf(r)
      BY <1>3, OneCaller DEF RoundInv
    <2>2. AG!Call(r)
      BY <2>1 DEF CallsOf, AG!Call
    <2>3. AG!MakeGather
      BY <1>3, GatherImplemented DEF RoundInv
    <2>4. AG!AnswerCall(r)
      BY <1>3, <2>1, AnswerImplemented DEF RoundInv
    <2> QED
      BY <2>2, <2>3, <2>4 DEF AG!Next
  <1>4. TypeInv /\ RoundInv /\ TypeInv' /\ RoundInv' /\ [Next]_vars => [AG!Next]_(AG!vars)
    BY <1>3
  <1> QED
    BY <1>1, <1>2, <1>4, RoundInvariant, PTL DEF Spec, ImplementsAllGather, AG!Spec

-----------------------------------------------------------------------------
(* Rounds in step.                                                         *)

\* No call fails, and a shell makes a call only when its last one is answered.
OneAtATime == Faults = {} /\ MaxPending <= 1

\* A shell may call only when all its calls are answered.
LEMMA NothingPending ==
  ASSUME OneAtATime, TypeInv, NEW r \in Ranks, MayCall(r)
  PROVE  Pending(r) = {}
  <1>1. DOMAIN calls[r] = 1 .. Len(calls[r]) /\ Len(calls[r]) \in Nat
    BY DEF TypeInv, TypeOK
  <1>2. IsFiniteSet(Pending(r))
    <2>1. IsFiniteSet(DOMAIN calls[r])
      BY <1>1, FS_Interval
    <2>2. Pending(r) \in SUBSET DOMAIN calls[r]
      BY DEF Pending
    <2> QED
      BY <2>1, <2>2, FS_Subset
  <1>3. Cardinality(Pending(r)) \in Nat /\ Cardinality(Pending(r)) < 1
    BY <1>2, FS_CardinalityType, BoundsAssumption DEF MayCall, OneAtATime
  <1>4. Cardinality(Pending(r)) = 0
    BY <1>3
  <1> QED
    BY <1>2, <1>4, FS_EmptySet

\* A new call and the taking of a message keep the rounds in step.
LEMMA StepBegins ==
  ASSUME OneAtATime, TypeInv, StepInv(session, down, calls, answers, gathers),
         NEW r \in Ranks, NEW S, NEW u, NEW d, Begins(r, S, u, d)
  PROVE  StepInv(S, d, calls', answers, gathers)
  <1>1. \A x \in Ranks \ {r} : S[x] = session[x]
    BY DEF Begins
  <1>2. d \subseteq down
    BY DEF Begins, Enters, Receives, Returns
  <1>3. CASE Enters(r, S, u, d)
    <2>1. PICK collect \in Collect : calls' = [calls EXCEPT ![r] = Append(@, collect)]
      BY <1>3 DEF Enters
    <2>2. collect \in BOOLEAN
      BY CollectAssumption
    <2>3. /\ \A x \in Ranks \ {r} : calls'[x] = calls[x]
          /\ Len(calls'[r]) = Len(calls[r]) + 1
      BY <2>1, <2>2 DEF TypeInv, TypeOK
    <2>4. ~session[r].local /\ S[r].local /\ S[r].arg = Len(calls[r]) + 1
      BY <1>3 DEF Enters
    <2> QED
      BY <1>1, <1>2, <2>3, <2>4 DEF StepInv
  <1>4. CASE Receives(r, S, u, d) \/ Returns(r, S, u, d)
    <2>1. calls' = calls
      BY <1>4 DEF Receives, Returns
    <2>2. S[r].local = session[r].local /\ S[r].arg = session[r].arg
      BY <1>4 DEF Receives, Returns
    <2> QED
      BY <1>1, <1>2, <2>1, <2>2 DEF StepInv
  <1> QED
    BY <1>3, <1>4 DEF Begins

\* A gather takes the next call of every shell.
LEMMA StepGather ==
  ASSUME NEW r, NEW S, NEW u, NEW d, NEW C,
         State(S, u, d, C, answers, gathers), Inv(S, u, d, C, answers, gathers),
         Fresh(S, u, gathers), StepInv(S, d, C, answers, gathers), Gathers(r, S)
  PROVE  \A n \in DOMAIN gathers' : \A s \in Ranks : gathers'[n].calls[s] = n
  <1>1. RootReady(S)
    BY DEF Gathers
  <1>2. PICK g : Takes(S, g) /\ gathers' = Append(gathers, g)
    BY DEF Gathers, Extends
  <1>3. g \in Gather /\ \A s \in Ranks : g.calls[s] = S[s].arg
    BY <1>2 DEF Takes
  <1>4. /\ gathers \in Seq(Gather) /\ Len(gathers) \in Nat
        /\ DOMAIN gathers = 1 .. Len(gathers)
    BY DEF State
  <1>5. /\ DOMAIN gathers' = 1 .. Len(gathers) + 1
        /\ gathers'[Len(gathers) + 1] = g
        /\ \A n \in DOMAIN gathers : gathers'[n] = gathers[n]
    BY <1>2, <1>3, <1>4
  <1>6. ASSUME NEW s \in Ranks
        PROVE  g.calls[s] = Len(gathers) + 1
    <2>1. S[s].local
      <3>1. \A x \in Ranks \ {0} : S[x].f
        BY <1>1, AllWaiting
      <3> QED
        BY <1>1, <3>1 DEF Inv, SessionInv, RootReady
    <2>2. S[s].arg = Len(answers[s]) + 1
      BY <2>1 DEF StepInv
    <2>3. Len(answers[s]) \in Nat /\ DOMAIN answers[s] = 1 .. Len(answers[s])
      BY DEF State
    <2>4. \A n \in DOMAIN gathers : n # S[s].arg
      <3>1. ~Gathered(gathers, s, S[s].arg)
        BY <1>1, AllFresh
      <3>2. \A n \in DOMAIN gathers : gathers[n].calls[s] = n
        BY DEF StepInv
      <3> QED
        BY <3>1, <3>2 DEF Gathered
    <2>5. Len(answers[s]) >= Len(gathers)
      <3>1. \A a, n \in Nat : a < n => a + 1 \in 1 .. n
        OBVIOUS
      <3>2. Len(answers[s]) + 1 \notin DOMAIN gathers
        BY <2>2, <2>4
      <3>3. ~(Len(answers[s]) < Len(gathers))
        BY <1>4, <2>3, <3>1, <3>2
      <3> QED
        BY <1>4, <2>3, <3>3
    <2>6. ASSUME NEW n \in DOMAIN answers[s]
          PROVE  n \in DOMAIN gathers
      <3>1. answers[s][n].call = n /\ answers[s][n].status = "PMIX_SUCCESS"
        BY DEF StepInv
      <3>2. PICK k \in DOMAIN gathers : gathers[k].calls[s] = n
        BY <3>1 DEF Inv, AnswerInv
      <3> QED
        BY <3>2 DEF StepInv
    <2>7. Len(answers[s]) <= Len(gathers)
      BY <1>4, <2>3, <2>6
    <2> QED
      BY <1>3, <1>4, <2>2, <2>3, <2>5, <2>7
  <1>7. \A n \in DOMAIN gathers' : n \in DOMAIN gathers \/ n = Len(gathers) + 1
    BY <1>4, <1>5
  <1> QED
    BY <1>5, <1>6, <1>7 DEF StepInv

\* However a handler ends, the rounds stay in step.
LEMMA StepEnds ==
  ASSUME OneAtATime, NEW r \in Ranks, NEW S, NEW u, NEW d,
         State(S, u, d, calls', answers, gathers),
         Inv(S, u, d, calls', answers, gathers), Fresh(S, u, gathers),
         StepInv(S, d, calls', answers, gathers), \A n \in down : n.ok,
         Ends(r, S, u, d)
  PROVE  StepInv(session', down', calls', answers', gathers')
  <1>1. S \in [Ranks -> Session] /\ answers \in [Ranks -> Seq(Answer)]
    BY DEF State
  <1>2. CASE Waits(S, u, d)
    BY <1>2 DEF Waits
  <1>3. CASE Sends(r, S, u, d)
    <2>1. PICK ses \in Session : /\ session' = [S EXCEPT ![r] = ses]
                                 /\ ses.local /\ ses.arg = S[r].arg
      BY <1>3 DEF Sends
    <2>2. /\ \A x \in Ranks : session'[x].local = S[x].local /\ session'[x].arg = S[x].arg
          /\ down' = d /\ answers' = answers /\ gathers' = gathers
      BY <1>1, <1>3, <2>1 DEF Sends, Session
    <2> QED
      BY <2>2 DEF StepInv
  <1>4. CASE Exits(r, S, u, d)
    <2>1. S[r].local /\ session' = [S EXCEPT ![r] = NoSession]
      BY <1>4 DEF Exits
    <2>2. PICK a \in Answer, R \in SUBSET Response : Tells(r, S, d, a, R)
      BY <1>4 DEF Exits
    <2>3. /\ answers' = [answers EXCEPT ![r] = Append(@, a)]
          /\ a.call = S[r].arg /\ a.status = "PMIX_SUCCESS"
          /\ down' = d \cup R /\ \A n \in R : n.ok
      BY <2>2 DEF Tells, OneAtATime
    <2>4. /\ \A x \in Ranks \ {r} : answers'[x] = answers[x] /\ session'[x] = S[x]
          /\ ~session'[r].local
      BY <1>1, <2>1, <2>3 DEF NoSession
    <2>5. /\ Len(answers'[r]) = Len(answers[r]) + 1
          /\ Len(answers[r]) \in Nat
          /\ DOMAIN answers'[r] = 1 .. Len(answers[r]) + 1
          /\ DOMAIN answers[r] = 1 .. Len(answers[r])
          /\ answers'[r][Len(answers[r]) + 1] = a
          /\ \A n \in DOMAIN answers[r] : answers'[r][n] = answers[r][n]
      BY <1>1, <2>3
    <2>6. S[r].arg = Len(answers[r]) + 1 /\ Len(calls'[r]) = Len(answers[r]) + 1
      BY <2>1 DEF StepInv
    <2>7. ASSUME NEW n \in DOMAIN answers'[r]
          PROVE  answers'[r][n].call = n /\ answers'[r][n].status = "PMIX_SUCCESS"
      <3>1. CASE n \in DOMAIN answers[r]
        BY <2>5, <3>1 DEF StepInv
      <3>2. CASE n = Len(answers[r]) + 1
        BY <2>3, <2>5, <2>6, <3>2
      <3> QED
        BY <2>5, <3>1, <3>2
    <2>8. \A n \in DOMAIN gathers' : \A s \in Ranks : gathers'[n].calls[s] = n
      <3>1. CASE gathers' = gathers
        BY <3>1 DEF StepInv
      <3>2. CASE Gathers(r, S)
        BY <3>2, StepGather
      <3> QED
        BY <1>4, <3>1, <3>2 DEF Exits
    <2> QED
      BY <2>3, <2>4, <2>5, <2>6, <2>7, <2>8 DEF StepInv
  <1> QED
    BY <1>2, <1>3, <1>4 DEF Ends

\* Every step keeps the rounds in step.
LEMMA StepNext ==
  ASSUME OneAtATime, TypeInv, RoundInv,
         StepInv(session, down, calls, answers, gathers), [Next]_vars
  PROVE  StepInv(session, down, calls, answers, gathers)'
  <1>0. NoLeaks /\ IndInv
    BY DEF OneAtATime, NoLeaks, RoundInv
  <1>1. ASSUME NEW r \in Ranks, Handles(r)
        PROVE  StepInv(session', down', calls', answers', gathers')
    <2>1. PICK S, u, d : Begins(r, S, u, d) /\ Ends(r, S, u, d)
      BY <1>1 DEF Handles
    <2>2. /\ State(S, u, d, calls', answers, gathers)
          /\ Inv(S, u, d, calls', answers, gathers)
      BY <2>1 DEF Begins
    <2>3. Fresh(S, u, gathers)
      BY <2>1, FreshBegins
    <2>4. StepInv(S, d, calls', answers, gathers) /\ \A n \in down : n.ok
      BY <2>1, StepBegins DEF StepInv
    <2> QED
      BY <2>1, <2>2, <2>3, <2>4, StepEnds
  <1>2. ASSUME NEW r \in Ranks
        PROVE  ~Rejects(r)
    <2>1. SUFFICES ASSUME Rejects(r) PROVE FALSE
      OBVIOUS
    <2>2. MayCall(r) /\ session[r].local
      BY <2>1 DEF Rejects, OneAtATime
    <2>3. session[r].arg \in DOMAIN calls[r] /\ session[r].arg \notin AnsweredIn(answers, r)
      BY <1>0, <2>2 DEF IndInv, Inv, SessionInv
    <2>4. session[r].arg \in Pending(r)
      BY <2>3 DEF Pending, Answered, AnsweredIn
    <2> QED
      BY <2>2, <2>4, NothingPending
  <1>3. ASSUME NEW m \in up
        PROVE  ~Loses(m)
    BY DEF Loses, OneAtATime
  <1>4. CASE UNCHANGED vars
    BY <1>4 DEF vars
  <1> QED
    BY <1>0, <1>1, <1>2, <1>3, <1>4, StepForms

\* The rounds are in step for ever.
LEMMA StepInvAlways ==
  ASSUME OneAtATime
  PROVE  Spec => [](TypeInv /\ RoundInv /\ StepInv(session, down, calls, answers, gathers))
  <1>0. NoLeaks
    BY DEF OneAtATime, NoLeaks
  <1>1. Spec => []TypeInv
    BY TypeInvInit, TypeInvNext, PTL DEF Spec
  <1>2. Init => StepInv(session, down, calls, answers, gathers)
    BY DEF Init, StepInv, NoSession
  <1>3. TypeInv /\ RoundInv /\ StepInv(session, down, calls, answers, gathers) /\ [Next]_vars
            => StepInv(session, down, calls, answers, gathers)'
    BY StepNext
  <1>4. Spec => []RoundInv
    BY <1>0, RoundInvariant
  <1> QED
    BY <1>1, <1>2, <1>3, <1>4, PTL DEF Spec

\* When nothing fails and each shell makes one fence at a time, the nth fence of
\* every shell succeeds with what the nth fences contribute, although neither a
\* request nor a response says which round it belongs to.
THEOREM RoundsInStep == ASSUME OneAtATime PROVE Spec => []InStep
  <1>1. ASSUME TypeInv, RoundInv, StepInv(session, down, calls, answers, gathers)
        PROVE  InStep
    <2>1. ASSUME NEW r \in Ranks, NEW n \in DOMAIN answers[r]
          PROVE  /\ n \in DOMAIN gathers
                 /\ answers[r][n] = [call |-> n, status |-> "PMIX_SUCCESS",
                                     data |-> gathers[n].data]
      <3>1. answers[r][n].call = n /\ answers[r][n].status = "PMIX_SUCCESS"
        BY <1>1 DEF StepInv
      <3>2. PICK k \in DOMAIN gathers : /\ gathers[k].calls[r] = n
                                        /\ gathers[k].data = answers[r][n].data
        BY <1>1, <3>1 DEF RoundInv, IndInv, Inv, AnswerInv
      <3>3. k = n
        BY <1>1, <3>2 DEF StepInv
      <3>4. answers[r][n] \in Answer
        BY <1>1 DEF TypeInv, TypeOK
      <3> QED
        BY <3>1, <3>2, <3>3, <3>4 DEF Answer
    <2> QED
      BY <1>1, <2>1 DEF InStep, StepInv
  <1>2. TypeInv /\ RoundInv /\ StepInv(session, down, calls, answers, gathers) => InStep
    BY <1>1
  <1> QED
    BY <1>2, StepInvAlways, PTL

\* A fence is a barrier: PMIX_SUCCESS for the nth fence of any shell means that
\* every shell has entered its nth fence.
THEOREM FenceIsBarrier == ASSUME OneAtATime PROVE Spec => []Barrier
  <1>1. ASSUME TypeInv, RoundInv, StepInv(session, down, calls, answers, gathers)
        PROVE  Barrier
    <2> SUFFICES ASSUME NEW r \in Ranks, NEW a \in ToSet(answers[r]),
                        NEW s \in Ranks
                 PROVE  a.call \in DOMAIN calls[s]
      BY DEF Barrier
    <2>1. PICK n \in DOMAIN answers[r] : a = answers[r][n]
      BY DEF ToSet
    <2>2. a.call = n /\ a.status = "PMIX_SUCCESS"
      BY <1>1, <2>1 DEF StepInv
    <2>3. PICK k \in DOMAIN gathers : gathers[k].calls[r] = n
      BY <1>1, <2>1, <2>2 DEF RoundInv, IndInv, Inv, AnswerInv
    <2>4. gathers[k].calls[s] = n
      BY <1>1, <2>3 DEF StepInv
    <2> QED
      BY <1>1, <2>2, <2>3, <2>4 DEF RoundInv, IndInv, Inv, GatherInv
  <1>2. TypeInv /\ RoundInv /\ StepInv(session, down, calls, answers, gathers) => Barrier
    BY <1>1
  <1> QED
    BY <1>2, StepInvAlways, PTL

-----------------------------------------------------------------------------
(* What becomes of a request.                                              *)

\* A handler that has begun has lost no request, but for the one whose response
\* it has taken.
LEMMA AccountedBegins ==
  ASSUME TypeInv, IndInv, NEW r \in Ranks, NEW S, NEW u, NEW d, Begins(r, S, u, d),
         NEW x \in Ranks, x # 0, Accounted(session, up, down, answers, x),
         x # r \/ ~Returns(r, S, u, d)
  PROVE  Accounted(S, u, d, answers, x)
  <1> DEFINE p == parent_rank(x)
  <1>0. p \in Ranks
    BY ParentInTree
  <1>1. \A y \in Ranks \ {r} : S[y] = session[y]
    BY DEF Begins
  <1> HIDE DEF p
  <1>2. CASE Enters(r, S, u, d)
    <2>1. ~S[r].f /\ S[r].requests = session[r].requests /\ u = up /\ d = down
      BY <1>2 DEF Enters
    <2>2. Held(S, p) = Held(session, p)
      BY <1>0, <1>1, <2>1 DEF Held
    <2> QED
      BY <1>1, <2>1, <2>2 DEF Accounted, p
  <1>3. CASE Receives(r, S, u, d)
    <2>1. S[r].f = session[r].f /\ d = down
      BY <1>3 DEF Receives
    <2>2. PICK m \in up : /\ parent_rank(m.from) = r
                          /\ S[r].requests = Append(session[r].requests, RouteOf(m))
                          /\ u = up \ {m}
      BY <1>3 DEF Receives
    <2>3. m \in Request /\ session[r].requests \in Seq(Route)
      BY DEF TypeInv, TypeOK, Session
    <2>4. RouteOf(m) \in Route /\ RouteOf(m).from = m.from
      BY <2>3, RouteOfType DEF RouteOf
    <2>5. /\ Len(session[r].requests) + 1 \in DOMAIN S[r].requests
          /\ S[r].requests[Len(session[r].requests) + 1] = RouteOf(m)
          /\ \A i \in DOMAIN session[r].requests :
                i \in DOMAIN S[r].requests /\ S[r].requests[i] = session[r].requests[i]
      BY <2>2, <2>3, <2>4
    <2>6. m.from \in Held(S, r) /\ Held(session, r) \subseteq Held(S, r)
      BY <2>4, <2>5 DEF Held
    <2>7. Held(session, p) \subseteq Held(S, p)
      BY <1>0, <1>1, <2>6 DEF Held
    <2>8. S[x].f = session[x].f
      BY <1>1, <2>1
    <2>9. ASSUME NEW n \in up, n.from = x
          PROVE  (\E k \in u : k.from = x) \/ x \in Held(S, p)
      BY <2>2, <2>6, <2>9 DEF p
    <2> QED
      BY <2>1, <2>7, <2>8, <2>9 DEF Accounted, p
  <1>4. CASE Returns(r, S, u, d)
    BY <1>4 DEF Returns, Accounted
  <1> QED
    BY <1>2, <1>3, <1>4 DEF Begins

\* A handler that ends loses a request only with an error to its own caller.
LEMMA AccountedEnds ==
  ASSUME NEW r \in Ranks, NEW S, NEW u, NEW d,
         State(S, u, d, calls', answers, gathers), Ends(r, S, u, d),
         NEW x \in Ranks, x # 0,
         Accounted(S, u, d, answers, x) \/ (x = r /\ ~Waits(S, u, d))
  PROVE  Accounted(session', up', down', answers', x)
  <1> DEFINE p == parent_rank(x)
  <1>0. p \in Ranks /\ S \in [Ranks -> Session] /\ answers \in [Ranks -> Seq(Answer)]
    BY ParentInTree DEF State
  <1> HIDE DEF p
  <1>1. CASE Waits(S, u, d)
    BY <1>1 DEF Waits, Accounted
  <1>2. CASE Sends(r, S, u, d)
    <2>1. PICK ses \in Session : /\ session' = [S EXCEPT ![r] = ses]
                                 /\ ses.requests = S[r].requests
      BY <1>2 DEF Sends
    <2>2. PICK m \in Request : m.from = r /\ up' = u \cup {m}
      BY <1>2 DEF Sends
    <2>3. down' = d /\ answers' = answers
      BY <1>2 DEF Sends
    <2>4. Held(session', p) = Held(S, p) /\ (x # r => session'[x] = S[x])
      BY <1>0, <2>1 DEF Held
    <2>5. CASE x = r
      BY <2>2, <2>5 DEF Accounted
    <2>6. CASE x # r
      BY <2>2, <2>3, <2>4, <2>6 DEF Accounted, p
    <2> QED
      BY <2>5, <2>6
  <1>3. CASE Exits(r, S, u, d)
    <2>1. session' = [S EXCEPT ![r] = NoSession] /\ up' = u
      BY <1>3 DEF Exits
    <2>2. PICK a \in Answer, R \in SUBSET Response : Tells(r, S, d, a, R)
      BY <1>3 DEF Exits
    <2>3. answers' = [answers EXCEPT ![r] = Append(@, a)] /\ down' = d \cup R
      BY <2>2 DEF Tells
    <2>4. CASE x = r
      BY <1>0, <2>1, <2>4 DEF Accounted, NoSession
    <2>5. CASE x # r
      <3>1. session'[x] = S[x]
        BY <1>0, <2>1, <2>5
      <3>2. ASSUME NEW i \in DOMAIN answers[p], answers[p][i].status = "PMIX_ERROR"
            PROVE  i \in DOMAIN answers'[p] /\ answers'[p][i].status = "PMIX_ERROR"
        BY <1>0, <2>3, <3>2
      <3>3. CASE p # r
        <4>1. Held(session', p) = Held(S, p)
          BY <1>0, <2>1, <3>3 DEF Held
        <4> QED
          BY <2>1, <2>3, <2>5, <3>1, <3>2, <4>1 DEF Accounted, p
      <3>4. CASE p = r
        <4>1. CASE a.status = "PMIX_ERROR"
          <5>1. /\ Len(answers[r]) + 1 \in DOMAIN answers'[r]
                /\ answers'[r][Len(answers[r]) + 1] = a
            BY <1>0, <2>3
          <5> QED
            BY <3>4, <4>1, <5>1 DEF Accounted, p
        <4>2. CASE \A i \in DOMAIN S[r].requests :
                       \E n \in R : n.to = S[r].requests[i].from
          <5>1. x \in Held(S, r) => \E n \in down' : n.to = x
            BY <2>3, <4>2 DEF Held
          <5> QED
            BY <2>1, <2>3, <2>5, <3>1, <3>2, <3>4, <5>1 DEF Accounted, p
        <4> QED
          BY <2>2, <4>1, <4>2 DEF Tells
      <3> QED
        BY <3>3, <3>4
    <2> QED
      BY <2>4, <2>5
  <1> QED
    BY <1>1, <1>2, <1>3 DEF Ends

\* Every step accounts for every request, if no failure goes untold.
LEMMA AccountedNext ==
  ASSUME NoLeaks, ~Silent, TypeInv, IndInv, [Next]_vars,
         NEW x \in Ranks, x # 0, Accounted(session, up, down, answers, x)
  PROVE  Accounted(session', up', down', answers', x)
  <1>0. parent_rank(x) \in Ranks /\ answers \in [Ranks -> Seq(Answer)]
    BY ParentInTree DEF TypeInv, TypeOK
  <1>1. ASSUME NEW r \in Ranks, Handles(r)
        PROVE  Accounted(session', up', down', answers', x)
    <2>1. PICK S, u, d : /\ Begins(r, S, u, d)
                         /\ Ends(r, S, u, d)
                         /\ Returns(r, S, u, d) => Exits(r, S, u, d)
      BY <1>1 DEF Handles
    <2>2. State(S, u, d, calls', answers, gathers)
      BY <2>1 DEF Begins
    <2>3. CASE x # r \/ ~Returns(r, S, u, d)
      BY <2>1, <2>2, <2>3, AccountedBegins, AccountedEnds
    <2>4. CASE x = r /\ Returns(r, S, u, d)
      <3>1. session'[x] = NoSession
        BY <2>1, <2>2, <2>4 DEF Exits, State
      <3> QED
        BY <3>1 DEF Accounted, NoSession
    <2> QED
      BY <2>3, <2>4
  <1>2. ASSUME NEW r \in Ranks, Rejects(r)
        PROVE  Accounted(session', up', down', answers', x)
    <2>1. PICK a \in Answer : answers' = [answers EXCEPT ![r] = Append(@, a)]
      BY <1>2 DEF Rejects
    <2>2. \A i \in DOMAIN answers[parent_rank(x)] :
              /\ i \in DOMAIN answers'[parent_rank(x)]
              /\ answers'[parent_rank(x)][i] = answers[parent_rank(x)][i]
      BY <1>0, <2>1
    <2> QED
      BY <1>2, <2>2 DEF Rejects, Accounted
  <1>3. ASSUME NEW m \in up, Loses(m)
        PROVE  Accounted(session', up', down', answers', x)
    <2>1. /\ session'[x].f = session[x].f
          /\ Held(session', parent_rank(x)) = Held(session, parent_rank(x))
      BY <1>0, <1>3 DEF Loses, Held
    <2>2. /\ up' = up \ {m} /\ down' = down \cup {ErrorResponse(m)}
          /\ answers' = answers
      BY <1>3 DEF Loses
    <2>3. ErrorResponse(m).to = m.from
      BY DEF ErrorResponse
    <2> QED
      BY <2>1, <2>2, <2>3 DEF Accounted
  <1>4. CASE UNCHANGED vars
    BY <1>4 DEF vars
  <1> QED
    BY <1>1, <1>2, <1>3, <1>4, StepForms

\* exchange_request_cb, session_process and session_destroy lose the request of a
\* waiting child only when the parent tells its own caller of an error: no shell
\* waits for ever with nobody told, unless two failures meet in one handler.
THEOREM LostIsReported ==
  ASSUME NoLeaks, ~Silent
  PROVE  Spec => []LostOnlyBelowError
  <1> DEFINE AllAccounted ==
                 \A x \in Ranks \ {0} : Accounted(session, up, down, answers, x)
  <1>1. Spec => []TypeInv
    BY TypeInvInit, TypeInvNext, PTL DEF Spec
  <1>2. Spec => []IndInv
    BY IndInvAlways
  <1>3. Init => AllAccounted
    BY DEF Init, Accounted, NoSession
  <1>4. TypeInv /\ IndInv /\ AllAccounted /\ [Next]_vars => AllAccounted'
    BY AccountedNext
  <1>5. ASSUME TypeInv, IndInv, AllAccounted, NEW r \in Ranks \ {0},
               session[r].f, ~InHand(r)
        PROVE  \E a \in ToSet(answers[parent_rank(r)]) : a.status = "PMIX_ERROR"
    <2> DEFINE p == parent_rank(r)
    <2>1. UpInv(session, up) /\ HeldInv(session) /\ DownInv(session, down, gathers)
      BY <1>5 DEF IndInv, Inv
    <2>2. p \in Ranks
      BY ParentInTree
    <2>3. ~ \E m \in up : m.from = r
      BY <1>5, <2>1 DEF InHand, UpInv
    <2>4. ~ \E n \in down : n.to = r
      BY <1>5, <2>1 DEF InHand, DownInv
    <2>5. r \notin Held(session, p)
      <3>1. SUFFICES ASSUME r \in Held(session, p) PROVE FALSE
        OBVIOUS
      <3>2. PICK i \in DOMAIN session[p].requests : session[p].requests[i].from = r
        BY <3>1 DEF Held
      <3>3. session[p].requests[i].tag = session[r].arg
        BY <2>1, <2>2, <3>2 DEF HeldInv
      <3>4. session[p].requests[i] \in Route
        BY <1>5, <2>2 DEF TypeInv, TypeOK, Session
      <3>5. session[p].requests[i] = RouteOf([from |-> r, tag |-> session[r].arg])
        BY <3>2, <3>3, <3>4 DEF Route, RouteOf
      <3> QED
        BY <1>5, <3>5 DEF InHand, ToSet
    <2>6. Accounted(session, up, down, answers, r)
      BY <1>5
    <2> QED
      BY <1>5, <2>3, <2>4, <2>5, <2>6 DEF Accounted, ToSet
  <1>6. TypeInv /\ IndInv /\ AllAccounted => LostOnlyBelowError
    BY <1>5 DEF LostOnlyBelowError
  <1> HIDE DEF AllAccounted
  <1> QED
    BY <1>1, <1>2, <1>3, <1>4, <1>6, PTL DEF Spec

=============================================================================
