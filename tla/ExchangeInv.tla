---------------------------- MODULE ExchangeInv -----------------------------
(***************************************************************************)
(* The inductive invariant behind the safety properties of Exchange, for   *)
(* executions in which no failure leaves part of its effect behind         *)
(* (Faults is disjoint from LeakyFaults).                                  *)
(*                                                                         *)
(* The messages carry no round number, so what keeps the rounds apart is   *)
(* the state of the child: a request or a response exists only while the   *)
(* session that sent it waits for it, in at most one place at a time.      *)
(*                                                                         *)
(* A handler first changes the session and then runs session_process on    *)
(* it.  The invariant also holds between the two, and is therefore stated  *)
(* of any sessions S, requests U and responses D in flight, calls C,       *)
(* answers A and gathers G.                                                *)
(***************************************************************************)
EXTENDS Exchange

\* The ranks on the path from s to the root: the least set that holds s and is
\* closed under parent_rank.
Ancestors(s) ==
    {r \in Ranks : \A S \in SUBSET Ranks :
        (s \in S /\ \A x \in S \ {0} : parent_rank(x) \in S) => r \in S}

\* What shell r itself has contributed to its session.
Own(S, C, r) == IF S[r].local /\ C[r][S[r].arg] THEN {<<r, S[r].arg>>} ELSE {}

\* The shells whose requests are held by shell p.
Held(S, p) == {S[p].requests[i].from : i \in DOMAIN S[p].requests}

\* The calls of shell r that have been answered.
AnsweredIn(A, r) == {A[r][i].call : i \in DOMAIN A[r]}

\* A session has at most one local call, which is still open; it waits for its
\* parent only when it has been entered and holds a request of every child.
SessionInv(S, C, A) ==
    \A r \in Ranks :
        /\ ~S[r].open => S[r] = NoSession
        /\ S[r].local => S[r].arg \in DOMAIN C[r] /\ S[r].arg \notin AnsweredIn(A, r)
        /\ ~S[r].local => S[r].arg = 0 /\ ~S[r].f
        /\ S[r].f => r # 0 /\ Len(S[r].requests) = child_count(K, r, Size)

\* A request in flight is that of a session still waiting for it, and holds
\* what that session has gathered.
UpInv(S, U) ==
    \A m \in U : /\ m.from # 0
                 /\ S[m.from].f
                 /\ m.tag = S[m.from].arg
                 /\ m.data = S[m.from].data_in

\* A request held by a shell came from a child that is still waiting for it,
\* and each child has at most one.
HeldInv(S) ==
    \A p \in Ranks :
        /\ \A i \in DOMAIN S[p].requests :
              LET q == S[p].requests[i]
              IN  /\ q.from # 0
                  /\ parent_rank(q.from) = p
                  /\ S[q.from].f
                  /\ q.tag = S[q.from].arg
        /\ \A i, j \in DOMAIN S[p].requests :
              S[p].requests[i].from = S[p].requests[j].from => i = j

\* A response in flight is for a session still waiting for it, and holds the
\* latest result, in which the waiting call took part.
DownInv(S, D, G) ==
    \A m \in D : /\ S[m.to].f
                 /\ m.tag = S[m.to].arg
                 /\ m.ok => /\ G # <<>>
                            /\ m.data = Last(G).data
                            /\ m.tag = Last(G).calls[m.to]

\* A waiting shell's request is in one place: on its way, held by the parent,
\* or answered by one response.
OnePlaceInv(S, U, D) ==
    /\ \A m \in U, n \in D : m.from # n.to
    /\ \A p \in Ranks : \A m \in U : m.from \notin Held(S, p)
    /\ \A p \in Ranks : \A n \in D : n.to \notin Held(S, p)
    /\ \A m, n \in D : m.to = n.to => m = n

\* A session has gathered its own contribution and what the children whose
\* requests it holds have gathered, each once and from below in the tree.
DataInv(S, C) ==
    \A r \in Ranks :
        /\ ToSet(S[r].data_in) =
              Own(S, C, r) \cup UNION {ToSet(S[c].data_in) : c \in Held(S, r)}
        /\ \A x \in ToSet(S[r].data_in) : r \in Ancestors(x[1])
        /\ IsInjective(S[r].data_in)

\* A call that has not been sent to the parent took part in no gather; when
\* the call a shell waits with took part in the latest one, so did the calls
\* whose requests it holds.
RelayInv(S, G) ==
    \A r \in Ranks \ {0} :
        /\ S[r].local /\ ~S[r].f => \A i \in DOMAIN G : G[i].calls[r] # S[r].arg
        /\ S[r].f /\ G # <<>> /\ Last(G).calls[r] = S[r].arg =>
              \A i \in DOMAIN S[r].requests :
                  S[r].requests[i].tag = Last(G).calls[S[r].requests[i].from]

\* Every gather is complete.
GatherInv(C, G) ==
    \A i \in DOMAIN G :
        /\ \A s \in Ranks : G[i].calls[s] \in DOMAIN C[s]
        /\ ToSet(G[i].data) =
              {<<s, G[i].calls[s]>> : s \in {t \in Ranks : C[t][G[i].calls[t]]}}
        /\ IsInjective(G[i].data)

\* Every answer is to a call that was made, no two are to the same call, and a
\* success brings the data of the gather the call took part in.
AnswerInv(C, A, G) ==
    \A r \in Ranks : \A i \in DOMAIN A[r] :
        /\ A[r][i].call \in DOMAIN C[r]
        /\ \A j \in DOMAIN A[r] : A[r][i].call = A[r][j].call => i = j
        /\ A[r][i].status = "PMIX_SUCCESS" =>
              \E k \in DOMAIN G : /\ G[k].calls[r] = A[r][i].call
                                  /\ G[k].data = A[r][i].data

Inv(S, U, D, C, A, G) ==
    /\ SessionInv(S, C, A)
    /\ UpInv(S, U)
    /\ HeldInv(S)
    /\ DownInv(S, D, G)
    /\ OnePlaceInv(S, U, D)
    /\ DataInv(S, C)
    /\ RelayInv(S, G)
    /\ GatherInv(C, G)
    /\ AnswerInv(C, A, G)

\* The inductive invariant of the specification.
IndInv == Inv(session, up, down, calls, answers, gathers)

-----------------------------------------------------------------------------
(* What keeps a call from being gathered twice.                            *)

\* Call n of shell r took part in one of the gathers G.
Gathered(G, r, n) == \E i \in DOMAIN G : G[i].calls[r] = n

\* A request on its way to a parent and the call of the root took part in no
\* gather; a request that a shell holds did only if the shell's own call did.
\* This holds between handlers: a handler of the root that makes a gather ends
\* the root's call before it returns.
Fresh(S, U, G) ==
    /\ \A m \in U : ~Gathered(G, m.from, m.tag)
    /\ S[0].local => ~Gathered(G, 0, S[0].arg)
    /\ \A p \in Ranks : \A i \in DOMAIN S[p].requests :
          Gathered(G, S[p].requests[i].from, S[p].requests[i].tag)
              => S[p].local /\ Gathered(G, p, S[p].arg)

\* The invariant that keeps the rounds apart: a call entered in a session is open
\* and its request in one place, what a session holds is what was gathered below
\* it, and no request of an earlier gather is waiting to be gathered again.
RoundInv == IndInv /\ Fresh(session, up, gathers)

-----------------------------------------------------------------------------
(* What keeps the rounds in step, and what becomes of a request.           *)

\* Without failures and with one call at a time: each shell's calls have been
\* answered in order and with success, but for the one in its session, and the
\* nth gather took the nth calls.
StepInv(S, D, C, A, G) ==
    /\ \A r \in Ranks :
          /\ \A n \in DOMAIN A[r] : A[r][n].call = n /\ A[r][n].status = "PMIX_SUCCESS"
          /\ S[r].local => S[r].arg = Len(A[r]) + 1 /\ Len(C[r]) = Len(A[r]) + 1
          /\ ~S[r].local => Len(C[r]) = Len(A[r])
    /\ \A n \in DOMAIN G : \A s \in Ranks : G[n].calls[s] = n
    /\ \A m \in D : m.ok

\* The request shell r waits for is on its way, held by its parent or answered,
\* or else the parent has reported an error to its own caller.
Accounted(S, U, D, A, r) ==
    S[r].f => \/ \E m \in U : m.from = r
              \/ r \in Held(S, parent_rank(r))
              \/ \E n \in D : n.to = r
              \/ \E i \in DOMAIN A[parent_rank(r)] :
                    A[parent_rank(r)][i].status = "PMIX_ERROR"

=============================================================================
