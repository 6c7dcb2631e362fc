------------------------------ MODULE Exchange ------------------------------
(***************************************************************************)
(* The allgather of src/shell/plugins/exchange.c.  The shells of a job     *)
(* form a k-ary tree.  A shell that has been entered locally and holds a   *)
(* request from each of its children sends the data gathered so far to its *)
(* parent; the root answers with everything, and the answer is relayed     *)
(* down the tree.  Each call is made by fence.c on the shell's reactor     *)
(* thread and is answered through exchange_exit_cb, or at once when        *)
(* exchange_enter_base64_string refuses it.                                *)
(*                                                                         *)
(* Each handler runs to completion on its shell's reactor, so a handler is *)
(* one action.  Messages carry no round number: a parent tells the rounds  *)
(* of a child apart only by their order.  The messages in flight are sets, *)
(* so they may be delivered in any order, which allows more than Flux does.*)
(*                                                                         *)
(* A contribution, one base64 string of the code, is the pair <<rank,      *)
(* call>> of the shell that gave it and the number of its call.            *)
(***************************************************************************)
EXTENDS KaryTree, Sequences, SequencesExt

CONSTANTS Size,         \* number of shells of the job
          Fanout,       \* the k given to exchange_create
          Collect,      \* values of pmix.collect the callers pass
          MaxCalls,     \* bound: calls made on each shell
          MaxPending,   \* bound: unanswered calls of a shell
          Faults,       \* library calls that may fail
          MaxFaults     \* bound: failures in one behaviour

(***************************************************************************)
(* The library calls whose failure the code handles.  "send": the request  *)
(* is not sent; "then": it is sent, but its continuation is not installed; *)
(* "unpack": the parent's response is unreadable; "respond": one of the    *)
(* responses is not sent; "respond_error": nor is an error response;       *)
(* "get_data": the result is not decoded; "request": a request is          *)
(* unreadable, or there is no memory for its session or its data;          *)
(* "append": the request is not saved; "enter": no memory for a session;   *)
(* "enter_append": no memory for the local contribution.                   *)
(***************************************************************************)
FaultNames == {"send", "then", "unpack", "respond", "respond_error",
               "get_data", "request", "append", "enter", "enter_append"}

\* The failures that leave part of the handler's effect behind.
LeakyFaults == {"then", "append", "enter_append"}

ASSUME SizeAssumption == Size \in Nat \ {0}
ASSUME FanoutAssumption == Fanout \in Int
ASSUME CollectAssumption == Collect \subseteq BOOLEAN
ASSUME BoundsAssumption == MaxCalls \in Nat /\ MaxPending \in Nat /\ MaxFaults \in Nat
ASSUME FaultsAssumption == Faults \subseteq FaultNames

Ranks == 0 .. Size - 1
K == exchange_fanout(Fanout, Size)
parent_rank(r) == kary_parentof(K, r)

VARIABLES session,      \* xcg->session of each shell
          up,           \* pmix-exchange requests in flight
          down,         \* pmix-exchange responses in flight
          calls,        \* the pmix.collect flag of each call made on a shell
          answers,      \* what each shell's calls were answered, in order
          gathers,      \* history: what the root gathered, and for which calls
          faults        \* failures so far

vars == <<session, up, down, calls, answers, gathers, faults>>

-----------------------------------------------------------------------------
Contributions == Ranks \X Nat

\* A request waiting in a session's msglist: who to answer, and which rpc.
Route == [from : Ranks, tag : Nat]

(***************************************************************************)
(* struct session.  open: xcg->session is not NULL; arg: the number of the *)
(* call whose fence_call is exit_cb_arg, 0 for NULL; f: a request to the   *)
(* parent is pending.  data_out and has_error live only inside a handler,  *)
(* between being set and session_destroy.                                  *)
(***************************************************************************)
Session == [open : BOOLEAN, local : BOOLEAN, arg : Nat, f : BOOLEAN,
            data_in : Seq(Contributions), requests : Seq(Route)]

Request == [from : Ranks, tag : Nat, data : Seq(Contributions)]
Response == [to : Ranks, tag : Nat, ok : BOOLEAN, data : Seq(Contributions)]
Answer == [call : Nat, status : {"PMIX_SUCCESS", "PMIX_ERROR"},
           data : Seq(Contributions)]
Gather == [calls : [Ranks -> Nat], data : Seq(Contributions)]

session_create == [open |-> TRUE, local |-> FALSE, arg |-> 0, f |-> FALSE,
                   data_in |-> <<>>, requests |-> <<>>]

\* xcg->session == NULL.
NoSession == [open |-> FALSE, local |-> FALSE, arg |-> 0, f |-> FALSE,
              data_in |-> <<>>, requests |-> <<>>]

\* xcg->session, created if there is none.
OpenSession(r) == IF session[r].open THEN session[r] ELSE session_create

Init == /\ session = [r \in Ranks |-> NoSession]
        /\ up = {}
        /\ down = {}
        /\ calls = [r \in Ranks |-> <<>>]
        /\ answers = [r \in Ranks |-> <<>>]
        /\ gathers = <<>>
        /\ faults = 0

-----------------------------------------------------------------------------
NoFault == faults' = faults

\* The library call of this name fails.
Fault(name) == /\ name \in Faults
               /\ faults < MaxFaults
               /\ faults' = faults + 1

\* cbfunc of the call: the PMIx server learns its outcome.
Reply(r, call, status, data) ==
    answers' = [answers EXCEPT ![r] =
                    Append(@, [call |-> call, status |-> status, data |-> data])]

\* Mutant: the session is not destroyed.
Exit_undestroyed(r, ses, status, data) ==
    /\ Reply(r, ses.arg, status, data)
    /\ session' = [session EXCEPT ![r] = ses]

\* Mutant: the session is kept for the next call, with the requests in it.
Exit_reused(r, ses, status, data) ==
    /\ Reply(r, ses.arg, status, data)
    /\ session' = [session EXCEPT ![r] =
                      [ses EXCEPT !.local = FALSE, !.arg = 0, !.f = FALSE]]

\* done: exit_cb (exchange_exit_cb of fence.c) answers the call that was
\* stored in the session, and the session is destroyed with the requests in it.
Exit(r, ses, status, data) ==
    /\ Reply(r, ses.arg, status, data)
    /\ session' = [session EXCEPT ![r] = NoSession]

\* Mutant: the children are not waited for.
Awaiting_self(r, ses) == ~ses.local \/ ses.f

Awaiting(r, ses) ==
    ~ses.local \/ Len(ses.requests) < child_count(K, r, Size) \/ ses.f

\* session_process has nothing to do before another request or response.
Wait(r, ses, u, d) ==
    /\ Awaiting(r, ses)
    /\ session' = [session EXCEPT ![r] = ses]
    /\ up' = u
    /\ down' = d
    /\ NoFault
    /\ UNCHANGED <<answers, gathers>>

\* Everything below this shell is here: send it to the parent.
SendRequest(r, ses, u, d) ==
    LET m == [from |-> r, tag |-> ses.arg, data |-> ses.data_in]
    IN  /\ ~Awaiting(r, ses)
        /\ r > 0
        /\ \/ /\ NoFault
              /\ session' = [session EXCEPT ![r] = [ses EXCEPT !.f = TRUE]]
              /\ up' = u \cup {m}
              /\ UNCHANGED answers
           \/ /\ Fault("send")
              /\ Exit(r, ses, "PMIX_ERROR", <<>>)
              /\ up' = u
           \/ /\ Fault("then")
              /\ Exit(r, ses, "PMIX_ERROR", <<>>)
              /\ up' = u \cup {m}
        /\ down' = d
        /\ UNCHANGED gathers

\* Mutant: the first request is popped before the loop starts.
Responses_but_first(routes, out) ==
    {[to |-> q.from, tag |-> q.tag, ok |-> TRUE, data |-> out] :
        q \in ToSet(SubSeq(routes, 2, Len(routes)))}

Responses(routes, out) ==
    {[to |-> q.from, tag |-> q.tag, ok |-> TRUE, data |-> out] : q \in ToSet(routes)}

\* Mutant: the caller is given data_in instead of data_out.
Complete_own_data(r, ses, out, u, d) ==
    /\ up' = u
    /\ down' = d \cup Responses(ses.requests, out)
    /\ NoFault
    /\ Exit(r, ses, "PMIX_SUCCESS", ses.data_in)

\* exit_cb asks for the result, and is answered with an error if it cannot be
\* decoded into one buffer.
exchange_get_data(r, ses, out) ==
    \/ NoFault /\ Exit(r, ses, "PMIX_SUCCESS", out)
    \/ Fault("get_data") /\ Exit(r, ses, "PMIX_ERROR", <<>>)

\* The result is known: respond to the children in order, then exit.  The
\* first response that fails ends it, and the children left get nothing.
Complete(r, ses, out, u, d) ==
    /\ up' = u
    /\ \/ /\ down' = d \cup Responses(ses.requests, out)
          /\ exchange_get_data(r, ses, out)
       \/ /\ Fault("respond")
          /\ \E i \in 1 .. Len(ses.requests) :
                down' = d \cup Responses(SubSeq(ses.requests, 1, i - 1), out)
          /\ Exit(r, ses, "PMIX_ERROR", <<>>)

\* The root has everything: its data_in becomes the result.
RootComplete(r, ses, u, d) ==
    /\ ~Awaiting(r, ses)
    /\ r = 0
    /\ gathers' = Append(gathers,
                    [calls |-> [s \in Ranks |-> IF s = r THEN ses.arg
                                                ELSE session[s].arg],
                     data |-> ses.data_in])
    /\ Complete(r, ses, ses.data_in, u, d)

\* session_process without an error and before any response: ses is the
\* session as the handler has left it, u and d the messages in flight.
session_process(r, ses, u, d) ==
    \/ Wait(r, ses, u, d)
    \/ SendRequest(r, ses, u, d)
    \/ RootComplete(r, ses, u, d)

-----------------------------------------------------------------------------
Answered(r) == {answers[r][i].call : i \in DOMAIN answers[r]}
Pending(r) == DOMAIN calls[r] \ Answered(r)

\* A caller may make another call.
MayCall(r) == /\ Len(calls[r]) < MaxCalls
              /\ Cardinality(Pending(r)) < MaxPending

MakeCall(r, collect) == /\ MayCall(r)
                        /\ calls' = [calls EXCEPT ![r] = Append(@, collect)]

\* Mutant: a session opened by a child's request is replaced.
Entered_anew(r, n, collect) ==
    [session_create EXCEPT !.local = TRUE, !.arg = n,
                           !.data_in = IF collect THEN <<<<r, n>>>> ELSE <<>>]

\* Mutant: the contribution is added to a new session only.
Entered_new_only(r, n, collect) ==
    LET ses == OpenSession(r)
    IN  [ses EXCEPT !.local = TRUE, !.arg = n,
                    !.data_in = IF collect /\ ~session[r].open THEN <<<<r, n>>>> ELSE @]

\* The session after the local part of call n.
Entered(r, n, collect) ==
    LET ses == OpenSession(r)
    IN  [ses EXCEPT !.local = TRUE, !.arg = n,
                    !.data_in = IF collect THEN Append(@, <<r, n>>) ELSE @]

\* exchange_enter_base64_string accepts the call.
Enter(r, collect) ==
    /\ MakeCall(r, collect)
    /\ ~session[r].local
    /\ session_process(r, Entered(r, Len(calls[r]) + 1, collect), up, down)

\* exchange_enter_base64_string refuses it: an exchange is in progress.
EnterRefused(r, collect) ==
    /\ MakeCall(r, collect)
    /\ session[r].local
    /\ Reply(r, Len(calls[r]) + 1, "PMIX_ERROR", <<>>)
    /\ UNCHANGED <<session, up, down, gathers, faults>>

\* Mutant: the failure is met after the session has been marked as entered.
EnterFails_entered(r, collect) ==
    /\ MakeCall(r, collect)
    /\ ~session[r].local
    /\ Fault("enter")
    /\ session' = [session EXCEPT ![r] = Entered(r, Len(calls[r]) + 1, FALSE)]
    /\ Reply(r, Len(calls[r]) + 1, "PMIX_ERROR", <<>>)
    /\ UNCHANGED <<up, down, gathers>>

\* exchange_enter_base64_string fails.  When the contribution cannot be
\* appended, the session has been entered all the same.
EnterFails(r, collect) ==
    /\ MakeCall(r, collect)
    /\ ~session[r].local
    /\ \/ /\ Fault("enter")
          /\ ~session[r].open
          /\ UNCHANGED session
       \/ /\ Fault("enter_append")
          /\ collect
          /\ session' = [session EXCEPT ![r] = Entered(r, Len(calls[r]) + 1, FALSE)]
    /\ Reply(r, Len(calls[r]) + 1, "PMIX_ERROR", <<>>)
    /\ UNCHANGED <<up, down, gathers>>

-----------------------------------------------------------------------------
RouteOf(m) == [from |-> m.from, tag |-> m.tag]

\* Mutant: the request is saved without its data.
Received_no_data(p, m) ==
    LET ses == OpenSession(p)
    IN  [ses EXCEPT !.requests = Append(@, RouteOf(m))]

\* Mutant: json_array_append where json_array_extend is meant.
Received_nested(p, m) ==
    LET ses == OpenSession(p)
    IN  [ses EXCEPT !.data_in = Append(@, m.data), !.requests = Append(@, RouteOf(m))]

\* The session after child request m.
Received(p, m) ==
    LET ses == OpenSession(p)
    IN  [ses EXCEPT !.data_in = @ \o m.data, !.requests = Append(@, RouteOf(m))]

TooMany(p) == Len(OpenSession(p).requests) = child_count(K, p, Size)

\* exchange_request_cb: a request from child m.from.
exchange_request_cb(m) ==
    LET p == parent_rank(m.from)
    IN  /\ ~TooMany(p)
        /\ session_process(p, Received(p, m), up \ {m}, down)
        /\ UNCHANGED calls

ErrorResponse(m) == [to |-> m.from, tag |-> m.tag, ok |-> FALSE, data |-> <<>>]

\* exchange_request_cb refuses one request too many.
RequestRefused(m) ==
    LET p == parent_rank(m.from)
    IN  /\ TooMany(p)
        /\ session' = [session EXCEPT ![p] = OpenSession(p)]
        /\ up' = up \ {m}
        /\ \/ NoFault /\ down' = down \cup {ErrorResponse(m)}
           \/ Fault("respond_error") /\ UNCHANGED down
        /\ UNCHANGED <<calls, answers, gathers>>

\* A call of this name fails and the child is told, or that fails as well.
FaultReported(name, m) ==
    \/ /\ Fault(name)
       /\ down' = down \cup {ErrorResponse(m)}
    \/ /\ {name, "respond_error"} \subseteq Faults
       /\ faults + 2 <= MaxFaults
       /\ faults' = faults + 2
       /\ UNCHANGED down

\* exchange_request_cb fails.  When the request cannot be saved, its data has
\* already been added to the session.
RequestFails(m) ==
    LET p == parent_rank(m.from)
    IN  /\ ~TooMany(p)
        /\ up' = up \ {m}
        /\ \/ /\ FaultReported("request", m)
              /\ \/ UNCHANGED session
                 \/ session' = [session EXCEPT ![p] = OpenSession(p)]
           \/ /\ FaultReported("append", m)
              /\ session' = [session EXCEPT ![p] =
                                [OpenSession(p) EXCEPT !.data_in = @ \o m.data]]
        /\ UNCHANGED <<calls, answers, gathers>>

RequestCb == \E m \in up : \/ exchange_request_cb(m)
                           \/ RequestRefused(m)
                           \/ RequestFails(m)

\* The rpc of response m is still waited for.
Expected(m) == session[m.to].f /\ session[m.to].arg = m.tag

\* exchange_response_completion: the parent's result, or an error.
exchange_response_completion(m) ==
    LET r == m.to
    IN  /\ Expected(m)
        /\ \/ /\ m.ok
              /\ Complete(r, session[r], m.data, up, down \ {m})
           \/ /\ \/ ~m.ok /\ NoFault
                 \/ m.ok /\ Fault("unpack")
              /\ Exit(r, session[r], "PMIX_ERROR", <<>>)
              /\ UNCHANGED up
              /\ down' = down \ {m}
        /\ UNCHANGED <<calls, gathers>>

\* External: Flux drops the response to an rpc whose future was destroyed.
DropResponse(m) ==
    /\ ~Expected(m)
    /\ down' = down \ {m}
    /\ UNCHANGED <<session, up, calls, answers, gathers, faults>>

ResponseCb == \E m \in down : exchange_response_completion(m) \/ DropResponse(m)

\* Every call has been made and answered.
Finished == /\ \A r \in Ranks : Len(calls[r]) = MaxCalls /\ Pending(r) = {}
            /\ UNCHANGED vars

Next == \/ \E r \in Ranks, collect \in Collect :
               \/ Enter(r, collect)
               \/ EnterRefused(r, collect)
               \/ EnterFails(r, collect)
        \/ RequestCb
        \/ ResponseCb
        \/ Finished

\* Messages are delivered and the reactor runs their handlers; no caller is
\* obliged to make a call.
Fairness == WF_vars(RequestCb) /\ WF_vars(ResponseCb)

Spec == Init /\ [][Next]_vars

FairSpec == Spec /\ Fairness

-----------------------------------------------------------------------------
TypeOK == /\ session \in [Ranks -> Session]
          /\ up \subseteq Request
          /\ down \subseteq Response
          /\ calls \in [Ranks -> Seq(BOOLEAN)]
          /\ answers \in [Ranks -> Seq(Answer)]
          /\ gathers \in Seq(Gather)
          /\ faults \in 0 .. MaxFaults

\* What the calls of a gather contribute: one string for each shell whose call
\* collects.
Expectation(c) == {<<s, c[s]>> : s \in {t \in Ranks : calls[t][c[t]]}}

\* The root's result holds what exchange.h promises, "the base64-encoded blobs
\* collected from each shell": each shell takes part with a call of its own, and
\* its contribution is there, no other is, and none is there twice.
GatherComplete ==
    \A g \in ToSet(gathers) :
        /\ \A s \in Ranks : g.calls[s] \in DOMAIN calls[s]
        /\ ToSet(g.data) = Expectation(g.calls)
        /\ IsInjective(g.data)

\* A call that succeeds on any shell gets the result of the gather it took part
\* in: never that of an earlier or a later round, however responses of one
\* round and requests of the next overlap.
SuccessFromOwnGather ==
    \A r \in Ranks : \A a \in ToSet(answers[r]) :
        a.status = "PMIX_SUCCESS" =>
            \E g \in ToSet(gathers) : g.calls[r] = a.call /\ g.data = a.data

\* No call takes part in two gathers: a contribution left over from one round
\* is not delivered again with the next.
NoCallGatheredTwice ==
    \A i, j \in DOMAIN gathers : \A s \in Ranks :
        gathers[i].calls[s] = gathers[j].calls[s] => i = j

\* No call is answered twice: cbfunc is not called, and the fence_call not
\* freed, a second time.
AnsweredOnce == \A r \in Ranks : IsInjective([i \in DOMAIN answers[r] |-> answers[r][i].call])

\* Without failures and with one call at a time, the nth gather is made of the
\* nth calls, and each of them succeeds with its result: rounds stay in step
\* although no message says which round it belongs to.
InStep ==
    /\ \A n \in DOMAIN gathers : \A s \in Ranks : gathers[n].calls[s] = n
    /\ \A r \in Ranks : \A n \in DOMAIN answers[r] :
          /\ n \in DOMAIN gathers
          /\ answers[r][n] = [call |-> n, status |-> "PMIX_SUCCESS",
                              data |-> gathers[n].data]

\* A fence is a barrier: a call succeeds only after every shell has made its
\* call of the same number.
Barrier ==
    \A r \in Ranks : \A a \in ToSet(answers[r]) :
        a.status = "PMIX_SUCCESS" => \A s \in Ranks : a.call \in DOMAIN calls[s]

\* The request of shell r is on its way, held by the parent, or answered.
InHand(r) ==
    \/ \E m \in up : m.from = r /\ m.tag = session[r].arg
    \/ RouteOf([from |-> r, tag |-> session[r].arg])
           \in ToSet(session[parent_rank(r)].requests)
    \/ \E m \in down : m.to = r /\ m.tag = session[r].arg

\* A shell is left waiting for ever only below a shell that reported an error
\* to its own caller: a request never gets lost without anyone being told.
LostOnlyBelowError ==
    \A r \in Ranks \ {0} :
        session[r].f /\ ~InHand(r)
            => \E a \in ToSet(answers[parent_rank(r)]) : a.status = "PMIX_ERROR"

\* Once every shell has made its nth call, all of them are answered.
RoundCompletes ==
    \A n \in 1 .. MaxCalls :
        (\A s \in Ranks : n \in DOMAIN calls[s])
            ~> (\A s \in Ranks : n \in Answered(s))

\* exchange.h: "Once the the result of the exchange is available, 'exit_cb' is
\* invoked": when the root has made a gather, each call in it is answered.
GatheredIsAnswered ==
    \A n \in 1 .. MaxCalls : \A s \in Ranks :
        (\E g \in ToSet(gathers) : g.calls[s] = n) ~> (n \in Answered(s))

(***************************************************************************)
(* An exchange in which no failure leaves part of its effect behind is an  *)
(* allgather as its callers see it: a gather is made from open calls of    *)
(* all shells and each call is answered once, whichever handlers fail.     *)
(***************************************************************************)
AG == INSTANCE AllGather WITH Ranks <- Ranks, Collect <- Collect,
          calls <- calls, answers <- answers, gathers <- gathers

ImplementsAllGather == AG!Spec

=============================================================================
