------------------------------- MODULE Server -------------------------------
(***************************************************************************)
(* One shell of the pmix plugin: the PMIx server thread makes upcalls, the *)
(* shell's reactor thread handles them, and an interthread channel is all  *)
(* that passes between the two.  main.c brings the pieces up one after the *)
(* other in px_init, with the server thread running from PMIx_server_init  *)
(* on, and takes them down in px_destroy.                                  *)
(*                                                                         *)
(* The server callbacks take no argument of the plugin's own, so each one  *)
(* reads a global context first and uses it later: two steps here, with    *)
(* the shell thread's steps between them.  A handler on the shell thread   *)
(* is one step, but for the exit of an exchange: cbfunc answers the server *)
(* before the session is destroyed, and the server thread may run then.    *)
(*                                                                         *)
(* The exchange is what AllGather says of one shell: a call that entered   *)
(* is answered, in its own time, with success or an error.                 *)
(***************************************************************************)
EXTENDS Integers, Sequences, FiniteSets, SequencesExt

CONSTANTS LocalProcs,   \* tasks of this shell
          MaxUpcalls,   \* bound: upcalls the server makes
          MaxFences,    \* bound: unanswered fence upcalls
          Faults,       \* library calls that may fail
          MaxFaults     \* bound: failures in one behaviour

(***************************************************************************)
(* The failures the code handles.  "init": a step of px_init or of         *)
(* px_task_init; "send": encoding or sending an upcall; "recv": the topic  *)
(* of a message is unreadable; "decode": its payload is; "abort_decode":   *)
(* the payload of an abort is; "enter": exchange_enter_base64_string.      *)
(***************************************************************************)
FaultNames == {"init", "send", "recv", "decode", "abort_decode", "enter"}

ASSUME LocalProcsAssumption == LocalProcs \in Nat \ {0}
ASSUME UpcallBoundsAssumption == MaxUpcalls \in Nat /\ MaxFences \in Nat /\ MaxFaults \in Nat
ASSUME ServerFaultsAssumption == Faults \subseteq FaultNames

VARIABLES stage,        \* where the shell thread is in px_init or px_destroy
          it,           \* the channel is open
          ctx,          \* topics whose context is allocated, and its global set
          handlers,     \* topics registered with interthread_register
          server,       \* the PMIx server thread runs
          registered,   \* the server knows notify_server_cb
          clients,      \* tasks registered with the server
          upcalls,      \* what the server has called, in order
          cb,           \* the callback the server thread is in
          channel,      \* messages sent and not yet received, by upcall number
          session,      \* the fence upcall in the exchange, 0 for none
          exiting,      \* its cbfunc has been called, the session still exists
          replies,      \* what the server was told of its upcalls, in order
          lost,         \* upcalls dropped without an answer
          raised,       \* abort upcalls for which an exception was raised
          crashed,      \* what was used that was not there: a context, a pointer
          faults        \* failures so far

lifecycle == <<stage, it, ctx, handlers, server, registered, clients>>
vars == <<stage, it, ctx, handlers, server, registered, clients, upcalls, cb, channel,
          session, exiting, replies, lost, raised, crashed, faults>>

-----------------------------------------------------------------------------
Topics == {"fence", "abort", "dmodex", "notify"}

\* What the handlers tell apart: a fence over the whole namespace, over a
\* subset of it, or with an attribute that is required and unknown or has the
\* wrong type; a dmodex for a rank some shell hosts or none does.  A notification
\* comes from a task of the job or from inside the library.
Kinds == [fence |-> {"valid", "subset", "bad_attr"}, abort |-> {"plain"},
          dmodex |-> {"hosted", "unknown"}, notify |-> {"user", "internal"}]

Upcall == UNION {[topic : {t}, kind : Kinds[t]] : t \in Topics}

Statuses == {"PMIX_SUCCESS", "PMIX_ERROR", "PMIX_ERR_NOT_SUPPORTED", "PMIX_ERR_BAD_PARAM",
             "PMIX_ERR_PROC_ENTRY_NOT_FOUND", "PMIX_ERR_NOT_IMPLEMENTED"}

\* The steps of px_init that precede the tasks, in order; then the shell runs.
\* "killed": the process has died of a signal.
InitStages == {"interthread", "fence", "abort", "dmodex", "server", "register",
               "notify", "nspace"}
UpStages == {"tasks", "running"}
DownStages == {"failed", "destroy", "deregistered", "finalize", "free", "gone", "killed"}

After == [interthread |-> "fence", fence |-> "abort", abort |-> "dmodex",
          dmodex |-> "server", server |-> "register", register |-> "notify",
          notify |-> "nspace", nspace |-> "tasks"]

Idle == [id |-> 0, seen |-> FALSE]

Init == /\ stage = "interthread"
        /\ it = FALSE
        /\ ctx = {}
        /\ handlers = {}
        /\ server = FALSE
        /\ registered = FALSE
        /\ clients = 0
        /\ upcalls = <<>>
        /\ cb = Idle
        /\ channel = <<>>
        /\ session = 0
        /\ exiting = FALSE
        /\ replies = <<>>
        /\ lost = {}
        /\ raised = {}
        /\ crashed = {}
        /\ faults = 0

NoFault == faults' = faults

Fault(name) == /\ name \in Faults
               /\ faults < MaxFaults
               /\ faults' = faults + 1

-----------------------------------------------------------------------------
(* px_init and px_task_init.                                               *)

\* The rest of the system while the shell thread goes through px_init.
Quiet == UNCHANGED <<upcalls, cb, channel, session, exiting, replies, lost, raised, crashed>>

\* This step of px_init returns -1, which ends the shell.
InitFails == Fault("init") /\ stage' = "failed"

Advance(s) == /\ stage = s
              /\ stage' = After[s]
              /\ NoFault

interthread_create ==
    /\ \/ Advance("interthread") /\ it' = TRUE
       \/ stage = "interthread" /\ InitFails /\ UNCHANGED it
    /\ UNCHANGED <<ctx, handlers, server, registered, clients>>
    /\ Quiet

\* interthread_register, then set the global context.  fence_create may fail
\* between the two, as it creates the exchange there.
create(t) ==
    /\ \/ /\ Advance(t)
          /\ handlers' = handlers \cup {t}
          /\ ctx' = ctx \cup {t}
       \/ /\ stage = t
          /\ InitFails
          /\ \/ UNCHANGED handlers
             \/ t = "fence" /\ handlers' = handlers \cup {t}
          /\ UNCHANGED ctx
    /\ UNCHANGED <<it, server, registered, clients>>
    /\ Quiet

fence_create == create("fence")
abort_create == create("abort")
dmodex_create == create("dmodex")

PMIx_server_init ==
    /\ \/ Advance("server") /\ server' = TRUE
       \/ stage = "server" /\ InitFails /\ UNCHANGED server
    /\ UNCHANGED <<it, ctx, handlers, registered, clients>>
    /\ Quiet

\* notify_create, up to PMIx_Register_event_handler.
notify_register ==
    /\ \/ Advance("register") /\ registered' = TRUE
       \/ stage = "register" /\ InitFails /\ UNCHANGED registered
    /\ UNCHANGED <<it, ctx, handlers, server, clients>>
    /\ Quiet

\* The rest of notify_create.
notify_create ==
    /\ Advance("notify")
    /\ handlers' = handlers \cup {"notify"}
    /\ ctx' = ctx \cup {"notify"}
    /\ UNCHANGED <<it, server, registered, clients>>
    /\ Quiet

register_nspace ==
    /\ \/ Advance("nspace")
       \/ stage = "nspace" /\ InitFails
    /\ UNCHANGED <<it, ctx, handlers, server, registered, clients>>
    /\ Quiet

\* Mutant: the number of clients is compared before it is counted up.
px_task_init_late ==
    /\ stage = "tasks"
    /\ NoFault
    /\ clients' = clients + 1
    /\ stage' = IF clients = LocalProcs THEN "running" ELSE "tasks"
    /\ UNCHANGED <<it, ctx, handlers, server, registered>>
    /\ Quiet

\* px_task_init: a task may connect to the server once it is registered.  The
\* reactor runs when all tasks have been started.
px_task_init ==
    /\ stage = "tasks"
    /\ \/ /\ NoFault
          /\ clients' = clients + 1
          /\ stage' = IF clients + 1 = LocalProcs THEN "running" ELSE "tasks"
       \/ InitFails /\ UNCHANGED clients
    /\ UNCHANGED <<it, ctx, handlers, server, registered>>
    /\ Quiet

-----------------------------------------------------------------------------
(* The server thread.                                                      *)

Replied == {replies[i].id : i \in DOMAIN replies}

OpenFences == {i \in DOMAIN upcalls : upcalls[i].topic = "fence"} \ (Replied \cup lost)

\* External: the PMIx server calls.  A client makes it do so, but for the
\* notifications of the library's own, which may come as soon as there is a
\* handler for them.  A fence is called when all the tasks of the shell have come
\* to it.
MayCall(u) ==
    /\ server
    /\ u.kind # "internal" => clients > 0
    /\ u.topic = "notify" => registered
    /\ u.topic = "fence" => clients = LocalProcs /\ Cardinality(OpenFences) < MaxFences

\* The callback begins: it reads its global context.
server_cb(u) ==
    /\ cb = Idle
    /\ MayCall(u)
    /\ Len(upcalls) < MaxUpcalls
    /\ upcalls' = Append(upcalls, u)
    /\ cb' = [id |-> Len(upcalls) + 1, seen |-> u.topic \in ctx]
    /\ UNCHANGED <<lifecycle, channel, session, exiting, replies, lost, raised, crashed, faults>>

fence_server_cb == \E k \in Kinds["fence"] : server_cb([topic |-> "fence", kind |-> k])
abort_server_cb == server_cb([topic |-> "abort", kind |-> "plain"])
dmodex_server_cb == \E k \in Kinds["dmodex"] : server_cb([topic |-> "dmodex", kind |-> k])
notify_server_cb == \E k \in Kinds["notify"] : server_cb([topic |-> "notify", kind |-> k])

Reply(id, status) == replies' = Append(replies, [id |-> id, status |-> status])

\* Mutant: the newest message is received first.
interthread_send_pack_front ==
    /\ cb # Idle
    /\ stage # "killed"
    /\ cb' = Idle
    /\ NoFault
    /\ channel' = <<cb.id>> \o channel
    /\ UNCHANGED <<lifecycle, upcalls, session, exiting, replies, lost, raised, crashed>>

\* A context that was freed, or a channel that was closed, is used.
Dangling(absent) == crashed' = crashed \cup (IF absent THEN {"context"} ELSE {})

\* The callback ends: interthread_send_pack, through the context it read.  One
\* that read NULL never returns.
interthread_send_pack ==
    /\ cb # Idle
    /\ stage # "killed"
    /\ NoFault
    /\ \/ /\ cb.seen
          /\ cb' = Idle
          /\ Dangling(upcalls[cb.id].topic \notin ctx \/ ~it)
          /\ channel' = Append(channel, cb.id)
          /\ UNCHANGED stage
       \/ /\ ~cb.seen
          /\ crashed' = crashed \cup {"null"}
          /\ stage' = "killed"
          /\ UNCHANGED <<cb, channel>>
    /\ UNCHANGED <<it, ctx, handlers, server, registered, clients, upcalls, session, exiting,
                   replies, lost, raised>>

\* Mutant: an error is returned for a message that was sent.
server_cb_fails_sent ==
    /\ cb # Idle
    /\ stage # "killed"
    /\ cb' = Idle
    /\ Fault("send")
    /\ channel' = Append(channel, cb.id)
    /\ Reply(cb.id, "PMIX_ERROR")
    /\ UNCHANGED <<lifecycle, upcalls, session, exiting, lost, raised, crashed>>

\* The callback ends with an error instead, which notify_server_cb has no way
\* to return.
server_cb_fails ==
    /\ cb # Idle
    /\ stage # "killed"
    /\ cb' = Idle
    /\ Fault("send")
    /\ \/ /\ upcalls[cb.id].topic # "notify"
          /\ Reply(cb.id, "PMIX_ERROR")
          /\ UNCHANGED lost
       \/ /\ upcalls[cb.id].topic = "notify"
          /\ lost' = lost \cup {cb.id}
          /\ UNCHANGED replies
    /\ UNCHANGED <<lifecycle, upcalls, channel, session, exiting, raised, crashed>>

-----------------------------------------------------------------------------
(* The shell's reactor thread.                                             *)

Dropped(id) == lost' = lost \cup {id} /\ UNCHANGED <<session, replies, raised>>

Answered(id, status) == Reply(id, status) /\ UNCHANGED <<session, lost, raised>>

\* Mutant: a fence over a subset is rejected without calling cbfunc.
fence_shell_cb_silent(id, kind) ==
    \/ /\ kind = "subset"
       /\ NoFault
       /\ UNCHANGED <<session, replies, lost, raised>>
    \/ /\ kind = "valid"
       /\ session = 0
       /\ NoFault
       /\ session' = id
       /\ UNCHANGED <<replies, lost, raised>>

fence_shell_cb(id, kind) ==
    \/ Fault("decode") /\ Dropped(id)
    \/ kind = "subset" /\ NoFault /\ Answered(id, "PMIX_ERR_NOT_SUPPORTED")
    \/ kind = "bad_attr" /\ NoFault /\ Answered(id, "PMIX_ERR_BAD_PARAM")
    \/ /\ kind = "valid"
       /\ \/ /\ session = 0
             /\ NoFault
             /\ session' = id
             /\ UNCHANGED <<replies, lost, raised>>
          \/ session = 0 /\ Fault("enter") /\ Answered(id, "PMIX_ERROR")
          \/ session # 0 /\ NoFault /\ Answered(id, "PMIX_ERROR")

\* Mutant: the caller is released and no exception is raised.
abort_shell_cb_unraised(id) == NoFault /\ Answered(id, "PMIX_SUCCESS")

abort_shell_cb(id) ==
    \/ Fault("abort_decode") /\ Dropped(id)
    \/ /\ NoFault
       /\ raised' = raised \cup {id}
       /\ Reply(id, "PMIX_SUCCESS")
       /\ UNCHANGED <<session, lost>>

dmodex_shell_cb(id, kind) ==
    \/ Fault("decode") /\ Dropped(id)
    \/ kind = "unknown" /\ NoFault /\ Answered(id, "PMIX_ERR_PROC_ENTRY_NOT_FOUND")
    \/ kind = "hosted" /\ NoFault /\ Answered(id, "PMIX_ERR_NOT_IMPLEMENTED")

\* The event is logged, or unreadable; cbfunc is not called in either case.
notify_shell_cb(id) == (NoFault \/ Fault("decode")) /\ Dropped(id)

\* The handler of the topic, with the context it was registered with.  There is
\* one (NoDanglingUse), so no message is dropped as unhandled.  A failed decode
\* makes abort_shell_cb free a pointer it has not set.
Dispatch(id) ==
    LET u == upcalls[id]
    IN  /\ u.topic \in handlers
        /\ \/ u.topic = "fence" /\ fence_shell_cb(id, u.kind)
           \/ u.topic = "abort" /\ abort_shell_cb(id)
           \/ u.topic = "dmodex" /\ dmodex_shell_cb(id, u.kind)
           \/ u.topic = "notify" /\ notify_shell_cb(id)
        /\ \/ Dangling(u.topic \notin ctx)
           \/ u.topic = "abort" /\ faults' # faults /\ crashed' = crashed \cup {"pointer"}

interthread_recv ==
    /\ stage = "running"
    /\ ~exiting
    /\ channel # <<>>
    /\ channel' = Tail(channel)
    /\ \/ Dispatch(Head(channel))
       \/ Fault("recv") /\ Dropped(Head(channel)) /\ UNCHANGED crashed
    /\ UNCHANGED <<lifecycle, upcalls, cb, exiting>>

\* The exchange completes or fails: exchange_exit_cb calls cbfunc.
exchange_exit_cb(status) ==
    /\ stage = "running"
    /\ session # 0
    /\ ~exiting
    /\ Reply(session, status)
    /\ exiting' = TRUE
    /\ UNCHANGED <<lifecycle, upcalls, cb, channel, session, lost, raised, crashed, faults>>

\* Mutant: the session is left behind.
session_destroy_forgotten ==
    /\ stage = "running"
    /\ exiting
    /\ exiting' = FALSE
    /\ UNCHANGED <<lifecycle, upcalls, cb, channel, session, replies, lost, raised, crashed,
                   faults>>

\* session_process destroys the session when exit_cb has returned.
session_destroy ==
    /\ stage = "running"
    /\ exiting
    /\ exiting' = FALSE
    /\ session' = 0
    /\ UNCHANGED <<lifecycle, upcalls, cb, channel, replies, lost, raised, crashed, faults>>

-----------------------------------------------------------------------------
(* px_destroy, once the reactor has stopped or px_init has failed.         *)

\* Mutant: the event handler stays registered.
px_destroy_registered ==
    /\ stage \in {"running", "failed"}
    /\ ~exiting
    /\ stage' = IF "notify" \in ctx THEN "deregistered" ELSE "finalize"
    /\ UNCHANGED <<it, ctx, handlers, server, registered, clients, faults>>
    /\ Quiet

px_destroy ==
    /\ stage \in {"running", "failed"}
    /\ ~exiting
    /\ stage' = IF "notify" \in ctx THEN "destroy" ELSE "finalize"
    /\ UNCHANGED <<it, ctx, handlers, server, registered, clients, faults>>
    /\ Quiet

\* notify_destroy.  PMIx_Deregister_event_handler without a callback waits for
\* the server thread.
notify_deregister ==
    /\ stage = "destroy"
    /\ cb = Idle
    /\ registered' = FALSE
    /\ stage' = "deregistered"
    /\ UNCHANGED <<it, ctx, handlers, server, clients, faults>>
    /\ Quiet

notify_destroy ==
    /\ stage = "deregistered"
    /\ ctx' = ctx \ {"notify"}
    /\ stage' = "finalize"
    /\ UNCHANGED <<it, handlers, server, registered, clients, faults>>
    /\ Quiet

\* The server thread ends, if it was ever started.
PMIx_server_finalize ==
    /\ stage = "finalize"
    /\ cb = Idle
    /\ server' = FALSE
    /\ stage' = "free"
    /\ UNCHANGED <<it, ctx, handlers, registered, clients, faults>>
    /\ Quiet

\* abort_destroy, fence_destroy, dmodex_destroy and interthread_destroy: the
\* exchange goes without calling back, and the channel with what it holds.
destroy ==
    /\ stage = "free"
    /\ ctx' = {}
    /\ handlers' = {}
    /\ it' = FALSE
    /\ channel' = <<>>
    /\ session' = 0
    /\ lost' = lost \cup ToSet(channel) \cup ({session} \ {0})
    /\ stage' = "gone"
    /\ UNCHANGED <<server, registered, clients, upcalls, cb, exiting, replies, raised,
                   crashed, faults>>

-----------------------------------------------------------------------------
ShellThread ==
    \/ interthread_create
    \/ fence_create
    \/ abort_create
    \/ dmodex_create
    \/ PMIx_server_init
    \/ notify_register
    \/ notify_create
    \/ register_nspace
    \/ px_task_init
    \/ interthread_recv
    \/ session_destroy
    \/ notify_deregister
    \/ notify_destroy
    \/ PMIx_server_finalize
    \/ destroy

exchange == \E status \in {"PMIX_SUCCESS", "PMIX_ERROR"} : exchange_exit_cb(status)

ServerThread == interthread_send_pack \/ server_cb_fails

Next == \/ ShellThread
        \/ exchange
        \/ ServerThread
        \/ fence_server_cb
        \/ abort_server_cb
        \/ dmodex_server_cb
        \/ notify_server_cb
        \/ px_destroy

Spec == Init /\ [][Next]_vars

\* Both threads keep running, and the exchange of a fence ends one day.  No
\* client is obliged to call, and the shell need not end.
Fairness == WF_vars(ShellThread) /\ WF_vars(ServerThread) /\ WF_vars(exchange)

FairSpec == Spec /\ Fairness

-----------------------------------------------------------------------------
TypeOK ==
    /\ stage \in InitStages \cup UpStages \cup DownStages
    /\ it \in BOOLEAN /\ server \in BOOLEAN /\ registered \in BOOLEAN
    /\ ctx \subseteq Topics /\ handlers \subseteq Topics
    /\ clients \in 0 .. LocalProcs
    /\ upcalls \in Seq(Upcall)
    /\ cb \in [id : Nat, seen : BOOLEAN]
    /\ channel \in Seq(Nat)
    /\ session \in Nat
    /\ exiting \in BOOLEAN
    /\ replies \in Seq([id : Nat, status : Statuses])
    /\ lost \subseteq Nat /\ raised \subseteq Nat
    /\ crashed \subseteq {"context", "null", "pointer"}
    /\ faults \in 0 .. MaxFaults

\* Neither thread uses a context that was freed or a channel that was closed, and
\* every message finds its handler: while px_init is under way, when it fails
\* half-way, and while px_destroy takes the plugin down under a server thread
\* that may still be in a callback.  Nor is a context used that is still NULL,
\* but for one: notify_create registers notify_server_cb before it sets the
\* context the callback reads, so a notification of the library's own, before
\* anything else has been called, may find none.
NoDanglingUse ==
    /\ "context" \notin crashed
    /\ "null" \in crashed => \A i \in 1 .. cb.id : upcalls[i].kind = "internal"
    /\ \A i \in DOMAIN channel : upcalls[channel[i]].topic \in handlers

\* Every upcall is in one place: in its callback, on the channel, in the
\* exchange, answered, or dropped.  None is forgotten and none is answered twice,
\* or answered with an error and then handled all the same.
OnePlace ==
    \A i \in DOMAIN upcalls :
        LET places == {<<"cb", 0>> : x \in {cb.id} \cap {i}}
                        \cup {<<"channel", j>> : j \in {k \in DOMAIN channel : channel[k] = i}}
                        \cup {<<"exchange", 0>> : x \in {IF exiting THEN 0 ELSE session} \cap {i}}
                        \cup {<<"reply", j>> : j \in {k \in DOMAIN replies : replies[k].id = i}}
                        \cup {<<"lost", 0>> : x \in lost \cap {i}}
        IN  Cardinality(places) = 1

\* A fence is never refused because of one that is over: although the server
\* learns of the end of a fence while its session still exists, and may call the
\* next one at once, a fence that reaches the exchange finds it free or in use by
\* one that the server still waits for.
ExchangeFree ==
    (channel # <<>> /\ ~exiting /\ upcalls[Head(channel)].topic = "fence")
        => session \notin Replied

\* Fences enter the exchange in the order in which the server called them, which
\* is all that matches the rounds of the shells with each other.
FencesInOrder ==
    [][session' # session /\ session' # 0 =>
          \A i \in OpenFences' : session' <= i]_vars

\* An upcall is answered, or was dropped, unless the shell ends first.
UpcallEnds ==
    \A i \in 1 .. MaxUpcalls :
        (i \in DOMAIN upcalls) ~> (i \in Replied \cup lost \/ stage \in DownStages)

\* PMIx_Abort on any client ends the job, unless the upcall was dropped or the
\* shell ends first.
AbortRaises ==
    \A i \in 1 .. MaxUpcalls :
        (i \in DOMAIN upcalls /\ upcalls[i].topic = "abort")
            ~> \/ i \in raised \cup lost
               \/ \E j \in DOMAIN replies : replies[j] = [id |-> i, status |-> "PMIX_ERROR"]
               \/ stage \in DownStages

=============================================================================
