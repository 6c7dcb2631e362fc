---------------------------- MODULE ServerProofs ----------------------------
(***************************************************************************)
(* For any number of tasks and upcalls and whichever steps fail, neither   *)
(* thread of the plugin uses a context that was freed, and none that is    *)
(* not set yet but for the notifications notify_create lets in too early.  *)
(* What makes it so is the order of px_init and px_destroy, which the      *)
(* invariant Lifetimes spells out.  Every upcall is in one place at a      *)
(* time, from the server's callback to its answer, and fences enter the    *)
(* exchange in the order of the calls, as the invariant Upcalls says of    *)
(* all the places together.                                                *)
(***************************************************************************)
EXTENDS Server, FiniteSetTheorems, TLAPS

\* The contexts the server thread may need as soon as it runs.
Early == {"fence", "abort", "dmodex"}

\* What each step of px_init finds done by the steps before it.
InitOrder ==
    /\ stage \in {"fence", "abort", "dmodex", "server"} => it
    /\ stage \in {"abort", "dmodex", "server"} => "fence" \in ctx \cap handlers
    /\ stage \in {"dmodex", "server"} => "abort" \in ctx \cap handlers
    /\ stage = "server" => "dmodex" \in ctx \cap handlers
    /\ stage \in InitStages => clients = 0
    /\ stage \in UpStages \cup {"register", "notify", "nspace"} => server
    /\ stage \in UpStages \cup {"nspace"} => "notify" \in ctx \cap handlers

\* While the server thread runs there is a channel and every context it uses.
ServerUses ==
    /\ server => it /\ Early \subseteq ctx
    /\ ctx \subseteq handlers
    /\ registered /\ stage \notin {"notify", "killed"} => "notify" \in ctx
    /\ stage \in {"deregistered", "finalize", "free", "gone"} => ~registered
    /\ stage \in {"free", "gone"} => ~server

\* The upcalls so far, up to the i-th, are notifications of the library's own.
NobodyCalled(i) == \A j \in 1 .. i : upcalls[j].kind = "internal"

\* There are no others before there are clients.
EarlyCalls == stage \in InitStages => NobodyCalled(Len(upcalls))

\* A callback that has begun has seen a context that is still there, or else it
\* was made before anybody called.
CallbackUses ==
    cb # Idle =>
        /\ server
        /\ cb.id \in DOMAIN upcalls
        /\ cb.seen => /\ upcalls[cb.id].topic \in ctx
                      /\ upcalls[cb.id].topic \in handlers
        /\ ~cb.seen => NobodyCalled(cb.id)
        /\ upcalls[cb.id].topic = "notify" => registered

\* A message on the channel is from an upcall whose handler is registered.
ChannelUses ==
    \A i \in DOMAIN channel : /\ channel[i] \in DOMAIN upcalls
                              /\ upcalls[channel[i]].topic \in handlers

\* The process dies in a callback that has seen no context, and a context that is
\* NULL is used in no other way.
NullUses ==
    /\ stage = "killed" => cb # Idle /\ ~cb.seen
    /\ "null" \in crashed => stage = "killed"

\* The types the argument needs.
Shapes == /\ stage \in InitStages \cup UpStages \cup DownStages
          /\ clients \in Nat
          /\ upcalls \in Seq(Upcall)
          /\ channel \in Seq(Nat)
          /\ cb \in [id : Nat, seen : BOOLEAN]

Lifetimes == /\ Shapes
             /\ InitOrder
             /\ ServerUses
             /\ EarlyCalls
             /\ CallbackUses
             /\ ChannelUses
             /\ NullUses
             /\ "context" \notin crashed

-----------------------------------------------------------------------------
\* An upcall has one of the four topics.
LEMMA TopicType == ASSUME NEW u \in Upcall PROVE u.topic \in Topics
  BY DEF Upcall

\* A callback of the server is for one of the upcalls.
LEMMA CallsAreUpcalls ==
  ASSUME fence_server_cb \/ abort_server_cb \/ dmodex_server_cb \/ notify_server_cb
  PROVE  \E u \in Upcall : server_cb(u)
  <1>1. ASSUME NEW t \in Topics, NEW k \in Kinds[t]
        PROVE  [topic |-> t, kind |-> k] \in Upcall
    <2>1. [topic |-> t, kind |-> k] \in [topic : {t}, kind : Kinds[t]]
      OBVIOUS
    <2> QED
      BY <2>1 DEF Upcall
  <1>2. /\ {"fence", "abort", "dmodex", "notify"} = Topics
        /\ "plain" \in Kinds["abort"]
    BY DEF Topics, Kinds
  <1> QED
    BY <1>1, <1>2 DEF fence_server_cb, abort_server_cb, dmodex_server_cb, notify_server_cb

\* A step that takes nothing away keeps what callbacks and messages rely on.
LEMMA UsesKept ==
  ASSUME CallbackUses, ChannelUses, UNCHANGED <<upcalls, cb, channel>>,
         ctx \subseteq ctx', handlers \subseteq handlers',
         server => server', registered => registered'
  PROVE  CallbackUses' /\ ChannelUses'
  BY DEF CallbackUses, ChannelUses, NobodyCalled

\* The steps of px_init and px_task_init.
LEMMA InitLifetimes ==
  ASSUME Lifetimes,
         \/ interthread_create
         \/ \E t \in Early : create(t)
         \/ PMIx_server_init
         \/ notify_register
         \/ notify_create
         \/ register_nspace
         \/ px_task_init
  PROVE  Lifetimes'
  <1> USE DEF InitStages, UpStages, DownStages, After, Advance, InitFails, Early
  <1>0. /\ Shapes /\ InitOrder /\ ServerUses /\ EarlyCalls /\ CallbackUses /\ ChannelUses
        /\ NullUses /\ "context" \notin crashed
    BY DEF Lifetimes
  <1>a. Quiet
    BY DEF interthread_create, create, PMIx_server_init, notify_register, notify_create,
           register_nspace, px_task_init
  <1>b. ctx \subseteq ctx' /\ handlers \subseteq handlers'
    BY DEF interthread_create, create, PMIx_server_init, notify_register, notify_create,
           register_nspace, px_task_init
  <1>c. (server' = server \/ server' = TRUE) /\ (registered' = registered \/ registered' = TRUE)
    BY DEF interthread_create, create, PMIx_server_init, notify_register, notify_create,
           register_nspace, px_task_init
  <1>d. /\ server => server'
        /\ registered => registered'
    BY <1>c
  <1>1. /\ UNCHANGED <<upcalls, cb, channel, crashed>>
        /\ ctx \subseteq ctx' /\ handlers \subseteq handlers'
        /\ server => server'
        /\ registered => registered'
    BY <1>a, <1>b, <1>d DEF Quiet
  <1>e. /\ stage # "killed" /\ stage' # "killed"
        /\ stage' \in InitStages => stage \in InitStages
    BY DEF interthread_create, create, PMIx_server_init, notify_register, notify_create,
           register_nspace, px_task_init
  <1>f. EarlyCalls' /\ NullUses'
    BY <1>0, <1>1, <1>e DEF EarlyCalls, NobodyCalled, NullUses
  <1>2. EarlyCalls' /\ CallbackUses' /\ ChannelUses' /\ NullUses' /\ "context" \notin crashed'
    BY <1>0, <1>1, <1>f, UsesKept
  <1>3. CASE interthread_create
    <2>1. InitOrder' /\ ServerUses' /\ Shapes'
      BY <1>0, <1>1, <1>3 DEF interthread_create, InitOrder, ServerUses, Shapes
    <2> QED
      BY <1>2, <2>1 DEF Lifetimes
  <1>4. ASSUME NEW t \in Early, create(t)
        PROVE  Lifetimes'
    <2>1. Shapes'
      BY <1>0, <1>1, <1>4 DEF create, Shapes
    <2>2. InitOrder'
      BY <1>0, <1>1, <1>4 DEF create, InitOrder
    <2>3. ServerUses'
      BY <1>0, <1>1, <1>4 DEF create, InitOrder, ServerUses
    <2> QED
      BY <1>2, <2>1, <2>2, <2>3 DEF Lifetimes
  <1>5. CASE PMIx_server_init
    <2>1. InitOrder' /\ ServerUses' /\ Shapes'
      BY <1>0, <1>1, <1>5 DEF PMIx_server_init, InitOrder, ServerUses, Shapes
    <2> QED
      BY <1>2, <2>1 DEF Lifetimes
  <1>6. CASE notify_register
    <2>1. InitOrder' /\ ServerUses' /\ Shapes'
      BY <1>0, <1>1, <1>6 DEF notify_register, InitOrder, ServerUses, Shapes
    <2> QED
      BY <1>2, <2>1 DEF Lifetimes
  <1>7. CASE notify_create
    <2>1. InitOrder' /\ ServerUses' /\ Shapes'
      BY <1>0, <1>1, <1>7 DEF notify_create, InitOrder, ServerUses, Shapes
    <2> QED
      BY <1>2, <2>1 DEF Lifetimes
  <1>8. CASE register_nspace
    <2>1. InitOrder' /\ ServerUses' /\ Shapes'
      BY <1>0, <1>1, <1>8 DEF register_nspace, InitOrder, ServerUses, Shapes
    <2> QED
      BY <1>2, <2>1 DEF Lifetimes
  <1>9. CASE px_task_init
    <2>1. InitOrder' /\ ServerUses' /\ Shapes'
      BY <1>0, <1>1, <1>9 DEF px_task_init, InitOrder, ServerUses, Shapes
    <2> QED
      BY <1>2, <2>1 DEF Lifetimes
  <1> QED
    BY <1>3, <1>4, <1>5, <1>6, <1>7, <1>8, <1>9

\* The server thread begins and ends a callback.
LEMMA ServerLifetimes ==
  ASSUME Lifetimes,
         \/ \E u \in Upcall : server_cb(u)
         \/ interthread_send_pack
         \/ server_cb_fails
  PROVE  Lifetimes'
  <1>0. /\ Shapes /\ InitOrder /\ ServerUses /\ EarlyCalls /\ CallbackUses /\ ChannelUses
        /\ NullUses /\ "context" \notin crashed
    BY DEF Lifetimes
  <1>1. stage # "killed"
    BY <1>0 DEF NullUses, server_cb, interthread_send_pack, server_cb_fails
  <1>2. ASSUME UNCHANGED lifecycle
        PROVE  InitOrder' /\ ServerUses'
    BY <1>0, <1>2 DEF lifecycle, InitOrder, ServerUses
  <1>3. ASSUME NEW u \in Upcall, server_cb(u)
        PROVE  Lifetimes'
    <2>1. /\ upcalls' = Append(upcalls, u)
          /\ cb' = [id |-> Len(upcalls) + 1, seen |-> u.topic \in ctx]
          /\ channel' = channel /\ crashed' = crashed /\ UNCHANGED lifecycle
      BY <1>3 DEF server_cb
    <2>2. /\ upcalls \in Seq(Upcall) /\ Len(upcalls) \in Nat
          /\ DOMAIN upcalls = 1 .. Len(upcalls)
          /\ DOMAIN upcalls' = 1 .. Len(upcalls) + 1 /\ Len(upcalls') = Len(upcalls) + 1
          /\ upcalls'[Len(upcalls) + 1] = u
          /\ \A i \in DOMAIN upcalls : upcalls'[i] = upcalls[i]
      BY <1>0, <2>1 DEF Shapes
    <2>3. Shapes'
      BY <1>0, <2>1, <2>2 DEF Shapes, lifecycle
    <2>4. /\ server /\ clients \in Nat
          /\ u.kind # "internal" => clients # 0
          /\ u.topic = "notify" => registered
      BY <1>0, <1>3 DEF server_cb, MayCall, Shapes
    <2>5. u.topic \in Early \cup {"notify"}
      BY TopicType DEF Topics, Early
    <2>6. ASSUME stage \in InitStages
          PROVE  NobodyCalled(Len(upcalls))'
      <3>1. u.kind = "internal"
        BY <1>0, <2>4, <2>6 DEF InitOrder
      <3>2. \A i \in 1 .. Len(upcalls) + 1 : upcalls'[i].kind = "internal"
        BY <1>0, <2>2, <2>6, <3>1 DEF EarlyCalls, NobodyCalled
      <3> QED
        BY <2>2, <3>2 DEF NobodyCalled
    <2>7. u.topic \notin ctx => stage \in InitStages
      BY <1>0, <1>1, <2>4, <2>5 DEF ServerUses, InitStages
    <2>8. u.topic \in ctx => u.topic \in handlers
      BY <1>0 DEF ServerUses
    <2>9. CallbackUses'
      <3>1. cb'.id = Len(upcalls) + 1 /\ cb'.seen = (u.topic \in ctx)
        BY <2>1
      <3>2. server' /\ ctx' = ctx /\ handlers' = handlers /\ registered' = registered
        BY <2>1, <2>4 DEF lifecycle
      <3>3. cb'.id \in DOMAIN upcalls' /\ upcalls'[cb'.id] = u
        BY <2>2, <3>1
      <3>4. u.topic \notin ctx => \A i \in 1 .. Len(upcalls) + 1 : upcalls'[i].kind = "internal"
        BY <2>2, <2>6, <2>7 DEF NobodyCalled
      <3> QED
        BY <2>4, <2>8, <3>1, <3>2, <3>3, <3>4 DEF CallbackUses, NobodyCalled
    <2>10. ChannelUses'
      BY <1>0, <2>1, <2>2 DEF ChannelUses, lifecycle
    <2>11. EarlyCalls'
      BY <2>1, <2>2, <2>6 DEF EarlyCalls, lifecycle
    <2>12. NullUses'
      BY <1>0, <1>1, <2>1 DEF NullUses, lifecycle
    <2> QED
      BY <1>0, <1>2, <2>1, <2>3, <2>9, <2>10, <2>11, <2>12 DEF Lifetimes
  <1>4. ASSUME interthread_send_pack, cb.seen
        PROVE  Lifetimes'
    <2>1. /\ cb # Idle /\ cb' = Idle /\ upcalls' = upcalls /\ UNCHANGED lifecycle
          /\ channel' = Append(channel, cb.id)
          /\ Dangling(upcalls[cb.id].topic \notin ctx \/ ~it)
      BY <1>4 DEF interthread_send_pack, lifecycle
    <2>2. /\ server /\ cb.id \in DOMAIN upcalls
          /\ upcalls[cb.id].topic \in ctx /\ upcalls[cb.id].topic \in handlers
      BY <1>0, <1>4, <2>1 DEF CallbackUses
    <2>3. it
      BY <1>0, <2>2 DEF ServerUses
    <2>4. crashed' = crashed
      BY <2>1, <2>2, <2>3 DEF Dangling
    <2>5. Shapes' /\ CallbackUses' /\ EarlyCalls' /\ NullUses'
      BY <1>0, <1>1, <2>1, <2>4
      DEF Shapes, CallbackUses, EarlyCalls, NobodyCalled, NullUses, lifecycle, Idle
    <2>6. ChannelUses'
      <3>1. /\ DOMAIN channel' = 1 .. Len(channel) + 1 /\ DOMAIN channel = 1 .. Len(channel)
            /\ Len(channel) \in Nat
            /\ channel'[Len(channel) + 1] = cb.id
            /\ \A i \in DOMAIN channel : channel'[i] = channel[i]
        BY <1>0, <2>1 DEF Shapes
      <3>2. \A i \in DOMAIN channel' : i \in DOMAIN channel \/ i = Len(channel) + 1
        BY <3>1
      <3> QED
        BY <1>0, <2>1, <2>2, <3>1, <3>2 DEF ChannelUses, lifecycle
    <2> QED
      BY <1>0, <1>2, <2>1, <2>4, <2>5, <2>6 DEF Lifetimes
  <1>5. ASSUME interthread_send_pack, ~cb.seen
        PROVE  Lifetimes'
    <2>1. /\ cb # Idle /\ stage' = "killed" /\ crashed' = crashed \cup {"null"}
          /\ UNCHANGED <<it, ctx, handlers, server, registered, clients, upcalls, cb, channel>>
      BY <1>5 DEF interthread_send_pack
    <2>2. Shapes' /\ InitOrder' /\ EarlyCalls' /\ NullUses'
      BY <1>0, <1>5, <2>1
      DEF Shapes, InitOrder, EarlyCalls, NullUses, InitStages, UpStages, DownStages
    <2>3. ServerUses'
      BY <1>0, <2>1 DEF ServerUses
    <2>4. CallbackUses' /\ ChannelUses'
      BY <1>0, <2>1 DEF CallbackUses, ChannelUses, NobodyCalled
    <2> QED
      BY <1>0, <2>1, <2>2, <2>3, <2>4 DEF Lifetimes
  <1>6. CASE server_cb_fails
    <2>1. cb' = Idle /\ UNCHANGED lifecycle /\ UNCHANGED <<upcalls, channel, crashed>>
      BY <1>6 DEF server_cb_fails
    <2>2. Shapes' /\ CallbackUses' /\ EarlyCalls' /\ NullUses'
      BY <1>0, <1>1, <2>1
      DEF Shapes, CallbackUses, EarlyCalls, NobodyCalled, NullUses, lifecycle, Idle
    <2>3. ChannelUses'
      BY <1>0, <2>1 DEF ChannelUses, lifecycle
    <2> QED
      BY <1>0, <1>2, <2>1, <2>2, <2>3 DEF Lifetimes
  <1> QED
    BY <1>3, <1>4, <1>5, <1>6

\* The reactor thread receives a message, or an exchange ends.
LEMMA ReactorLifetimes ==
  ASSUME Lifetimes,
         interthread_recv \/ exchange \/ session_destroy
  PROVE  Lifetimes'
  <1>0. /\ Shapes /\ InitOrder /\ ServerUses /\ EarlyCalls /\ CallbackUses /\ ChannelUses
        /\ NullUses /\ "context" \notin crashed
    BY DEF Lifetimes
  <1>1. UNCHANGED lifecycle /\ UNCHANGED <<upcalls, cb>>
    BY DEF interthread_recv, exchange, exchange_exit_cb, session_destroy
  <1>2. InitOrder' /\ ServerUses' /\ EarlyCalls' /\ CallbackUses'
    BY <1>0, <1>1 DEF lifecycle, InitOrder, ServerUses, EarlyCalls, CallbackUses, NobodyCalled
  <1>3. CASE interthread_recv
    <2>1. stage = "running" /\ channel # <<>> /\ channel' = Tail(channel)
      BY <1>3 DEF interthread_recv
    <2> DEFINE id == Head(channel)
    <2>2. /\ channel \in Seq(Nat) /\ Len(channel) \in Nat /\ Len(channel) >= 1
          /\ DOMAIN channel = 1 .. Len(channel) /\ id = channel[1]
          /\ channel' \in Seq(Nat)
          /\ DOMAIN channel' = 1 .. Len(channel) - 1
          /\ \A i \in DOMAIN channel' : channel'[i] = channel[i + 1]
      BY <1>0, <2>1 DEF Shapes
    <2>3. Shapes'
      BY <1>0, <1>1, <2>2 DEF Shapes, lifecycle
    <2>4. ChannelUses'
      <3>1. \A i \in DOMAIN channel' : i + 1 \in DOMAIN channel
        BY <2>2
      <3> QED
        BY <1>0, <1>1, <2>2, <3>1 DEF ChannelUses, lifecycle
    <2>5. upcalls[id].topic \in ctx
      <3>1. 1 \in DOMAIN channel
        BY <2>2
      <3>2. id \in DOMAIN upcalls
        BY <1>0, <2>2, <3>1 DEF ChannelUses
      <3>3. upcalls[id].topic \in Topics
        BY <1>0, <3>2, TopicType DEF Shapes
      <3>4. Topics \subseteq ctx
        BY <1>0, <2>1 DEF InitOrder, ServerUses, UpStages, Topics, Early
      <3> QED
        BY <3>3, <3>4
    <2>6. "context" \notin crashed' /\ ("null" \in crashed' => "null" \in crashed)
      <3>1. CASE Dispatch(id)
        <4>1. \/ Dangling(upcalls[id].topic \notin ctx)
              \/ crashed' = crashed \cup {"pointer"}
          BY <3>1 DEF Dispatch
        <4> QED
          BY <1>0, <2>5, <4>1 DEF Dangling
      <3> QED
        BY <1>0, <1>3, <3>1 DEF interthread_recv
    <2>7. NullUses'
      BY <1>0, <1>1, <2>6 DEF NullUses, lifecycle
    <2> QED
      BY <1>2, <2>3, <2>4, <2>6, <2>7 DEF Lifetimes
  <1>4. CASE exchange \/ session_destroy
    <2>1. UNCHANGED <<channel, crashed>>
      BY <1>4 DEF exchange, exchange_exit_cb, session_destroy
    <2>2. Shapes' /\ ChannelUses' /\ NullUses'
      BY <1>0, <1>1, <2>1 DEF Shapes, ChannelUses, NullUses, lifecycle
    <2> QED
      BY <1>0, <1>2, <2>1, <2>2 DEF Lifetimes
  <1> QED
    BY <1>3, <1>4

\* The steps of px_destroy.
LEMMA DestroyLifetimes ==
  ASSUME Lifetimes,
         \/ px_destroy
         \/ notify_deregister
         \/ notify_destroy
         \/ PMIx_server_finalize
         \/ destroy
  PROVE  Lifetimes'
  <1> USE DEF InitStages, UpStages, DownStages, Early
  <1>0. /\ Shapes /\ InitOrder /\ ServerUses /\ EarlyCalls /\ CallbackUses /\ ChannelUses
        /\ NullUses /\ "context" \notin crashed
    BY DEF Lifetimes
  <1>1. CASE px_destroy
    <2>1. /\ UNCHANGED <<it, ctx, handlers, server, registered, clients, upcalls, cb, channel,
                         crashed>>
          /\ stage \in {"running", "failed"} /\ stage' \in {"destroy", "finalize"}
          /\ stage' = "finalize" => "notify" \notin ctx
      BY <1>1 DEF px_destroy, Quiet
    <2>2. Shapes' /\ InitOrder'
      BY <1>0, <2>1 DEF Shapes, InitOrder
    <2>3. ServerUses'
      BY <1>0, <2>1 DEF ServerUses
    <2>4. CallbackUses' /\ ChannelUses' /\ EarlyCalls' /\ NullUses'
      BY <1>0, <2>1 DEF CallbackUses, ChannelUses, EarlyCalls, NobodyCalled, NullUses
    <2> QED
      BY <1>0, <2>1, <2>2, <2>3, <2>4 DEF Lifetimes
  <1>2. CASE notify_deregister
    <2>1. /\ UNCHANGED <<it, ctx, handlers, server, clients, upcalls, cb, channel, crashed>>
          /\ stage = "destroy" /\ cb = Idle /\ registered' = FALSE /\ stage' = "deregistered"
      BY <1>2 DEF notify_deregister, Quiet
    <2>2. Shapes' /\ InitOrder' /\ ServerUses'
      BY <1>0, <2>1 DEF Shapes, InitOrder, ServerUses
    <2>3. CallbackUses' /\ ChannelUses' /\ EarlyCalls' /\ NullUses'
      BY <1>0, <2>1 DEF CallbackUses, ChannelUses, EarlyCalls, NullUses, Idle
    <2> QED
      BY <1>0, <2>1, <2>2, <2>3 DEF Lifetimes
  <1>3. CASE notify_destroy
    <2>1. /\ UNCHANGED <<it, handlers, server, registered, clients, upcalls, cb, channel, crashed>>
          /\ stage = "deregistered" /\ ctx' = ctx \ {"notify"} /\ stage' = "finalize"
      BY <1>3 DEF notify_destroy, Quiet
    <2>2. ~registered
      BY <1>0, <2>1 DEF ServerUses
    <2>3. Shapes' /\ InitOrder' /\ ServerUses'
      BY <1>0, <2>1, <2>2 DEF Shapes, InitOrder, ServerUses
    <2>4. CallbackUses'
      BY <1>0, <2>1, <2>2 DEF CallbackUses, NobodyCalled, Idle
    <2>5. ChannelUses' /\ EarlyCalls' /\ NullUses'
      BY <1>0, <2>1 DEF ChannelUses, EarlyCalls, NullUses
    <2> QED
      BY <1>0, <2>1, <2>3, <2>4, <2>5 DEF Lifetimes
  <1>4. CASE PMIx_server_finalize
    <2>1. /\ UNCHANGED <<it, ctx, handlers, registered, clients, upcalls, cb, channel, crashed>>
          /\ stage = "finalize" /\ cb = Idle /\ server' = FALSE /\ stage' = "free"
      BY <1>4 DEF PMIx_server_finalize, Quiet
    <2>2. Shapes' /\ InitOrder' /\ ServerUses'
      BY <1>0, <2>1 DEF Shapes, InitOrder, ServerUses
    <2>3. CallbackUses' /\ ChannelUses' /\ EarlyCalls' /\ NullUses'
      BY <1>0, <2>1 DEF CallbackUses, ChannelUses, EarlyCalls, NullUses, Idle
    <2> QED
      BY <1>0, <2>1, <2>2, <2>3 DEF Lifetimes
  <1>5. CASE destroy
    <2>1. /\ UNCHANGED <<server, registered, clients, upcalls, cb, crashed>>
          /\ stage = "free" /\ stage' = "gone" /\ channel' = <<>>
          /\ ctx' = {} /\ handlers' = {}
      BY <1>5 DEF destroy
    <2>2. ~server /\ cb = Idle
      BY <1>0, <2>1 DEF ServerUses, CallbackUses
    <2>3. Shapes' /\ InitOrder'
      BY <1>0, <2>1 DEF Shapes, InitOrder
    <2>4. ServerUses'
      BY <1>0, <2>1, <2>2 DEF ServerUses
    <2>5. CallbackUses' /\ ChannelUses' /\ EarlyCalls' /\ NullUses'
      BY <1>0, <2>1, <2>2 DEF CallbackUses, ChannelUses, EarlyCalls, NullUses, Idle
    <2> QED
      BY <1>0, <2>1, <2>3, <2>4, <2>5 DEF Lifetimes
  <1> QED
    BY <1>1, <1>2, <1>3, <1>4, <1>5

-----------------------------------------------------------------------------
\* The invariant holds when px_init begins.
LEMMA LifetimesInit == Init => Lifetimes
  BY DEF Init, Lifetimes, Shapes, InitOrder, ServerUses, EarlyCalls, NobodyCalled, CallbackUses,
         ChannelUses, NullUses, InitStages, UpStages, DownStages, Idle

\* Every step keeps the invariant.
LEMMA LifetimesNext ==
  ASSUME Lifetimes, [Next]_vars
  PROVE  Lifetimes'
  <1>1. CASE ShellThread
    BY <1>1, InitLifetimes, ReactorLifetimes, DestroyLifetimes
    DEF ShellThread, Early, fence_create, abort_create, dmodex_create
  <1>2. CASE exchange
    BY <1>2, ReactorLifetimes
  <1>3. CASE fence_server_cb \/ abort_server_cb \/ dmodex_server_cb \/ notify_server_cb
    BY <1>3, CallsAreUpcalls, ServerLifetimes
  <1>6. CASE ServerThread
    BY <1>6, ServerLifetimes DEF ServerThread
  <1>4. CASE px_destroy
    BY <1>4, DestroyLifetimes
  <1>5. CASE UNCHANGED vars
    BY <1>5 DEF vars, Lifetimes, Shapes, InitOrder, ServerUses, EarlyCalls, NobodyCalled,
                CallbackUses, ChannelUses, NullUses
  <1> QED
    BY <1>1, <1>2, <1>3, <1>4, <1>5, <1>6 DEF Next

\* However many tasks, upcalls and failures there are, neither thread uses a
\* context after px_destroy has freed it, every message finds its handler, and a
\* context that px_init has not set yet is used by a notification of the
\* library's own at most, before any other upcall.
THEOREM NoDanglingUses == Spec => []NoDanglingUse
  <1>1. Lifetimes /\ [Next]_vars => Lifetimes'
    BY LifetimesNext
  <1>2. Lifetimes => NoDanglingUse
    <2> SUFFICES ASSUME Lifetimes PROVE NoDanglingUse
      OBVIOUS
    <2>1. "null" \in crashed => NobodyCalled(cb.id)
      BY DEF Lifetimes, NullUses, CallbackUses
    <2> QED
      BY <2>1 DEF Lifetimes, ChannelUses, NobodyCalled, NoDanglingUse
  <1> QED
    BY <1>1, <1>2, LifetimesInit, PTL DEF Spec

-----------------------------------------------------------------------------
(* Where an upcall is.                                                     *)

Called == {cb.id} \ {0}

InChannel == ToSet(channel)

InExchange == IF exiting THEN {} ELSE {session} \ {0}

\* The newest upcall is the one whose callback has not ended.
CallbackIsLast == cb # Idle => cb.id = Len(upcalls) /\ cb.id # 0

\* Every other upcall is on the channel, in the exchange, answered or dropped...
SomePlace ==
    DOMAIN upcalls \ Called = InChannel \cup InExchange \cup Replied \cup lost

\* ... in one of these only ...
NoTwoPlaces ==
    /\ InChannel \cap (InExchange \cup Replied \cup lost) = {}
    /\ InExchange \cap (Replied \cup lost) = {}
    /\ Replied \cap lost = {}

\* ... answered once ...
AnsweredOnce == \A j, k \in DOMAIN replies : replies[j].id = replies[k].id => j = k

\* ... and on the channel in the order of the calls.
ChannelInOrder == \A j, k \in DOMAIN channel : j < k => channel[j] < channel[k]

\* No task is registered before the tasks are started, nor more than there are;
\* and the reactor does not stop inside a handler.
StageCounts == /\ stage \in InitStages => clients = 0
               /\ stage = "tasks" => clients < LocalProcs
               /\ exiting => stage \in {"running", "killed"}

Placed == /\ CallbackIsLast
          /\ SomePlace
          /\ NoTwoPlaces
          /\ AnsweredOnce
          /\ ChannelInOrder

Upcalls == TypeOK /\ StageCounts /\ Placed

-----------------------------------------------------------------------------
\* What cbfunc adds to the answers.
LEMMA ReplyAdds ==
  ASSUME replies \in Seq([id : Nat, status : Statuses]), AnsweredOnce,
         NEW id \in Nat \ Replied, NEW status \in Statuses, Reply(id, status)
  PROVE  /\ replies' \in Seq([id : Nat, status : Statuses])
         /\ Replied' = Replied \cup {id}
         /\ AnsweredOnce'
  <1> DEFINE a == [id |-> id, status |-> status]
  <1>1. a \in [id : Nat, status : Statuses] /\ a.id = id /\ replies' = Append(replies, a)
    BY DEF Reply
  <1> HIDE DEF a
  <1>2. /\ replies' \in Seq([id : Nat, status : Statuses])
        /\ Len(replies) \in Nat /\ DOMAIN replies = 1 .. Len(replies)
        /\ DOMAIN replies' = 1 .. Len(replies) + 1
        /\ replies'[Len(replies) + 1] = a
        /\ \A k \in DOMAIN replies : replies'[k] = replies[k]
    BY <1>1
  <1>3. DOMAIN replies' = DOMAIN replies \cup {Len(replies) + 1}
    BY <1>2
  <1>4. Replied' = Replied \cup {id}
    BY <1>1, <1>2, <1>3 DEF Replied
  <1>5. \A k \in DOMAIN replies : replies[k].id # id
    BY DEF Replied
  <1>6. AnsweredOnce'
    <2> SUFFICES ASSUME NEW j \in DOMAIN replies', NEW k \in DOMAIN replies',
                        replies'[j].id = replies'[k].id
                 PROVE  j = k
      BY DEF AnsweredOnce
    <2>1. CASE j \in DOMAIN replies /\ k \in DOMAIN replies
      BY <1>2, <2>1 DEF AnsweredOnce
    <2>2. CASE j \notin DOMAIN replies \/ k \notin DOMAIN replies
      BY <1>1, <1>2, <1>3, <1>5, <2>2
    <2> QED
      BY <2>1, <2>2
  <1> QED
    BY <1>2, <1>4, <1>6

\* What interthread_send_pack adds to the channel.
LEMMA SendAdds ==
  ASSUME channel \in Seq(Nat), ChannelInOrder, NEW id \in Nat,
         \A k \in DOMAIN channel : channel[k] < id,
         channel' = Append(channel, id)
  PROVE  /\ channel' \in Seq(Nat)
         /\ InChannel' = InChannel \cup {id}
         /\ ChannelInOrder'
  <1>1. /\ channel' \in Seq(Nat)
        /\ Len(channel) \in Nat /\ DOMAIN channel = 1 .. Len(channel)
        /\ DOMAIN channel' = 1 .. Len(channel) + 1
        /\ channel'[Len(channel) + 1] = id
        /\ \A k \in DOMAIN channel : channel'[k] = channel[k]
    OBVIOUS
  <1>2. DOMAIN channel' = DOMAIN channel \cup {Len(channel) + 1}
    BY <1>1
  <1>3. InChannel' = InChannel \cup {id}
    BY <1>1, <1>2 DEF InChannel, ToSet
  <1>4. ChannelInOrder'
    <2> SUFFICES ASSUME NEW j \in DOMAIN channel', NEW k \in DOMAIN channel', j < k
                 PROVE  channel'[j] < channel'[k]
      BY DEF ChannelInOrder
    <2>1. j \in DOMAIN channel
      BY <1>1
    <2>2. CASE k \in DOMAIN channel
      BY <1>1, <2>1, <2>2 DEF ChannelInOrder
    <2>3. CASE k = Len(channel) + 1
      BY <1>1, <2>1, <2>3
    <2> QED
      BY <1>2, <2>2, <2>3
  <1> QED
    BY <1>1, <1>3, <1>4

\* What interthread_recv takes from it: its oldest message.
LEMMA ReceiveTakes ==
  ASSUME channel \in Seq(Nat), ChannelInOrder, channel # <<>>, channel' = Tail(channel)
  PROVE  /\ channel' \in Seq(Nat)
         /\ Head(channel) \in InChannel
         /\ InChannel' = InChannel \ {Head(channel)}
         /\ \A i \in InChannel' : Head(channel) < i
         /\ ChannelInOrder'
  <1> DEFINE n == Len(channel)
  <1>1. /\ channel' \in Seq(Nat)
        /\ n \in Nat /\ n >= 1 /\ DOMAIN channel = 1 .. n
        /\ Head(channel) = channel[1]
        /\ DOMAIN channel' = 1 .. n - 1
        /\ \A k \in 1 .. n - 1 : channel'[k] = channel[k + 1]
        /\ \A k \in DOMAIN channel : channel[k] \in Nat
    OBVIOUS
  <1> HIDE DEF n
  <1>2. 1 \in DOMAIN channel /\ \A k \in 1 .. n - 1 : k + 1 \in DOMAIN channel /\ 1 < k + 1
    BY <1>1
  <1>3. \A k \in DOMAIN channel : k = 1 \/ (k - 1 \in 1 .. n - 1 /\ k = (k - 1) + 1)
    BY <1>1
  <1>4. \A k \in DOMAIN channel' : channel[1] < channel'[k] /\ channel'[k] \in InChannel
    BY <1>1, <1>2 DEF ChannelInOrder, InChannel, ToSet
  <1>5. \A i \in InChannel' : i \in InChannel /\ channel[1] < i /\ i # channel[1]
    <2>1. channel[1] \in Nat /\ \A k \in DOMAIN channel' : channel'[k] \in Nat
      BY <1>1, <1>2
    <2>2. \A k \in DOMAIN channel' : channel'[k] # channel[1]
      BY <1>4, <2>1
    <2> QED
      BY <1>4, <2>2 DEF InChannel, ToSet
  <1>6. \A i \in InChannel : i # channel[1] => i \in InChannel'
    <2> SUFFICES ASSUME NEW k \in DOMAIN channel, k # 1 PROVE channel[k] \in InChannel'
      BY DEF InChannel, ToSet
    <2>1. channel'[k - 1] = channel[k] /\ k - 1 \in DOMAIN channel'
      BY <1>1, <1>3
    <2> QED
      BY <2>1 DEF InChannel, ToSet
  <1>7. ChannelInOrder'
    <2> SUFFICES ASSUME NEW j \in DOMAIN channel', NEW k \in DOMAIN channel', j < k
                 PROVE  channel'[j] < channel'[k]
      BY DEF ChannelInOrder
    <2>1. j + 1 < k + 1 /\ j + 1 \in DOMAIN channel /\ k + 1 \in DOMAIN channel
      BY <1>1, <1>2
    <2> QED
      BY <1>1, <2>1 DEF ChannelInOrder
  <1>8. Head(channel) \in InChannel
    BY <1>1, <1>2 DEF InChannel, ToSet
  <1> QED
    BY <1>1, <1>5, <1>6, <1>7, <1>8

\* A step that moves no upcall.
LEMMA NothingMoves ==
  ASSUME Placed, UNCHANGED <<upcalls, cb, channel, session, exiting, replies, lost>>
  PROVE  Placed'
  BY DEF Placed, CallbackIsLast, SomePlace, NoTwoPlaces, AnsweredOnce, ChannelInOrder,
         Called, InChannel, InExchange, Replied

\* Failures are counted up to their bound.
LEMMA FaultsCounted ==
  ASSUME faults \in 0 .. MaxFaults, NoFault \/ \E name \in FaultNames : Fault(name)
  PROVE  faults' \in 0 .. MaxFaults
  BY UpcallBoundsAssumption DEF NoFault, Fault

\* The steps of px_init and px_task_init.
LEMMA InitUpcalls ==
  ASSUME Upcalls,
         \/ interthread_create
         \/ \E t \in Early : create(t)
         \/ PMIx_server_init
         \/ notify_register
         \/ notify_create
         \/ register_nspace
         \/ px_task_init
  PROVE  Upcalls'
  <1>0. TypeOK /\ StageCounts /\ Placed
    BY DEF Upcalls
  <1>1. Quiet /\ (NoFault \/ Fault("init"))
    BY DEF interthread_create, create, PMIx_server_init, notify_register, notify_create,
           register_nspace, px_task_init, Advance, InitFails
  <1>2. Placed'
    BY <1>0, <1>1, NothingMoves DEF Quiet
  <1>3. faults' \in 0 .. MaxFaults
    BY <1>0, <1>1, FaultsCounted DEF TypeOK, FaultNames
  <1>4. /\ it' \in BOOLEAN /\ server' \in BOOLEAN /\ registered' \in BOOLEAN
        /\ ctx' \subseteq Topics /\ handlers' \subseteq Topics
    BY <1>0 DEF TypeOK, interthread_create, create, PMIx_server_init, notify_register,
                notify_create, register_nspace, px_task_init, Topics, Early
  <1>5. ~exiting
    BY <1>0 DEF StageCounts, interthread_create, create, PMIx_server_init, notify_register,
                notify_create, register_nspace, px_task_init, Advance, InitFails, Early
  <1>6. CASE px_task_init
    <2>1. clients \in Nat /\ clients < LocalProcs /\ clients + 1 \in 1 .. LocalProcs
      BY <1>0, <1>6, LocalProcsAssumption DEF TypeOK, StageCounts, px_task_init
    <2>2. /\ stage' \in InitStages \cup UpStages \cup DownStages
          /\ clients' \in 0 .. LocalProcs
          /\ StageCounts'
      BY <1>0, <1>1, <1>5, <1>6, <2>1, LocalProcsAssumption
      DEF TypeOK, StageCounts, px_task_init, InitFails, Quiet, InitStages, UpStages, DownStages
    <2> QED
      BY <1>0, <1>1, <1>2, <1>3, <1>4, <2>2 DEF Upcalls, TypeOK, Quiet
  <1>7. CASE ~px_task_init
    <2>1. /\ stage \in InitStages /\ clients' = clients
          /\ \/ stage' = After[stage]
             \/ stage' = "failed"
      BY <1>7 DEF interthread_create, create, PMIx_server_init, notify_register, notify_create,
                  register_nspace, Advance, InitFails, InitStages, Early
    <2>2. stage' \in InitStages \cup {"tasks", "failed"}
      BY <2>1 DEF InitStages, After
    <2>3. /\ stage' \in InitStages \cup UpStages \cup DownStages
          /\ clients' \in 0 .. LocalProcs
          /\ StageCounts'
      BY <1>0, <1>1, <1>5, <2>1, <2>2, LocalProcsAssumption
      DEF TypeOK, StageCounts, Quiet, InitStages, UpStages, DownStages
    <2> QED
      BY <1>0, <1>1, <1>2, <1>3, <1>4, <2>3 DEF Upcalls, TypeOK, Quiet
  <1> QED
    BY <1>6, <1>7

\* The server thread begins and ends a callback.
LEMMA ServerUpcalls ==
  ASSUME Upcalls,
         \/ \E u \in Upcall : server_cb(u)
         \/ interthread_send_pack
         \/ server_cb_fails
  PROVE  Upcalls'
  <1>0. TypeOK /\ StageCounts /\ Placed
    BY DEF Upcalls
  <1>1. /\ UNCHANGED <<it, ctx, handlers, server, registered, clients, session, exiting>>
        /\ stage' \in {stage, "killed"}
    BY DEF server_cb, interthread_send_pack, server_cb_fails, lifecycle
  <1>2. StageCounts'
    BY <1>0, <1>1 DEF StageCounts, InitStages
  <1>3. faults' \in 0 .. MaxFaults
    <2>1. NoFault \/ Fault("send")
      BY DEF server_cb, interthread_send_pack, server_cb_fails, NoFault
    <2> QED
      BY <1>0, <2>1, FaultsCounted DEF TypeOK, FaultNames
  <1>4. Len(upcalls) \in Nat /\ DOMAIN upcalls = 1 .. Len(upcalls)
    BY <1>0 DEF TypeOK
  <1>5. ASSUME NEW u \in Upcall, server_cb(u)
        PROVE  Upcalls'
    <2>1. /\ upcalls' = Append(upcalls, u) /\ cb = Idle
          /\ cb' = [id |-> Len(upcalls) + 1, seen |-> u.topic \in ctx]
          /\ UNCHANGED <<channel, replies, lost, raised, crashed>>
      BY <1>5 DEF server_cb
    <2>2. /\ upcalls' \in Seq(Upcall) /\ Len(upcalls') = Len(upcalls) + 1
          /\ DOMAIN upcalls' = DOMAIN upcalls \cup {Len(upcalls) + 1}
      BY <1>0, <1>4, <2>1 DEF TypeOK
    <2>3. cb' \in [id : Nat, seen : BOOLEAN] /\ cb'.id = Len(upcalls) + 1 /\ cb'.id # 0
      BY <1>4, <2>1
    <2>4. Called = {} /\ Called' = {Len(upcalls) + 1}
      BY <2>1, <2>3 DEF Called, Idle
    <2>5. /\ InChannel' = InChannel /\ InExchange' = InExchange /\ Replied' = Replied
          /\ Len(upcalls) + 1 \notin DOMAIN upcalls
      BY <1>1, <1>4, <2>1 DEF InChannel, InExchange, Replied
    <2>6. Placed'
      BY <1>0, <2>1, <2>2, <2>3, <2>4, <2>5
      DEF Placed, CallbackIsLast, SomePlace, NoTwoPlaces, AnsweredOnce, ChannelInOrder
    <2>7. TypeOK'
      BY <1>0, <1>1, <1>3, <2>1, <2>2, <2>3 DEF TypeOK, DownStages
    <2> QED
      BY <1>2, <2>6, <2>7 DEF Upcalls
  <1>6. ASSUME cb # Idle
        PROVE  /\ Called = {cb.id} /\ cb.id \in Nat /\ cb.id = Len(upcalls)
               /\ cb.id \in DOMAIN upcalls
               /\ cb.id \notin InChannel \cup InExchange \cup Replied \cup lost
               /\ \A i \in InChannel : i < cb.id
    <2>1. cb.id # 0 /\ cb.id = Len(upcalls) /\ Called = {cb.id}
      BY <1>0, <1>6 DEF Placed, CallbackIsLast, Called
    <2>2. cb.id \notin InChannel \cup InExchange \cup Replied \cup lost
      BY <1>0, <2>1 DEF Placed, SomePlace
    <2>3. \A i \in InChannel : i \in DOMAIN upcalls /\ i # cb.id
      BY <1>0, <2>1, <2>2 DEF Placed, SomePlace
    <2> QED
      BY <1>4, <2>1, <2>2, <2>3
  <1>7. ASSUME interthread_send_pack, cb.seen
        PROVE  Upcalls'
    <2>1. /\ cb # Idle /\ cb' = Idle /\ UNCHANGED <<upcalls, replies, lost, raised>>
          /\ channel' = Append(channel, cb.id)
          /\ \/ crashed' = crashed
             \/ crashed' = crashed \cup {"context"}
      BY <1>7 DEF interthread_send_pack, Dangling
    <2>2. \A k \in DOMAIN channel : channel[k] < cb.id
      BY <1>6, <2>1 DEF InChannel, ToSet
    <2>3. channel' \in Seq(Nat) /\ InChannel' = InChannel \cup {cb.id} /\ ChannelInOrder'
      BY <1>0, <1>6, <2>1, <2>2, SendAdds DEF TypeOK, Placed
    <2>4. Called' = {} /\ InExchange' = InExchange /\ Replied' = Replied
      BY <1>1, <2>1 DEF Called, InExchange, Replied, Idle
    <2>5. Placed'
      <3>1. AnsweredOnce' /\ CallbackIsLast'
        BY <1>0, <2>1 DEF Placed, AnsweredOnce, CallbackIsLast
      <3>2. SomePlace'
        BY <1>0, <1>6, <2>1, <2>3, <2>4 DEF Placed, SomePlace
      <3>3. NoTwoPlaces'
        BY <1>0, <1>6, <2>1, <2>3, <2>4 DEF Placed, NoTwoPlaces
      <3> QED
        BY <2>3, <3>1, <3>2, <3>3 DEF Placed
    <2>6. TypeOK'
      BY <1>0, <1>1, <1>3, <2>1, <2>3 DEF TypeOK, DownStages, Idle
    <2> QED
      BY <1>2, <2>5, <2>6 DEF Upcalls
  <1>8. CASE server_cb_fails
    <2>1. /\ cb # Idle /\ cb' = Idle /\ UNCHANGED <<upcalls, channel, raised, crashed>>
          /\ \/ Reply(cb.id, "PMIX_ERROR") /\ lost' = lost
             \/ replies' = replies /\ lost' = lost \cup {cb.id}
      BY <1>8 DEF server_cb_fails
    <2>2. Called' = {} /\ InExchange' = InExchange /\ InChannel' = InChannel /\ ChannelInOrder'
      BY <1>0, <1>1, <2>1 DEF Called, InExchange, InChannel, ChannelInOrder, Placed, Idle
    <2>3. CASE Reply(cb.id, "PMIX_ERROR") /\ lost' = lost
      <3>1. /\ replies' \in Seq([id : Nat, status : Statuses])
            /\ Replied' = Replied \cup {cb.id} /\ AnsweredOnce'
        BY <1>0, <1>6, <2>1, <2>3, ReplyAdds DEF TypeOK, Placed, Statuses
      <3>2. Placed'
        BY <1>0, <1>6, <2>1, <2>2, <2>3, <3>1
        DEF Placed, CallbackIsLast, SomePlace, NoTwoPlaces
      <3>3. TypeOK'
        BY <1>0, <1>1, <1>3, <2>1, <2>3, <3>1 DEF TypeOK, DownStages, Idle
      <3> QED
        BY <1>2, <3>2, <3>3 DEF Upcalls
    <2>4. CASE replies' = replies /\ lost' = lost \cup {cb.id}
      <3>1. Replied' = Replied /\ AnsweredOnce'
        BY <1>0, <2>4 DEF Replied, AnsweredOnce, Placed
      <3>2. Placed'
        BY <1>0, <1>6, <2>1, <2>2, <2>4, <3>1
        DEF Placed, CallbackIsLast, SomePlace, NoTwoPlaces
      <3>3. TypeOK'
        BY <1>0, <1>1, <1>3, <1>6, <2>1, <2>4 DEF TypeOK, DownStages, Idle
      <3> QED
        BY <1>2, <3>2, <3>3 DEF Upcalls
    <2> QED
      BY <2>1, <2>3, <2>4
  <1>9. ASSUME interthread_send_pack, ~cb.seen
        PROVE  Upcalls'
    <2>1. /\ UNCHANGED <<upcalls, cb, channel, session, exiting, replies, lost, raised>>
          /\ crashed' = crashed \cup {"null"}
      BY <1>9 DEF interthread_send_pack
    <2>2. Placed'
      BY <1>0, <2>1, NothingMoves
    <2>3. TypeOK'
      BY <1>0, <1>1, <1>3, <2>1 DEF TypeOK, DownStages
    <2> QED
      BY <1>2, <2>2, <2>3 DEF Upcalls
  <1> QED
    BY <1>5, <1>7, <1>8, <1>9

\* The handlers of one message: it enters the exchange, it is answered, or it is
\* dropped.
Enters(id) == /\ session = 0
              /\ session' = id
              /\ UNCHANGED <<replies, lost, raised>>

Handled(id) == \/ Enters(id) /\ upcalls[id].topic = "fence"
               \/ /\ \E status \in Statuses : Reply(id, status)
                  /\ UNCHANGED <<session, lost>>
                  /\ raised' \in {raised, raised \cup {id}}
               \/ Dropped(id)

\* Every handler does one of the three to the message it is given.
LEMMA RecvHandles ==
  ASSUME interthread_recv
  PROVE  /\ Handled(Head(channel))
         /\ crashed' \in {crashed, crashed \cup {"context"}, crashed \cup {"pointer"}}
         /\ NoFault \/ \E name \in FaultNames : Fault(name)
  <1> DEFINE id == Head(channel)
  <1> HIDE DEF id
  <1>1. CASE Dispatch(id)
    <2>1. crashed' \in {crashed, crashed \cup {"context"}, crashed \cup {"pointer"}}
      BY <1>1 DEF Dispatch, Dangling
    <2>2. CASE upcalls[id].topic = "fence" /\ fence_shell_cb(id, upcalls[id].kind)
      <3>1. NoFault \/ Fault("decode") \/ Fault("enter")
        BY <2>2 DEF fence_shell_cb
      <3>2. Handled(id)
        BY <2>2 DEF fence_shell_cb, Handled, Enters, Dropped, Answered, Statuses
      <3> QED
        BY <2>1, <3>1, <3>2 DEF FaultNames, id
    <2>3. CASE abort_shell_cb(id)
      <3>1. NoFault \/ Fault("abort_decode")
        BY <2>3 DEF abort_shell_cb
      <3>2. Handled(id)
        BY <2>3 DEF abort_shell_cb, Handled, Dropped, Statuses
      <3> QED
        BY <2>1, <3>1, <3>2 DEF FaultNames, id
    <2>4. CASE dmodex_shell_cb(id, upcalls[id].kind)
      <3>1. NoFault \/ Fault("decode")
        BY <2>4 DEF dmodex_shell_cb
      <3>2. Handled(id)
        BY <2>4 DEF dmodex_shell_cb, Handled, Dropped, Answered, Statuses
      <3> QED
        BY <2>1, <3>1, <3>2 DEF FaultNames, id
    <2>5. CASE notify_shell_cb(id)
      <3>1. (NoFault \/ Fault("decode")) /\ Handled(id)
        BY <2>5 DEF notify_shell_cb, Handled
      <3> QED
        BY <2>1, <3>1 DEF FaultNames, id
    <2> QED
      BY <1>1, <2>2, <2>3, <2>4, <2>5 DEF Dispatch
  <1>2. CASE Fault("recv") /\ Dropped(id) /\ UNCHANGED crashed
    BY <1>2 DEF Handled, FaultNames, id
  <1> QED
    BY <1>1, <1>2 DEF interthread_recv, id

\* The reactor thread receives a message.
LEMMA RecvUpcalls ==
  ASSUME Upcalls, interthread_recv
  PROVE  Upcalls'
  <1> DEFINE id == Head(channel)
  <1> HIDE DEF id
  <1>0. TypeOK /\ StageCounts /\ Placed
    BY DEF Upcalls
  <1>1. /\ UNCHANGED lifecycle /\ UNCHANGED <<upcalls, cb, exiting>>
        /\ ~exiting /\ channel # <<>> /\ channel' = Tail(channel)
    BY DEF interthread_recv
  <1>2. StageCounts'
    BY <1>0, <1>1 DEF StageCounts, lifecycle
  <1>3. /\ Handled(id)
        /\ crashed' \in {crashed, crashed \cup {"context"}, crashed \cup {"pointer"}}
        /\ NoFault \/ \E name \in FaultNames : Fault(name)
    BY RecvHandles DEF id
  <1>4. faults' \in 0 .. MaxFaults
    BY <1>0, <1>3, FaultsCounted DEF TypeOK
  <1>5. /\ channel' \in Seq(Nat) /\ id \in InChannel
        /\ InChannel' = InChannel \ {id} /\ ChannelInOrder'
    BY <1>0, <1>1, ReceiveTakes DEF TypeOK, Placed, id
  <1>6. id \in DOMAIN upcalls /\ id \notin InExchange \cup Replied \cup lost
    BY <1>0, <1>5 DEF Placed, SomePlace, NoTwoPlaces
  <1>7. id \in Nat /\ id # 0
    BY <1>0, <1>6 DEF TypeOK
  <1>8. Called' = Called /\ CallbackIsLast'
    BY <1>0, <1>1 DEF Called, CallbackIsLast, Placed
  <1>9. InExchange = {session} \ {0} /\ InExchange' = {session'} \ {0}
    BY <1>1 DEF InExchange
  <1>10. CASE Enters(id)
    <2>1. /\ InExchange = {} /\ InExchange' = {id} /\ Replied' = Replied /\ AnsweredOnce'
          /\ lost' = lost
      BY <1>0, <1>7, <1>9, <1>10 DEF Enters, Replied, AnsweredOnce, Placed
    <2>2. SomePlace' /\ NoTwoPlaces'
      BY <1>0, <1>1, <1>5, <1>6, <1>8, <2>1 DEF Placed, SomePlace, NoTwoPlaces
    <2>3. TypeOK'
      BY <1>0, <1>1, <1>3, <1>4, <1>5, <1>7, <1>10 DEF TypeOK, lifecycle, Enters
    <2> QED
      BY <1>2, <1>5, <1>8, <2>1, <2>2, <2>3 DEF Upcalls, Placed
  <1>11. ASSUME NEW status \in Statuses, Reply(id, status), UNCHANGED <<session, lost>>,
                raised' \in {raised, raised \cup {id}}
         PROVE  Upcalls'
    <2>1. /\ replies' \in Seq([id : Nat, status : Statuses])
          /\ Replied' = Replied \cup {id} /\ AnsweredOnce'
      BY <1>0, <1>6, <1>7, <1>11, ReplyAdds DEF TypeOK, Placed
    <2>2. SomePlace' /\ NoTwoPlaces'
      BY <1>0, <1>1, <1>5, <1>6, <1>8, <1>9, <1>11, <2>1 DEF Placed, SomePlace, NoTwoPlaces
    <2>3. TypeOK'
      BY <1>0, <1>1, <1>3, <1>4, <1>5, <1>7, <1>11, <2>1 DEF TypeOK, lifecycle
    <2> QED
      BY <1>2, <1>5, <1>8, <2>1, <2>2, <2>3 DEF Upcalls, Placed
  <1>12. CASE Dropped(id)
    <2>1. /\ InExchange' = InExchange /\ Replied' = Replied /\ AnsweredOnce'
          /\ lost' = lost \cup {id}
      BY <1>0, <1>9, <1>12 DEF Dropped, Replied, AnsweredOnce, Placed
    <2>2. SomePlace' /\ NoTwoPlaces'
      BY <1>0, <1>1, <1>5, <1>6, <1>8, <2>1 DEF Placed, SomePlace, NoTwoPlaces
    <2>3. TypeOK'
      BY <1>0, <1>1, <1>3, <1>4, <1>5, <1>7, <1>12 DEF TypeOK, lifecycle, Dropped
    <2> QED
      BY <1>2, <1>5, <1>8, <2>1, <2>2, <2>3 DEF Upcalls, Placed
  <1> QED
    BY <1>3, <1>10, <1>11, <1>12 DEF Handled

\* A fence leaves the exchange: cbfunc first, the session after it.
LEMMA ExitUpcalls ==
  ASSUME Upcalls, exchange \/ session_destroy
  PROVE  Upcalls'
  <1>0. TypeOK /\ StageCounts /\ Placed
    BY DEF Upcalls
  <1>1. UNCHANGED lifecycle /\ UNCHANGED <<upcalls, cb, channel, lost, raised, crashed, faults>>
    BY DEF exchange, exchange_exit_cb, session_destroy
  <1>2. /\ Called' = Called /\ InChannel' = InChannel /\ ChannelInOrder' /\ CallbackIsLast'
    BY <1>0, <1>1 DEF Called, InChannel, ChannelInOrder, CallbackIsLast, Placed
  <1>3. ASSUME NEW status \in {"PMIX_SUCCESS", "PMIX_ERROR"}, exchange_exit_cb(status)
        PROVE  Upcalls'
    <2>1. /\ stage = "running" /\ session # 0 /\ ~exiting /\ exiting' = TRUE
          /\ session' = session /\ Reply(session, status) /\ status \in Statuses
      BY <1>3 DEF exchange_exit_cb, Statuses
    <2>2. InExchange = {session} /\ InExchange' = {} /\ session \in Nat
      BY <1>0, <2>1 DEF InExchange, TypeOK
    <2>3. session \notin Replied
      BY <1>0, <2>2 DEF Placed, NoTwoPlaces
    <2>4. /\ replies' \in Seq([id : Nat, status : Statuses])
          /\ Replied' = Replied \cup {session} /\ AnsweredOnce'
      BY <1>0, <2>1, <2>2, <2>3, ReplyAdds DEF TypeOK, Placed
    <2>5. SomePlace' /\ NoTwoPlaces'
      BY <1>0, <1>1, <1>2, <2>2, <2>4 DEF Placed, SomePlace, NoTwoPlaces
    <2>6. TypeOK' /\ StageCounts'
      BY <1>0, <1>1, <2>1, <2>4 DEF TypeOK, StageCounts, lifecycle
    <2> QED
      BY <1>2, <2>4, <2>5, <2>6 DEF Upcalls, Placed
  <1>4. CASE session_destroy
    <2>1. exiting /\ exiting' = FALSE /\ session' = 0 /\ UNCHANGED replies
      BY <1>4 DEF session_destroy
    <2>2. InExchange = {} /\ InExchange' = {} /\ Replied' = Replied /\ AnsweredOnce'
      BY <1>0, <2>1 DEF InExchange, Replied, AnsweredOnce, Placed
    <2>3. SomePlace' /\ NoTwoPlaces'
      BY <1>0, <1>1, <1>2, <2>2 DEF Placed, SomePlace, NoTwoPlaces
    <2>4. TypeOK' /\ StageCounts'
      BY <1>0, <1>1, <2>1 DEF TypeOK, StageCounts, lifecycle
    <2> QED
      BY <1>2, <2>2, <2>3, <2>4 DEF Upcalls, Placed
  <1> QED
    BY <1>3, <1>4 DEF exchange

\* The steps of px_destroy, the last of which drops what is under way.
LEMMA DestroyUpcalls ==
  ASSUME Upcalls,
         \/ px_destroy
         \/ notify_deregister
         \/ notify_destroy
         \/ PMIx_server_finalize
         \/ destroy
  PROVE  Upcalls'
  <1>0. TypeOK /\ StageCounts /\ Placed
    BY DEF Upcalls
  <1>1. /\ UNCHANGED <<clients, upcalls, cb, exiting, replies, raised, crashed, faults>>
        /\ ~exiting
        /\ stage' \in {"destroy", "deregistered", "finalize", "free", "gone"}
    BY <1>0 DEF px_destroy, notify_deregister, notify_destroy, PMIx_server_finalize, destroy,
                Quiet, StageCounts
  <1>2. StageCounts'
    BY <1>1 DEF StageCounts, InitStages
  <1>3. /\ it' \in BOOLEAN /\ server' \in BOOLEAN /\ registered' \in BOOLEAN
        /\ ctx' \subseteq Topics /\ handlers' \subseteq Topics
    BY <1>0 DEF TypeOK, px_destroy, notify_deregister, notify_destroy, PMIx_server_finalize,
                destroy
  <1>4. CASE ~destroy
    <2>1. UNCHANGED <<channel, session, lost>>
      BY <1>4 DEF px_destroy, notify_deregister, notify_destroy, PMIx_server_finalize, Quiet
    <2>2. Placed'
      BY <1>0, <1>1, <2>1, NothingMoves
    <2>3. TypeOK'
      BY <1>0, <1>1, <1>3, <2>1 DEF TypeOK, DownStages
    <2> QED
      BY <1>2, <2>2, <2>3 DEF Upcalls
  <1>5. CASE destroy
    <2>1. /\ channel' = <<>> /\ session' = 0
          /\ lost' = lost \cup InChannel \cup ({session} \ {0})
      BY <1>5 DEF destroy, InChannel
    <2>2. /\ InChannel' = {} /\ ChannelInOrder'
          /\ InExchange = {session} \ {0} /\ InExchange' = {}
      BY <1>1, <2>1 DEF InChannel, ToSet, ChannelInOrder, InExchange
    <2>3. /\ Called' = Called /\ Replied' = Replied /\ AnsweredOnce' /\ CallbackIsLast'
      BY <1>0, <1>1 DEF Called, Replied, AnsweredOnce, CallbackIsLast, Placed
    <2>4. SomePlace' /\ NoTwoPlaces'
      BY <1>0, <1>1, <2>1, <2>2, <2>3 DEF Placed, SomePlace, NoTwoPlaces
    <2>5. lost' \subseteq Nat
      <3>1. lost \subseteq Nat /\ session \in Nat /\ \A k \in DOMAIN channel : channel[k] \in Nat
        BY <1>0 DEF TypeOK
      <3>2. InChannel \subseteq Nat
        BY <3>1 DEF InChannel, ToSet
      <3> QED
        BY <2>1, <3>1, <3>2
    <2>6. TypeOK'
      BY <1>0, <1>1, <1>3, <2>1, <2>5 DEF TypeOK, DownStages
    <2> QED
      BY <1>2, <2>2, <2>3, <2>4, <2>6 DEF Upcalls, Placed
  <1> QED
    BY <1>4, <1>5

-----------------------------------------------------------------------------
\* The invariant holds when px_init begins.
LEMMA UpcallsInit == Init => Upcalls
  <1> SUFFICES ASSUME Init PROVE Upcalls
    OBVIOUS
  <1>1. /\ 0 \in 0 .. LocalProcs /\ 0 \in 0 .. MaxFaults
        /\ Idle \in [id : Nat, seen : BOOLEAN]
    BY LocalProcsAssumption, UpcallBoundsAssumption DEF Idle
  <1>2. upcalls \in Seq(Upcall) /\ channel \in Seq(Nat)
        /\ replies \in Seq([id : Nat, status : Statuses])
    BY DEF Init
  <1>3. TypeOK /\ StageCounts
    BY <1>1, <1>2 DEF Init, TypeOK, StageCounts, InitStages
  <1>4. /\ Called = {} /\ InChannel = {} /\ InExchange = {} /\ Replied = {} /\ lost = {}
        /\ DOMAIN upcalls = {}
    BY DEF Init, Called, InChannel, ToSet, InExchange, Replied, Idle
  <1>5. Placed
    BY <1>4 DEF Init, Placed, CallbackIsLast, SomePlace, NoTwoPlaces, AnsweredOnce,
                ChannelInOrder, Idle
  <1> QED
    BY <1>3, <1>5 DEF Upcalls

\* Every step keeps the invariant.
LEMMA UpcallsNext ==
  ASSUME Upcalls, [Next]_vars
  PROVE  Upcalls'
  <1>1. CASE ShellThread
    BY <1>1, InitUpcalls, RecvUpcalls, ExitUpcalls, DestroyUpcalls
    DEF ShellThread, Early, fence_create, abort_create, dmodex_create
  <1>2. CASE exchange
    BY <1>2, ExitUpcalls
  <1>3. CASE fence_server_cb \/ abort_server_cb \/ dmodex_server_cb \/ notify_server_cb
    BY <1>3, CallsAreUpcalls, ServerUpcalls
  <1>4. CASE ServerThread
    BY <1>4, ServerUpcalls DEF ServerThread
  <1>5. CASE px_destroy
    BY <1>5, DestroyUpcalls
  <1>6. CASE UNCHANGED vars
    <2>1. Placed'
      BY <1>6, NothingMoves DEF vars, Upcalls
    <2>2. TypeOK' /\ StageCounts'
      BY <1>6 DEF vars, Upcalls, TypeOK, StageCounts
    <2> QED
      BY <2>1, <2>2 DEF Upcalls
  <1> QED
    BY <1>1, <1>2, <1>3, <1>4, <1>5, <1>6 DEF Next

\* The state of the plugin stays within its types: no more tasks are registered
\* than there are, and no answer has a status that the code does not give.
THEOREM TypeCorrect == Spec => []TypeOK
  <1>1. Upcalls /\ [Next]_vars => Upcalls'
    BY UpcallsNext
  <1>2. Upcalls => TypeOK
    BY DEF Upcalls
  <1> QED
    BY <1>1, <1>2, UpcallsInit, PTL DEF Spec

\* What the parts of Placed say of one upcall.
LEMMA PlacedOnce == Upcalls => OnePlace
  <1> SUFFICES ASSUME Upcalls, NEW i \in DOMAIN upcalls
               PROVE  LET places == {<<"cb", 0>> : x \in {cb.id} \cap {i}}
                        \cup {<<"channel", j>> : j \in {k \in DOMAIN channel : channel[k] = i}}
                        \cup {<<"exchange", 0>> : x \in {IF exiting THEN 0 ELSE session} \cap {i}}
                        \cup {<<"reply", j>> : j \in {k \in DOMAIN replies : replies[k].id = i}}
                        \cup {<<"lost", 0>> : x \in lost \cap {i}}
                      IN  Cardinality(places) = 1
    BY DEF OnePlace
  <1> DEFINE A == {<<"cb", 0>> : x \in {cb.id} \cap {i}}
             B == {<<"channel", j>> : j \in {k \in DOMAIN channel : channel[k] = i}}
             C == {<<"exchange", 0>> : x \in {IF exiting THEN 0 ELSE session} \cap {i}}
             D == {<<"reply", j>> : j \in {k \in DOMAIN replies : replies[k].id = i}}
             E == {<<"lost", 0>> : x \in lost \cap {i}}
  <1>0. /\ TypeOK /\ CallbackIsLast /\ SomePlace /\ NoTwoPlaces /\ AnsweredOnce
        /\ ChannelInOrder
    BY DEF Upcalls, Placed
  <1>1. i \in Nat /\ i # 0
    BY <1>0 DEF TypeOK
  <1>2. A = IF i \in Called THEN {<<"cb", 0>>} ELSE {}
    BY <1>1 DEF Called
  <1>3. /\ i \in InChannel => \E j : B = {<<"channel", j>>}
        /\ i \notin InChannel => B = {}
    <2>1. ASSUME NEW j \in DOMAIN channel, NEW k \in DOMAIN channel, channel[j] = channel[k]
          PROVE  j = k
      <3>1. j \in Nat /\ k \in Nat /\ channel[j] \in Nat
        BY <1>0 DEF TypeOK
      <3> QED
        BY <1>0, <2>1, <3>1 DEF ChannelInOrder
    <2>2. ASSUME NEW j \in DOMAIN channel, channel[j] = i
          PROVE  B = {<<"channel", j>>}
      <3>1. {k \in DOMAIN channel : channel[k] = i} = {j}
        BY <2>1, <2>2
      <3> QED
        BY <3>1
    <2>3. i \in InChannel <=> \E j \in DOMAIN channel : channel[j] = i
      BY DEF InChannel, ToSet
    <2> QED
      BY <2>2, <2>3
  <1>4. C = IF i \in InExchange THEN {<<"exchange", 0>>} ELSE {}
    BY <1>1 DEF InExchange
  <1>5. /\ i \in Replied => \E j : D = {<<"reply", j>>}
        /\ i \notin Replied => D = {}
    <2>1. ASSUME NEW j \in DOMAIN replies, replies[j].id = i
          PROVE  D = {<<"reply", j>>}
      <3>1. {k \in DOMAIN replies : replies[k].id = i} = {j}
        BY <1>0, <2>1 DEF AnsweredOnce
      <3> QED
        BY <3>1
    <2>2. i \in Replied <=> \E j \in DOMAIN replies : replies[j].id = i
      BY DEF Replied
    <2> QED
      BY <2>1, <2>2
  <1>6. E = IF i \in lost THEN {<<"lost", 0>>} ELSE {}
    OBVIOUS
  <1> HIDE DEF A, B, C, D, E
  <1>7. \E p : A \cup B \cup C \cup D \cup E = {p}
    <2>1. CASE i \in Called
      <3>1. i \notin InChannel \cup InExchange \cup Replied \cup lost
        BY <1>0, <2>1 DEF SomePlace
      <3> QED
        BY <1>2, <1>3, <1>4, <1>5, <1>6, <2>1, <3>1
    <2>2. CASE i \notin Called
      <3>1. i \in InChannel \cup InExchange \cup Replied \cup lost
        BY <1>0, <2>2 DEF SomePlace
      <3>2. CASE i \in InChannel
        <4>1. i \notin InExchange /\ i \notin Replied /\ i \notin lost
          BY <1>0, <3>2 DEF NoTwoPlaces
        <4> QED
          BY <1>2, <1>3, <1>4, <1>5, <1>6, <2>2, <3>2, <4>1
      <3>3. CASE i \in InExchange
        <4>1. i \notin InChannel /\ i \notin Replied /\ i \notin lost
          BY <1>0, <3>3 DEF NoTwoPlaces
        <4> QED
          BY <1>2, <1>3, <1>4, <1>5, <1>6, <2>2, <3>3, <4>1
      <3>4. CASE i \in Replied
        <4>1. i \notin InChannel /\ i \notin InExchange /\ i \notin lost
          BY <1>0, <3>4 DEF NoTwoPlaces
        <4> QED
          BY <1>2, <1>3, <1>4, <1>5, <1>6, <2>2, <3>4, <4>1
      <3>5. CASE i \in lost
        <4>1. i \notin InChannel /\ i \notin InExchange /\ i \notin Replied
          BY <1>0, <3>5 DEF NoTwoPlaces
        <4> QED
          BY <1>2, <1>3, <1>4, <1>5, <1>6, <2>2, <3>5, <4>1
      <3> QED
        BY <3>1, <3>2, <3>3, <3>4, <3>5
    <2> QED
      BY <2>1, <2>2
  <1>8. Cardinality(A \cup B \cup C \cup D \cup E) = 1
    BY <1>7, FS_Singleton
  <1> QED
    BY <1>8 DEF A, B, C, D, E

\* However many upcalls there are, which steps fail, and when the shell ends,
\* every upcall is in one place: none is forgotten and none is answered twice.
THEOREM UpcallsInOnePlace == Spec => []OnePlace
  <1>1. Upcalls /\ [Next]_vars => Upcalls'
    BY UpcallsNext
  <1> QED
    BY <1>1, UpcallsInit, PlacedOnce, PTL DEF Spec

\* A fence that reaches the exchange finds it free, or in use by a fence that
\* the server still waits for: the session of one that was answered is gone
\* before the next message is received.
THEOREM FencesFindExchange == Spec => []ExchangeFree
  <1>1. Upcalls /\ [Next]_vars => Upcalls'
    BY UpcallsNext
  <1>2. Upcalls => ExchangeFree
    <2> SUFFICES ASSUME Upcalls, ~exiting PROVE session \notin Replied
      BY DEF ExchangeFree
    <2>1. TypeOK /\ SomePlace /\ NoTwoPlaces
      BY DEF Upcalls, Placed
    <2>2. CASE session = 0
      <3>1. 0 \notin DOMAIN upcalls
        BY <2>1 DEF TypeOK
      <3> QED
        BY <2>1, <2>2, <3>1 DEF SomePlace
    <2>3. CASE session # 0
      BY <2>1, <2>3 DEF InExchange, NoTwoPlaces
    <2> QED
      BY <2>2, <2>3
  <1> QED
    BY <1>1, <1>2, UpcallsInit, PTL DEF Spec

\* Only a fence that is received enters the exchange.
LEMMA EntersOnReceipt ==
  ASSUME [Next]_vars, session' # session, session' # 0
  PROVE  interthread_recv
  <1>1. ~(UNCHANGED vars)
    BY DEF vars
  <1>2. ~(exchange \/ ServerThread \/ fence_server_cb \/ abort_server_cb \/ dmodex_server_cb
           \/ notify_server_cb \/ px_destroy)
    BY DEF exchange, exchange_exit_cb, ServerThread, interthread_send_pack, server_cb_fails,
           fence_server_cb, abort_server_cb, dmodex_server_cb, notify_server_cb, server_cb,
           px_destroy, Quiet
  <1>3. ShellThread
    BY <1>1, <1>2 DEF Next
  <1> QED
    BY <1>3 DEF ShellThread, interthread_create, fence_create, abort_create, dmodex_create, create,
                PMIx_server_init, notify_register, notify_create, register_nspace, px_task_init,
                session_destroy, notify_deregister, notify_destroy, PMIx_server_finalize,
                destroy, Quiet

\* Fences enter the exchange in the order of the server's calls, whatever comes
\* between them on the channel and whichever of them fail.
THEOREM FencesEnterInOrder == Spec => FencesInOrder
  <1>1. Upcalls /\ [Next]_vars => Upcalls'
    BY UpcallsNext
  <1>2. ASSUME Upcalls, Upcalls', [Next]_vars, session' # session, session' # 0,
               NEW i \in OpenFences'
        PROVE  session' <= i
    <2>1. interthread_recv
      BY <1>2, EntersOnReceipt
    <2>2. ~exiting /\ exiting' = exiting /\ channel # <<>> /\ channel' = Tail(channel)
          /\ cb' = cb /\ upcalls' = upcalls
      BY <2>1 DEF interthread_recv
    <2>3. Handled(Head(channel))
      BY <2>1, RecvHandles
    <2>4. session' = Head(channel)
      BY <1>2, <2>3 DEF Handled, Enters, Dropped
    <2>5. /\ TypeOK /\ CallbackIsLast /\ SomePlace /\ ChannelInOrder
          /\ SomePlace' /\ CallbackIsLast'
      BY <1>2 DEF Upcalls, Placed
    <2>6. /\ Head(channel) \in InChannel
          /\ \A j \in InChannel' : Head(channel) < j
      BY <2>2, <2>5, ReceiveTakes DEF TypeOK
    <2>7. /\ i \in DOMAIN upcalls' /\ i \notin Replied' \cup lost'
          /\ DOMAIN upcalls = 1 .. Len(upcalls) /\ Len(upcalls) \in Nat
          /\ i \in Nat /\ Head(channel) \in DOMAIN upcalls
      BY <2>2, <2>5, <2>6 DEF OpenFences, TypeOK, SomePlace
    <2>8. i \in Called' \/ i \in InChannel' \/ i \in InExchange'
      BY <2>5, <2>7 DEF SomePlace
    <2>9. CASE i \in Called'
      <3>1. cb # Idle /\ i = Len(upcalls)
        BY <2>2, <2>5, <2>9 DEF Called, CallbackIsLast, Idle
      <3> QED
        BY <2>4, <2>7, <3>1
    <2>10. CASE i \in InChannel'
      BY <2>4, <2>6, <2>7, <2>10
    <2>11. CASE i \in InExchange'
      BY <2>2, <2>4, <2>7, <2>11 DEF InExchange
    <2> QED
      BY <2>8, <2>9, <2>10, <2>11
  <1>3. Upcalls /\ Upcalls' /\ [Next]_vars
          => [session' # session /\ session' # 0 => \A i \in OpenFences' : session' <= i]_vars
    BY <1>2
  <1> QED
    BY <1>1, <1>3, UpcallsInit, PTL DEF Spec, FencesInOrder


=============================================================================
