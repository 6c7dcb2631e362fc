------------------------------- MODULE Modex --------------------------------
(***************************************************************************)
(* The whole way of a business card: clients put values and call fences,   *)
(* the PMIx server of each shell makes one upcall for its clients, fence.c *)
(* checks it and enters the exchange, and the result is stored by every    *)
(* server, from which the clients get each other's values; what is missing *)
(* there goes to dmodex.c.  The exchange is the abstract one of AllGather, *)
(* which module Exchange is shown to implement.  Clients and servers are   *)
(* external and modelled from how the plugin and the tests use them.       *)
(***************************************************************************)
EXTENDS Clients, Taskmap

CONSTANTS map,          \* the task map
          Programs,     \* the programs that the tasks may run
          Environ,      \* names in the environment in which a task starts
          MaxErrors     \* bound: calls of all kinds that fail

Tasks == DOMAIN map
Shells == Range(map)
Local(s) == {t \in Tasks : map[t] = s}

\* The fences of a job with one shell never leave its server.
ASSUME ModexAssumption == MaxErrors \in Nat /\ Cardinality(Shells) > 1

HasServer(names) == \E uri \in {"SERVER_URI", "SERVER_URI2"} : <<"PMIX_", uri>> \in names

\* px_task_init has put the PMIx variables into the environment of the tasks.
ASSUME EnvironAssumption == HasServer(Environ)

VARIABLES program,      \* the calls of each task
          pc, status,   \* of each task: next call; running, failed, killed or done
          env,          \* names in a task's environment
          walk,         \* what is left of the copy of it that unsetenv_glob goes over
          puts,         \* number of values put by each task: the latest value
          committed,    \* the value its server has of each task, 0 if none
          inside,       \* whether the task is in a fence
          fences,       \* fences a task has called
          passed,       \* fences a task has been released from with success
          got,          \* values a task has got: of whom, after how many fences
          upcall,       \* fence upcall of each shell that waits for fence_shell_cb
          dropped,      \* shells that have dropped an upcall without an answer
          blob,         \* what each call of a shell contributes
          store,        \* values of other shells' tasks that a server has
          errors,       \* calls failed so far
          exception,    \* the job got an exception
          calls, answers, gathers       \* of the exchange

taskVars == <<pc, status, env, walk, puts, committed, inside, fences, passed, got>>
exchangeVars == <<calls, answers, gathers, blob>>
serverVars == <<program, upcall, dropped, store, exchangeVars>>
vars == <<taskVars, serverVars, exception, errors>>

AG == INSTANCE AllGather WITH Ranks <- Shells, Collect <- BOOLEAN,
                              calls <- calls, answers <- answers, gathers <- gathers

Init == /\ program \in Programs
        /\ pc = [t \in Tasks |-> 1]
        /\ status = [t \in Tasks |-> "running"]
        /\ env = [t \in Tasks |-> Environ]
        /\ walk = [t \in Tasks |-> <<>>]
        /\ puts = [t \in Tasks |-> 0]
        /\ committed = [t \in Tasks |-> 0]
        /\ inside = [t \in Tasks |-> FALSE]
        /\ fences = [t \in Tasks |-> 0]
        /\ passed = [t \in Tasks |-> 0]
        /\ got = [t \in Tasks |-> {}]
        /\ upcall = [s \in Shells |-> <<>>]
        /\ dropped = {}
        /\ blob = [s \in Shells |-> <<>>]
        /\ store = [s \in Shells |-> [t \in Tasks |-> 0]]
        /\ errors = 0
        /\ exception = FALSE
        /\ AG!Init

-----------------------------------------------------------------------------
At(t, op) == /\ status[t] = "running"
             /\ ~inside[t]
             /\ pc[t] \in DOMAIN program[t]
             /\ program[t][pc[t]].op = op

ThisCall(t) == program[t][pc[t]]

\* The call of task t returns.
Returns(t) == pc' = [pc EXCEPT ![t] = @ + 1] /\ UNCHANGED status
Fails(t) == status' = [status EXCEPT ![t] = "failed"] /\ UNCHANGED pc

\* One of the at most MaxErrors failures.
Fault == errors < MaxErrors /\ errors' = errors + 1

TaskPreinit(t) ==
    /\ At(t, "preinit")
    /\ IF HasServer(env[t]) THEN Returns(t) ELSE Fails(t)
    /\ UNCHANGED <<env, walk, puts, committed, inside, fences, passed, got,
                   serverVars, exception, errors>>

\* Calls that change nothing here; the namespace is registered before any task
\* starts, so that its attributes are there.
TaskCall(t) ==
    /\ \E op \in {"PMIx_Init", "PMIx_Get info", "PMIx_Notify_event", "PMIx_Finalize"} : At(t, op)
    /\ Returns(t)
    /\ UNCHANGED <<env, walk, puts, committed, inside, fences, passed, got,
                   serverVars, exception, errors>>

\* Any call of the library may fail, which ends the program.
TaskFails(t) ==
    /\ \E op \in {"PMIx_Init", "PMIx_Get info", "PMIx_Put", "PMIx_Commit", "PMIx_Get",
                  "PMIx_Notify_event", "PMIx_Abort", "PMIx_Finalize"} : At(t, op)
    /\ Fails(t) /\ Fault
    /\ UNCHANGED <<env, walk, puts, committed, inside, fences, passed, got,
                   serverVars, exception>>

TaskPut(t) ==
    /\ At(t, "PMIx_Put")
    /\ puts' = [puts EXCEPT ![t] = @ + 1]
    /\ Returns(t)
    /\ UNCHANGED <<env, walk, committed, inside, fences, passed, got,
                   serverVars, exception, errors>>

TaskCommit(t) ==
    /\ At(t, "PMIx_Commit")
    /\ committed' = [committed EXCEPT ![t] = puts[t]]
    /\ Returns(t)
    /\ UNCHANGED <<env, walk, puts, inside, fences, passed, got,
                   serverVars, exception, errors>>

\* unsetenv_glob copies the environment and goes over the copy.
unsetenv_glob(t) ==
    /\ At(t, "unsetenv_glob")
    /\ walk[t] = <<>>
    /\ \/ /\ walk' = [walk EXCEPT ![t] = <<env[t]>>]
          /\ UNCHANGED <<pc, status, errors>>
       \/ Fails(t) /\ Fault /\ UNCHANGED walk
    /\ UNCHANGED <<env, puts, committed, inside, fences, passed, got,
                   serverVars, exception>>

\* Mutant: the walk goes over the environment itself, which moves up when a
\* variable is removed, so that the one behind it is skipped.
unsetenv_glob_entry_live(t) ==
    /\ At(t, "unsetenv_glob") /\ walk[t] # <<>>
    /\ \E n \in walk[t][1], m \in walk[t][1] :
          \/ /\ n[1] = ThisCall(t).pattern
             /\ env' = [env EXCEPT ![t] = @ \ {n}]
             /\ walk' = [walk EXCEPT ![t] = <<@[1] \ {n, m}>>]
             /\ UNCHANGED <<pc, status, errors>>
          \/ /\ n[1] # ThisCall(t).pattern
             /\ walk' = [walk EXCEPT ![t] = <<@[1] \ {n}>>]
             /\ UNCHANGED <<pc, status, env, errors>>
          \/ /\ walk' = [walk EXCEPT ![t] = <<>>]
             /\ Fails(t) /\ Fault
             /\ UNCHANGED env
    /\ UNCHANGED <<puts, committed, inside, fences, passed, got, serverVars, exception>>

\* The next entry is removed if it matches.  An entry that cannot be split,
\* matched or removed ends the walk with an error, and leaves the rest.
unsetenv_glob_entry(t) ==
    /\ At(t, "unsetenv_glob") /\ walk[t] # <<>>
    /\ \E n \in walk[t][1] :
          \/ /\ n[1] = ThisCall(t).pattern
             /\ env' = [env EXCEPT ![t] = @ \ {n}]
             /\ walk' = [walk EXCEPT ![t] = <<@[1] \ {n}>>]
             /\ UNCHANGED <<pc, status, errors>>
          \/ /\ n[1] # ThisCall(t).pattern
             /\ walk' = [walk EXCEPT ![t] = <<@[1] \ {n}>>]
             /\ UNCHANGED <<pc, status, env, errors>>
          \/ /\ walk' = [walk EXCEPT ![t] = <<>>]
             /\ Fails(t) /\ Fault
             /\ UNCHANGED env
    /\ UNCHANGED <<puts, committed, inside, fences, passed, got, serverVars, exception>>

unsetenv_glob_end(t) ==
    /\ At(t, "unsetenv_glob") /\ walk[t] = <<{}>>
    /\ walk' = [walk EXCEPT ![t] = <<>>]
    /\ Returns(t)
    /\ UNCHANGED <<env, puts, committed, inside, fences, passed, got,
                   serverVars, exception, errors>>

\* PMIx_Abort: the upcall raises an exception, which kills the job's tasks.
TaskAbort(t) ==
    /\ At(t, "PMIx_Abort")
    /\ exception' = TRUE
    /\ Returns(t)
    /\ UNCHANGED <<env, walk, puts, committed, inside, fences, passed, got,
                   serverVars, errors>>

Kill(t) ==
    /\ exception
    /\ status[t] = "running"
    /\ status' = [status EXCEPT ![t] = "killed"]
    /\ UNCHANGED <<pc, env, walk, puts, committed, inside, fences, passed, got,
                   serverVars, exception, errors>>

Exit(t) ==
    /\ status[t] = "running" /\ pc[t] > Len(program[t])
    /\ status' = [status EXCEPT ![t] = "done"]
    /\ UNCHANGED <<pc, env, walk, puts, committed, inside, fences, passed, got,
                   serverVars, exception, errors>>

-----------------------------------------------------------------------------
\* What the server of shell s has of task r, 0 if nothing.
Known(s, r) == IF map[r] = s THEN committed[r] ELSE store[s][r]

\* A value of a local task is waited for; one of another shell that is not there
\* is asked for with direct_modex, which answers with an error in any case.
TaskGet(t) ==
    LET r == ThisCall(t).rank
        val == Known(map[t], r)
    IN  /\ At(t, "PMIx_Get")
        /\ \/ /\ val # 0
              /\ got' = [got EXCEPT ![t] = @ \cup {[rank |-> r, val |-> val, fence |-> passed[t]]}]
              /\ Returns(t)
           \/ /\ val = 0 /\ map[r] # map[t]
              /\ Fails(t)
              /\ UNCHANGED got
        /\ UNCHANGED <<env, walk, puts, committed, inside, fences, passed,
                       serverVars, exception, errors>>

TaskFence(t) ==
    /\ At(t, "PMIx_Fence")
    /\ inside' = [inside EXCEPT ![t] = TRUE]
    /\ fences' = [fences EXCEPT ![t] = @ + 1]
    /\ UNCHANGED <<pc, status, env, walk, puts, committed, passed, got,
                   serverVars, exception, errors>>

\* The server releases its tasks from the fence.
Release(s, rc) ==
    /\ inside' = [t \in Tasks |-> inside[t] /\ map[t] # s]
    /\ IF rc = "PMIX_SUCCESS"
       THEN /\ pc' = [t \in Tasks |-> IF map[t] = s /\ inside[t] THEN pc[t] + 1 ELSE pc[t]]
            /\ passed' = [t \in Tasks |-> IF map[t] = s THEN fences[t] ELSE passed[t]]
            /\ UNCHANGED status
       ELSE /\ status' = [t \in Tasks |-> IF map[t] = s /\ inside[t] /\ status[t] = "running"
                                          THEN "failed" ELSE status[t]]
            /\ UNCHANGED <<pc, passed>>
    /\ UNCHANGED <<env, walk, puts, committed, fences, got>>

\* External: when all tasks of a shell are in a fence, its server makes an upcall
\* with the values they have committed, once.  Attributes arrive without their
\* required flag (t/t0003-barrier.t).  If fence_server_cb cannot encode or send the
\* upcall, its error releases the tasks.
ServerFence(s) ==
    LET args == ThisCall(CHOOSE t \in Local(s) : TRUE)
    IN  /\ \A t \in Local(s) : inside[t] /\ status[t] = "running"
        /\ upcall[s] = <<>> /\ s \notin dropped
        /\ Len(calls[s]) = Len(answers[s])
        /\ \/ /\ upcall' = [upcall EXCEPT ![s] =
                     <<[procs |-> args.procs,
                        info |-> [i \in DOMAIN args.info |-> [args.info[i] EXCEPT !.reqd = FALSE]],
                        data |-> [t \in Local(s) |-> committed[t]]]>>]
              /\ UNCHANGED <<taskVars, errors>>
           \/ /\ Release(s, "PMIX_ERROR") /\ Fault
              /\ UNCHANGED upcall
        /\ UNCHANGED <<program, dropped, store, exception, exchangeVars>>

-----------------------------------------------------------------------------
parse_fence_attr(info) ==
    CASE info.key = "pmix.collect" /\ info.type # "PMIX_BOOL" -> "PMIX_ERR_BAD_PARAM"
      [] info.key # "pmix.collect" /\ info.reqd -> "PMIX_ERR_BAD_PARAM"
      [] OTHER -> "PMIX_SUCCESS"

\* The status of an upcall before the exchange is entered.
Checked(call) ==
    IF call.procs # All THEN "PMIX_ERR_NOT_SUPPORTED"
    ELSE LET Bad == {i \in DOMAIN call.info : parse_fence_attr(call.info[i]) # "PMIX_SUCCESS"}
         IN  IF Bad = {} THEN "PMIX_SUCCESS" ELSE parse_fence_attr(call.info[Min(Bad)])

collect(call) == \E i \in DOMAIN call.info : call.info[i].key = "pmix.collect" /\ call.info[i].val = 1

\* The exchange is entered with upcall call of shell s.
Enter(s, call) == /\ calls' = [calls EXCEPT ![s] = Append(@, collect(call))]
                  /\ blob' = [blob EXCEPT ![s] = Append(@, call.data)]


\* Mutant: a refused fence is answered and entered all the same.
fence_shell_cb_both(s) ==
    LET call == upcall[s][1]
    IN  /\ upcall[s] # <<>>
        /\ upcall' = [upcall EXCEPT ![s] = <<>>]
        /\ \/ Checked(call) # "PMIX_SUCCESS" /\ Release(s, Checked(call))
           \/ Checked(call) = "PMIX_SUCCESS" /\ UNCHANGED taskVars
        /\ Enter(s, call)
        /\ UNCHANGED <<program, dropped, store, exception, answers, gathers, errors>>

\* Mutant: the fence is answered when the exchange has been entered.
fence_shell_cb_early(s) ==
    LET call == upcall[s][1]
    IN  /\ upcall[s] # <<>>
        /\ upcall' = [upcall EXCEPT ![s] = <<>>]
        /\ Release(s, Checked(call))
        /\ Enter(s, call)
        /\ UNCHANGED <<program, dropped, store, exception, answers, gathers, errors>>

\* An upcall that cannot be decoded is dropped, and its tasks are not answered.
fence_shell_cb(s) ==
    LET call == upcall[s][1]
        rc == Checked(call)
    IN  /\ upcall[s] # <<>>
        /\ upcall' = [upcall EXCEPT ![s] = <<>>]
        /\ \/ /\ Fault
              /\ dropped' = dropped \cup {s}
              /\ UNCHANGED <<taskVars, calls, blob>>
           \/ /\ rc # "PMIX_SUCCESS"
              /\ Release(s, rc)
              /\ UNCHANGED <<calls, blob, dropped, errors>>
           \/ /\ rc = "PMIX_SUCCESS"
              /\ Enter(s, call)
              /\ UNCHANGED <<taskVars, dropped, errors>>
           \/ /\ rc = "PMIX_SUCCESS"
              /\ Release(s, "PMIX_ERROR") /\ Fault     \* exchange_enter fails
              /\ UNCHANGED <<calls, blob, dropped>>
        /\ UNCHANGED <<program, store, exception, answers, gathers>>

\* The exchange: a gather of one open call of every shell, in any order.
MakeGather ==
    \E n \in [Shells -> UNION {DOMAIN calls[s] : s \in Shells}] :
        LET Shares == {<<s, n[s]>> : s \in {r \in Shells : n[r] \in DOMAIN calls[r] /\ calls[r][n[r]]}}
        IN  /\ \E data \in SetToSeqs(Shares) :
                  LET g == [calls |-> n, data |-> data]
                  IN  AG!Proper(calls, g) /\ gathers' = Append(gathers, g)
            /\ UNCHANGED <<program, taskVars, upcall, dropped, store, exception,
                           calls, answers, blob, errors>>

\* What the blobs of a gather hold.
Contents(g) == [t \in Tasks |-> Max({0} \cup {blob[c[1]][c[2]][t] : c \in {d \in Range(g.data) : d[1] = map[t]}})]

\* The server unpacks the blobs of a result and keeps what it has otherwise.
Stored(s, g) == [t \in Tasks |-> IF Contents(g)[t] # 0 THEN Contents(g)[t] ELSE store[s][t]]

\* The answer to the nth call of shell s.
Answer(s, n, rc, data) ==
    answers' = [answers EXCEPT ![s] = Append(@, [call |-> n, status |-> rc, data |-> data])]

\* Mutant: an exchange that failed is answered like one that had no data.
exchange_exit_cb_unchecked(s) ==
    LET n == Len(answers[s]) + 1
    IN  /\ AG!Open(calls, s, n)
        /\ \/ \E g \in Range(gathers) :
                 /\ g.calls[s] = n
                 /\ Answer(s, n, "PMIX_SUCCESS", g.data)
                 /\ store' = [store EXCEPT ![s] = Stored(s, g)]
                 /\ UNCHANGED errors
           \/ /\ Answer(s, n, "PMIX_SUCCESS", <<>>)
              /\ Fault
              /\ UNCHANGED store
        /\ Release(s, "PMIX_SUCCESS")
        /\ UNCHANGED <<program, upcall, dropped, exception, calls, gathers, blob>>

\* The exchange ends with the result of its gather, or with an error at any time.
exchange_exit_cb(s) ==
    LET n == Len(answers[s]) + 1
    IN  /\ AG!Open(calls, s, n)
        /\ \/ \E g \in Range(gathers) :
                 /\ g.calls[s] = n
                 /\ Answer(s, n, "PMIX_SUCCESS", g.data)
                 /\ store' = [store EXCEPT ![s] = Stored(s, g)]
                 /\ Release(s, "PMIX_SUCCESS")
                 /\ UNCHANGED errors
           \/ /\ Answer(s, n, "PMIX_ERROR", <<>>)
              /\ Release(s, "PMIX_ERROR") /\ Fault
              /\ UNCHANGED store
        /\ UNCHANGED <<program, upcall, dropped, exception, calls, gathers, blob>>

-----------------------------------------------------------------------------
Client(t) == \/ TaskPreinit(t) \/ TaskCall(t) \/ TaskFails(t) \/ TaskPut(t) \/ TaskCommit(t)
             \/ unsetenv_glob(t) \/ unsetenv_glob_entry(t) \/ unsetenv_glob_end(t)
             \/ TaskAbort(t) \/ TaskGet(t) \/ TaskFence(t) \/ Exit(t)

Shell(s) == ServerFence(s) \/ fence_shell_cb(s) \/ exchange_exit_cb(s)

Next == \/ \E t \in Tasks : Client(t) \/ Kill(t)
        \/ \E s \in Shells : Shell(s)
        \/ MakeGather

\* Clients and reactors run, the exchange ends, and an exception kills; no call
\* is bound to fail.
Spec == /\ Init /\ [][Next]_vars
        /\ \A t \in Tasks : WF_vars(Client(t) /\ errors' = errors) /\ WF_vars(Kill(t))
        /\ \A s \in Shells : WF_vars(Shell(s) /\ errors' = errors)
        /\ WF_vars(MakeGather)

-----------------------------------------------------------------------------
\* "op_barrier - perform exchange of keys put by op_put": what a task gets from
\* another shell after its nth fence is what was put there before the nth fence,
\* neither older nor newer; a task of its own shell may be one round ahead.
GetReturnsPut ==
    \A t \in Tasks : \A g \in got[t] :
        \/ g.val = g.fence
        \/ map[g.rank] = map[t] /\ g.val = g.fence + 1

\* GetReturnsPut is about programs that exchange values in rounds, as upmi's and
\* bizcard do: of the values put before each fence all are committed and one is
\* new, and the fence collects.
Before(q, op, i) == Cardinality({j \in 1 .. i - 1 : q[j].op = op})

PutAndCommitted(q, i) ==
    Cardinality({j \in 1 .. i - 1 : /\ q[j].op = "PMIx_Put"
                                    /\ \E k \in j + 1 .. i - 1 : q[k].op = "PMIx_Commit"})

InRounds(q) ==
    /\ q \in Seq(Range(q))
    /\ \A i \in 1 .. Len(q) + 1 :
          PutAndCommitted(q, i) - Before(q, "PMIx_Fence", i) \in {0, 1}
    /\ \A i \in DOMAIN q :
          /\ q[i].op = "PMIx_Get" => q[i].rank \in Tasks
          /\ q[i].op = "PMIx_Fence" =>
                /\ PutAndCommitted(q, i) = Before(q, "PMIx_Fence", i) + 1
                /\ q[i].info \in Seq([key : STRING, type : STRING, val : Int, reqd : BOOLEAN])
                /\ \E j \in DOMAIN q[i].info :
                      q[i].info[j].key = "pmix.collect" /\ q[i].info[j].val = 1

NoGets(q) == \A i \in DOMAIN q : q[i].op # "PMIx_Get"

\* Every job exchanges its values in rounds, or gets none.
Exchanging ==
    \A p \in Programs : (\A t \in Tasks : InRounds(p[t])) \/ (\A t \in Tasks : NoGets(p[t]))

\* No task leaves a fence before all tasks of the job have called it.
FenceSeparates == \A t, r \in Tasks : passed[t] <= fences[r]

\* A fence that fence.c refuses ends alike for all: no task passes a fence that
\* another one has failed in, unless the exchange reported an error.
SameOutcome ==
    errors = 0 => \A t, r \in Tasks : status[r] = "failed" /\ inside[r] = FALSE /\ fences[r] > passed[r]
                                        => passed[t] < fences[r]

\* "it is helpful to clear the pmix environment at this point to avoid leakage to
\* jobs": a task that went through upmi's finalize leaves no PMIx variable, in
\* whichever order the walk meets them, and no other variable is ever removed.
NoLeakToJobs ==
    \A t \in Tasks :
        /\ \A n \in Environ : n[1] # "PMIX_" => n \in env[t]
        /\ status[t] = "done" /\ Last(program[t]).op = "unsetenv_glob"
               => \A n \in env[t] : n[1] # "PMIX_"

\* NoLeakToJobs is about programs that clear the environment as upmi does.
Clearing ==
    \A p \in Programs : \A t \in Tasks :
        /\ p[t] \in Seq(Range(p[t])) \ {<<>>}
        /\ \A i \in DOMAIN p[t] : p[t][i].op = "unsetenv_glob" => p[t][i].pattern = "PMIX_"

\* Task t waits in a fence that no gather was made for, because a task has failed
\* before it passed this fence, or its shell has dropped the upcall.
Stuck(t) ==
    /\ inside[t]
    /\ Len(gathers) < fences[t]
    /\ \E r \in Tasks : passed[r] < fences[t] /\ (status[r] = "failed" \/ map[r] \in dropped)


=============================================================================
