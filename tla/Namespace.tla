----------------------------- MODULE Namespace ------------------------------
(***************************************************************************)
(* The end of px_init: the attributes of the job's namespace are collected *)
(* in an infovec, registered with the PMIx server and destroyed.  Any      *)
(* allocation may fail.  Afterwards the server may ask for the shell of a  *)
(* rank (dmodex.c).                                                        *)
(***************************************************************************)
EXTENDS Infovec, Taskmap

CONSTANTS MaxTasks,     \* bound: tasks of the job
          MaxNodes      \* bound: shells of the job

ASSUME NamespaceAssumption == MaxTasks \in Nat \ {0} /\ MaxNodes \in Nat \ {0}

VARIABLES taskmap, nodelist, shell_rank,    \* the job, as the shell knows it
          copied,                           \* maps_node_create can copy the node list
          at,                               \* next statement
          proc,                             \* i of set_proc_infos
          iv, h,                            \* the vector and the heap
          nspace,                           \* what the server has been given
          found                             \* latest rank looked up, and its shell

vars == <<taskmap, nodelist, shell_rank, copied, at, proc, iv, h, nspace, found>>
job == <<taskmap, nodelist, shell_rank, copied>>

\* Names in the node list: brokers may share a host, and names may end in digits.
Hosts == {<<"a">>, <<"a", 1>>, <<"b">>}

\* Every shell runs a task.
Taskmaps == UNION {{map \in [0 .. n - 1 -> 0 .. s - 1] : Range(map) = 0 .. s - 1} :
                       n \in 1 .. MaxTasks, s \in 1 .. MaxNodes}

Init == /\ taskmap \in Taskmaps
        /\ nodelist \in [1 .. nnodes(taskmap) -> Hosts]
        /\ shell_rank \in 0 .. nnodes(taskmap) - 1
        /\ copied \in {TRUE, ~AllocFails}
        /\ at = "infovec_create"
        /\ proc = 0
        /\ iv = NoVector
        /\ h = EmptyHeap
        /\ nspace = <<>>
        /\ found = <<>>

\* One operand of the || chain: on failure go to error.
Operand(here, there, outcomes) ==
    /\ at = here
    /\ \E o \in outcomes :
          /\ iv' = o.iv
          /\ h' = o.h
          /\ at' = IF o.ok THEN there ELSE "destroy"
    /\ UNCHANGED <<job, proc, nspace, found>>

Create == Operand("infovec_create", "PMIX_JOBID", infovec_create(h))

SetStr(key, val, there) == Operand(key, there, infovec_set_str(h, iv, key, val))
SetU32(key, val, there) == Operand(key, there, infovec_set_u32(h, iv, key, val))
SetBool(key, val, there) == Operand(key, there, infovec_set_bool(h, iv, key, val))

\* A string made by a library call and handed over, freed if it is not taken.
HandOver(g, v, key, val) ==
    LET hand(o) == OrElse(infovec_set_str_new(o.h, v, key, val, o.p),
                          LAMBDA f : free(f, o.p))
    IN  Then(malloc(g, v), hand)

SetLpeers == Operand("PMIX_LOCAL_PEERS", "PMIX_NODE_MAP",
                     HandOver(h, iv, "PMIX_LOCAL_PEERS", set_lpeers(taskmap, shell_rank)))

\* raw, the regular expression PMIx makes of it, and raw freed in any case.
Cooked(g, v, key, val) ==
    LET cook(raw) == {[c EXCEPT !.h = free(@, raw.p)] : c \in HandOver(raw.h, raw.iv, key, val)}
    IN  Then(malloc(g, v), cook)

SetNodeMap == Operand("PMIX_NODE_MAP", "PMIX_PROC_MAP",
                      Cooked(h, iv, "PMIX_NODE_MAP", maps_node_create(nodelist, copied)))

SetProcMap == Operand("PMIX_PROC_MAP", "PMIX_TDIR_RMCLEAN",
                      Cooked(h, iv, "PMIX_PROC_MAP", set_proc_map(taskmap)))

\* One turn of the loop: a vector of the rank's own, which iv takes over.
ProcInfo(rank) ==
    LET nodeid == taskmap_nodeid(taskmap, rank)
        local_rank == get_local_rank(taskmap, nodeid, rank)
        Filled == Then(Then(Then(Then(infovec_create(h),
            LAMBDA o : infovec_set_rank(o.h, o.iv, "PMIX_RANK", rank)),
            LAMBDA o : infovec_set_u32(o.h, o.iv, "PMIX_NODEID", nodeid)),
            LAMBDA o : infovec_set_u16(o.h, o.iv, "PMIX_LOCAL_RANK", local_rank)),
            LAMBDA o : infovec_set_u16(o.h, o.iv, "PMIX_NODE_RANK", local_rank))
        Kept(o) == OrElse(infovec_set_infovec_new(o.h, iv, "PMIX_PROC_INFO_ARRAY", o.iv),
                            LAMBDA g : infovec_destroy(g, o.iv))
    IN  UNION {IF o.ok THEN Kept(o)
               ELSE {[o EXCEPT !.iv = iv, !.h = infovec_destroy(@, o.iv)]} : o \in Filled}

SetProcInfos == /\ at = "PMIX_PROC_INFO_ARRAY"
                /\ proc \in DOMAIN taskmap
                /\ \E o \in ProcInfo(proc) :
                      /\ iv' = o.iv
                      /\ h' = o.h
                      /\ at' = IF o.ok THEN at ELSE "destroy"
                /\ proc' = proc + 1
                /\ UNCHANGED <<job, nspace, found>>

\* The server copies what it is given, or refuses it.
RegisterNspace == /\ at = "PMIX_PROC_INFO_ARRAY"
                  /\ proc \notin DOMAIN taskmap
                  /\ nspace' \in {iv.info, <<>>}
                  /\ at' = "destroy"
                  /\ UNCHANGED <<job, proc, iv, h, found>>

Destroy == /\ at = "destroy"
           /\ h' = infovec_destroy(h, iv)
           /\ iv' = NoVector
           /\ at' = "returned"
           /\ UNCHANGED <<job, proc, nspace, found>>

\* dmodex_shell_cb asks for any rank a client may name; the two special ones
\* are negative as an int.
Lookup(rank) == /\ at = "returned" /\ nspace # <<>>
                /\ found' = <<rank, lookup_shell_rank(taskmap, rank)>>
                /\ UNCHANGED <<job, at, proc, iv, h, nspace>>

px_init == \/ Create \/ SetLpeers \/ SetNodeMap \/ SetProcMap
           \/ SetStr("PMIX_JOBID", "nspace", "PMIX_LOCAL_PEERS")
           \/ SetBool("PMIX_TDIR_RMCLEAN", TRUE, "PMIX_JOB_NUM_APPS")
           \/ SetU32("PMIX_JOB_NUM_APPS", 1, "PMIX_TMPDIR")
           \/ SetStr("PMIX_TMPDIR", "tmpdir", "PMIX_LOCAL_SIZE")
           \/ SetU32("PMIX_LOCAL_SIZE", ntasks(taskmap, shell_rank), "PMIX_UNIV_SIZE")
           \/ SetU32("PMIX_UNIV_SIZE", Cardinality(DOMAIN taskmap), "PMIX_JOB_SIZE")
           \/ SetU32("PMIX_JOB_SIZE", Cardinality(DOMAIN taskmap), "PMIX_APPNUM")
           \/ SetU32("PMIX_APPNUM", 0, "PMIX_PROC_INFO_ARRAY")
           \/ SetProcInfos \/ RegisterNspace \/ Destroy

Next == px_init \/ \E rank \in -2 .. MaxTasks : Lookup(rank)

Spec == Init /\ [][Next]_vars

-----------------------------------------------------------------------------
\* The attributes with a key, and the value of the first of them.
Having(info, key) == {i \in DOMAIN info : info[i].key = key}
Value(info, key) == info[Min(Having(info, key))].val

\* What a client learns of the job hangs together: every rank is described; in the
\* process map, the rank whose local rank is l on node n is the l-th of that node;
\* the local peers are this shell's line of it, and the sizes count them.
NamespaceAgrees ==
    nspace # <<>> =>
        LET procs  == Having(nspace, "PMIX_PROC_INFO_ARRAY")
            of(i, key) == Value(nspace[i].val.info, key)
            map    == Value(nspace, "PMIX_PROC_MAP")
            places == UNION {{<<n, l>> : l \in DOMAIN map[n]} : n \in DOMAIN map}
            size   == Value(nspace, "PMIX_JOB_SIZE")
        IN  /\ Cardinality(procs) = size
            /\ {of(i, "PMIX_RANK") : i \in procs} = 0 .. size - 1
            /\ \A i \in procs :
                  map[of(i, "PMIX_NODEID") + 1][of(i, "PMIX_LOCAL_RANK") + 1]
                      = of(i, "PMIX_RANK")
            /\ Value(nspace, "PMIX_LOCAL_PEERS") = map[shell_rank + 1]
            /\ Value(nspace, "PMIX_LOCAL_SIZE") = Len(map[shell_rank + 1])
            /\ Cardinality(places) = size
            /\ Len(Value(nspace, "PMIX_NODE_MAP")) = Len(map)

\* Shells that share a host, as in the tests, are different nodes to the clients:
\* maps_node_create makes the names unique, if it can copy the node list (and for
\* fewer than eleven shells: "a1" at index 0 and "a" at index 10 would both be
\* "a10").
NodesDistinct == nspace # <<>> /\ copied => IsInjective(Value(nspace, "PMIX_NODE_MAP"))

\* "Find the shell rank that hosts proc 'rank', or return -1 if not found."
LookupFindsHost ==
    found # <<>> => LET rank == found[1]
                    IN  found[2] = IF rank \in DOMAIN taskmap THEN taskmap[rank] ELSE -1

\* lookup_shell_rank finds the host of a rank when the ranks only go up from
\* shell to shell, and no shell for a rank that no task has, a special one
\* included.
LookupFindsHostInBlocks ==
    (\A q \in DOMAIN taskmap \ {0} : taskmap[q - 1] <= taskmap[q]) => LookupFindsHost

\* Whichever allocation fails, px_init returns with everything it allocated freed.
NothingLeaked == at = "returned" => h.live = {}

\* Nothing is freed twice, and every string and array that the server is about
\* to read is still allocated.
NoUseAfterFree ==
    /\ ~h.bad
    /\ at # "returned" => Range(Blocks(iv.array, iv.info)) \ {NULL} \subseteq h.live

=============================================================================
