------------------------------ MODULE Clients -------------------------------
(***************************************************************************)
(* The PMIx clients of this repository as the sequences of calls that they *)
(* make into the PMIx library: the upmi plugin (src/upmi/pmix.c), with     *)
(* which flux itself is bootstrapped, and the test programs of t/src.      *)
(* Every call that fails ends the program (log_msg_exit, or -1 to upmi).   *)
(***************************************************************************)
EXTENDS Integers, Sequences, SequencesExt

\* The calls.  An attribute that the server was given when the namespace was
\* registered is read with Info, a key that a process has put with Get.
Preinit == [op |-> "preinit"]
Initialize == [op |-> "PMIx_Init"]
Info == [op |-> "PMIx_Get info"]
Put == [op |-> "PMIx_Put"]
Commit == [op |-> "PMIx_Commit"]
Fence(procs, info) == [op |-> "PMIx_Fence", procs |-> procs, info |-> info]
Get(rank) == [op |-> "PMIx_Get", rank |-> rank]
Abort == [op |-> "PMIx_Abort"]
Notify == [op |-> "PMIx_Notify_event"]
Finalize == [op |-> "PMIx_Finalize"]
Unsetenv(pattern) == [op |-> "unsetenv_glob", pattern |-> pattern]

\* An attribute of a fence: its key, type, value and whether it is required.
Attr(key, type, val, reqd) == [key |-> key, type |-> type, val |-> val, reqd |-> reqd]

\* No processes named: a fence over all of them.
All == {}

-----------------------------------------------------------------------------
op_preinit == <<Preinit>>
op_initialize == <<Initialize, Info>>
op_put == <<Put>>
op_get(rank) == <<Get(rank)>>
op_finalize == <<Finalize, Unsetenv("PMIX_")>>

op_barrier == <<Commit, Fence(All, <<Attr("pmix.collect", "PMIX_BOOL", 1, FALSE)>>)>>

\* External: the upmi user in flux-core exchanges cards with everyone, and the
\* first rank's card may change for a second exchange.
upmi_exchange(size, rounds) ==
    op_preinit \o op_initialize
    \o FlattenSeq([n \in 1 .. rounds |->
           op_put \o op_barrier \o FlattenSeq([r \in 1 .. size |-> op_get(r - 1)])])
    \o op_finalize

-----------------------------------------------------------------------------
\* Only rank 0 fetches the cards named by the arguments.
bizcard(rank, args) ==
    <<Initialize, Info, Info, Info, Info, Put, Commit,
      Fence(All, <<Attr("pmix.collect", "PMIX_BOOL", 1, FALSE)>>)>>
    \o (IF rank = 0 THEN [i \in DOMAIN args |-> Get(args[i])] ELSE <<>>)
    \o <<Finalize>>

set_info_bool(name, reqd, optarg) == Attr(name, "PMIX_BOOL", optarg, reqd)

\* The value is stored in the member of the union that holds a bool.
set_info_int(name, reqd, optarg) == Attr(name, "PMIX_INT", IF optarg = 0 THEN 0 ELSE 1, reqd)

\* opts: the options given, each with its value and whether it starts with '+'.
parse_info_opts(opts) ==
    LET Given(name) == SelectSeq(opts, LAMBDA o : o.name = name)
        Bool(name, key) == [i \in DOMAIN Given(name) |->
                               set_info_bool(key, Given(name)[i].plus, Given(name)[i].arg)]
        Num(name, key) == [i \in DOMAIN Given(name) |->
                              set_info_int(key, Given(name)[i].plus, Given(name)[i].arg)]
    IN  Bool("collect-data", "pmix.collect") \o Bool("collect-job-info", "pmix.collect.gen")
            \o Num("timeout", "pmix.timeout") \o Num("unknown", "pmix.unknown")

\* Without the option no processes are named.
parse_procs_opt(given, ids) == IF given THEN ids ELSE All

barrier(given, ids, opts) ==
    <<Initialize, Info, Fence(parse_procs_opt(given, ids), parse_info_opts(opts)), Finalize>>

\* Only the selected rank, or every rank if it is -1, gets the key, which nobody
\* has put.
getkey(rank, proc, only) ==
    <<Initialize>> \o (IF only \in {-1, rank} THEN <<Get(proc)>> ELSE <<>>) \o <<Finalize>>

notify == <<Initialize, Info, Notify, Finalize>>

abort(rank, abort_rank) ==
    <<Initialize, Info>> \o (IF rank = abort_rank THEN <<Abort>> ELSE <<>>) \o <<Finalize>>

=============================================================================
