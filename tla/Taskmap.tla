------------------------------ MODULE Taskmap -------------------------------
(***************************************************************************)
(* What the plugin computes from the task map and the node list of a job:  *)
(* main.c, maps.c, and lookup_shell_rank of dmodex.c.  A task map gives    *)
(* each rank its shell; an external library, flux-core's taskmap, holds it.*)
(***************************************************************************)
EXTENDS Integers, Sequences, FiniteSets, Functions, FiniteSetsExt

CONSTANT HOST_NAME_MAX

ASSUME HostNameMaxAssumption == HOST_NAME_MAX \in Nat \ {0}

nnodes(map) == Cardinality({map[r] : r \in DOMAIN map})
taskmap_taskids(map, nodeid) == {r \in DOMAIN map : map[r] = nodeid}
taskmap_nodeid(map, rank) == map[rank]

\* The ids from the lowest to the highest.
idset_encode(ids) ==
    [i \in 1 .. Cardinality(ids) |->
        CHOOSE r \in ids : Cardinality({q \in ids : q < r}) = i - 1]

\* Position of rank among the ranks of its node.
\* Mutant: the ranks are walked from the last to the first.
get_local_rank_backwards(map, nodeid, rank) ==
    Cardinality({r \in taskmap_taskids(map, nodeid) : r > rank})

get_local_rank(map, nodeid, rank) ==
    IF rank \in taskmap_taskids(map, nodeid)
    THEN Cardinality({r \in taskmap_taskids(map, nodeid) : r < rank})
    ELSE -1

\* PMIX_LOCAL_PEERS: the ranks of this shell.
set_lpeers(map, shell_rank) == idset_encode(taskmap_taskids(map, shell_rank))

\* PMIX_PROC_MAP: the ranks of each node, "deranged".
set_proc_map(map) ==
    [n \in 1 .. nnodes(map) |-> idset_encode(taskmap_taskids(map, n - 1))]

-----------------------------------------------------------------------------
\* A host name is a sequence of symbols, so that "%s%zu" is what it is: a
\* concatenation, cut to the buffer.
Digits(n) ==
    LET width == Min({k \in 1 .. n + 1 : n < 10 ^ k})
    IN  [i \in 1 .. width |-> (n \div 10 ^ (width - i)) % 10]

\* FALSE also when the copy cannot be made.
contains_duplicates(hl, copied) == copied /\ Cardinality(Range(hl)) < Len(hl)

\* Mutant: only the names seen before get a number.
maps_node_create_repeated(hl, copied) ==
    [i \in DOMAIN hl |->
        LET seen == Cardinality({j \in 1 .. i - 1 : hl[j] = hl[i]})
        IN  IF seen = 0 THEN hl[i] ELSE hl[i] \o Digits(seen)]

maps_node_create(hl, copied) ==
    [i \in DOMAIN hl |->
        IF contains_duplicates(hl, copied)
        THEN LET name == hl[i] \o Digits(i - 1)
             IN  SubSeq(name, 1, Min({Len(name), HOST_NAME_MAX}))
        ELSE hl[i]]

-----------------------------------------------------------------------------
ntasks(map, shell_rank) == Cardinality(taskmap_taskids(map, shell_rank))

base_rank(map, shell_rank) ==
    LET base[s \in Nat] == IF s = 0 THEN 0 ELSE base[s - 1] + ntasks(map, s - 1)
    IN  base[shell_rank]

\* Mutant: one past the end of each shell.
lookup_shell_rank_past(map, rank) ==
    LET Hit == {s \in 0 .. nnodes(map) - 1 :
                   rank \in base_rank(map, s) .. base_rank(map, s) + ntasks(map, s)}
    IN  IF Hit = {} THEN -1 ELSE Max(Hit)

lookup_shell_rank(map, rank) ==
    LET Hit == {s \in 0 .. nnodes(map) - 1 :
                   rank \in base_rank(map, s) .. base_rank(map, s) + ntasks(map, s) - 1}
    IN  IF Hit = {} THEN -1 ELSE Min(Hit)
=============================================================================
