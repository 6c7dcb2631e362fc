---------------------------- MODULE OsuCollective ----------------------------
(***************************************************************************)
(* The collective benchmarks of t/osu-micro-benchmarks/mpi/collective,     *)
(* which t/t2001-osu-benchmarks.t runs under flux-pmix.  Each operator     *)
(* named after a benchmark is the program of rank r of a job of np ranks   *)
(* under the options o: what it allocates, the collectives it calls in the *)
(* order it calls them, the samples it times and what it divides them by.  *)
(* A buffer is its size in bytes; device memory and the text printed are   *)
(* left out.                                                               *)
(***************************************************************************)
EXTENDS Mpi

CONSTANT LARGE_MESSAGE_SIZE     \* where the number of iterations changes

MIN_MESSAGE_SIZE == 1
sizeof_float == 4
sizeof_int == 4
----------------------------------------------------------------------------
(* Options: min and max message size, the limit mem on memory, iterations   *)
(* and skip for small and large messages, validate, probes (calls of        *)
(* MPI_Test during a computation) and target_cpu.                           *)

(* Sizes double from the smallest; unit is the size of an element. *)
Sizes(from, max, unit) ==
    SelectSeq([i \in 1..(max + 1) |-> from * 2^(i - 1)], LAMBDA s : s * unit <= max)

(* Beyond LARGE_MESSAGE_SIZE the counts for large messages are used. *)
Counts(o, s) ==
    IF s > LARGE_MESSAGE_SIZE THEN [iterations |-> o.iterations_large, skip |-> o.skip_large]
                              ELSE [iterations |-> o.iterations, skip |-> o.skip]

BySize(sizes, Body(_)) == Concat(Len(sizes), LAMBDA i : Body(sizes[i]))

(* The largest message for which np of them stay within the limit. *)
Limited(o, np) == IF o.max * np > o.mem THEN o.mem \div np ELSE o.max
FloatMin(o) == LET m == o.min \div sizeof_float
               IN  IF m < MIN_MESSAGE_SIZE THEN MIN_MESSAGE_SIZE ELSE m
Floats(max) == sizeof_float * (max \div sizeof_float)

(* The compute arrays a, x and y are allocated with every buffer and freed  *)
(* with the first one that is freed.                                        *)
allocate_memory_coll(b, n) == Local("host_arrays", 1) \o Alloc(b, n)
free_buffer(b) == Free(b) \o Free("host_arrays")
Allocs(bs) == Concat(Len(bs), LAMBDA i : allocate_memory_coll(bs[i][1], bs[i][2]))
Frees(bs) == Concat(Len(bs), LAMBDA i : free_buffer(bs[i]))
AtRoot(r, s) == IF r = 0 THEN s ELSE <<>>

(* Round i is timed unless it is one of the first skip rounds. *)
Timed(c, i) == IF i > c.skip THEN Sample ELSE <<>>

(* One timed loop of iterations + skip rounds. *)
TimedLoop(c, Round(_)) == Reset \o Concat(c.iterations + c.skip, LAMBDA i : Round(Timed(c, i)))

(* Minimum, maximum and average of the latency over the ranks. *)
Stats(c) == Report(c.iterations) \o MPI_Reduce("MIN", 1, {}) \o MPI_Reduce("MAX", 1, {})
                                 \o MPI_Reduce("SUM", 1, {})

(* Options that ask for help or that are wrong, and a job of fewer than two *)
(* ranks, finalize at once.                                                 *)
Main(o, np, body) == IF o.po_ret # "PO_OKAY" \/ np < 2 THEN MPI_Finalize ELSE body \o MPI_Finalize

(* The blocking benchmarks: barriers before the loop, after it and after the *)
(* statistics are what they differ in, besides the collective.               *)
Latency(o, sizes, pre, Call(_), post, last) ==
    BySize(sizes, LAMBDA s :
        Repeat(pre, MPI_Barrier)
        \o TimedLoop(Counts(o, s), LAMBDA sample : Call(s) \o sample \o MPI_Barrier)
        \o Repeat(post, MPI_Barrier) \o Stats(Counts(o, s)) \o Repeat(last, MPI_Barrier))

(* With validation the buffers are filled before the call and compared after *)
(* it, with a barrier between filling them and the call.                     *)
Validated(o, call) == (IF o.validate THEN MPI_Barrier ELSE <<>>) \o call
----------------------------------------------------------------------------
(* The blocking benchmarks *)

osu_allgather(o, np, r) ==
    LET m == Limited(o, np)
        Call(s) == Blocking(Coll("Allgather", NoRoot, "", s, {<<"sendbuf", s>>, <<"recvbuf", s * np>>}, "call"))
    IN  Main(o, np, Allocs(<< <<"sendbuf", m>>, <<"recvbuf", m * np>> >>)
                    \o Latency(o, Sizes(o.min, m, 1), 1, Call, 1, 1)
                    \o Frees(<<"sendbuf", "recvbuf">>))

osu_allgatherv(o, np, r) ==
    LET m == Limited(o, np)
        ints == sizeof_int * np
        Call(s) == Blocking(Coll("Allgatherv", NoRoot, "", s,
                       {<<"sendbuf", s>>, <<"recvbuf", s * np>>, <<"recvcounts", ints>>, <<"rdispls", ints>>}, "call"))
    IN  Main(o, np, Allocs(<< <<"recvcounts", ints>>, <<"rdispls", ints>>, <<"sendbuf", m>>, <<"recvbuf", m * np>> >>)
                    \o Latency(o, Sizes(o.min, m, 1), 2, Call, 1, 1)
                    \o Frees(<<"rdispls", "recvcounts", "sendbuf", "recvbuf">>))

osu_allreduce(o, np, r) ==
    LET m == Limited(o, 1)
        Call(s) == Validated(o, Blocking(Coll("Allreduce", NoRoot, "SUM", s,
                       {<<"sendbuf", sizeof_float * s>>, <<"recvbuf", sizeof_float * s>>}, "call")))
    IN  Main(o, np, Allocs(<< <<"sendbuf", Floats(m)>>, <<"recvbuf", Floats(m)>> >>)
                    \o Latency(o, Sizes(FloatMin(o), m, sizeof_float), 1, Call, 0, 1)
                    \o Frees(<<"sendbuf", "recvbuf">>))

osu_alltoall(o, np, r) ==
    LET m == Limited(o, np)
        Call(s) == Validated(o, Blocking(Coll("Alltoall", NoRoot, "", s,
                       {<<"sendbuf", s * np>>, <<"recvbuf", s * np>>}, "call")))
    IN  Main(o, np, Allocs(<< <<"sendbuf", m * np>>, <<"recvbuf", m * np>> >>)
                    \o Latency(o, Sizes(o.min, m, 1), 1, Call, 0, 1)
                    \o Frees(<<"sendbuf", "recvbuf">>))

osu_alltoallv(o, np, r) ==
    LET m == Limited(o, np)
        ints == sizeof_int * np
        arrays == {<<"recvcounts", ints>>, <<"sendcounts", ints>>, <<"rdispls", ints>>, <<"sdispls", ints>>}
        Call(s) == Blocking(Coll("Alltoallv", NoRoot, "", s,
                       {<<"sendbuf", s * np>>, <<"recvbuf", s * np>>} \cup arrays, "call"))
    IN  Main(o, np, Allocs(<< <<"recvcounts", ints>>, <<"sendcounts", ints>>, <<"rdispls", ints>>,
                           <<"sdispls", ints>>, <<"sendbuf", m * np>>, <<"recvbuf", m * np>> >>)
                    \o MPI_Barrier
                    \o Latency(o, Sizes(o.min, m, 1), 1, Call, 0, 1)
                    \o Frees(<<"rdispls", "sdispls", "recvcounts", "sendcounts", "sendbuf", "recvbuf">>))

osu_barrier(o, np, r) ==
    LET c == Counts(o, 0)
    IN  Main(o, np, TimedLoop(c, LAMBDA sample : MPI_Barrier \o sample) \o MPI_Barrier \o Stats(c))

osu_bcast(o, np, r) ==
    LET m == Limited(o, 1)
        Call(s) == Blocking(Coll("Bcast", 0, "", s, {<<"buffer", s>>}, "call"))
    IN  Main(o, np, Allocs(<< <<"buffer", m>> >>)
                    \o Latency(o, Sizes(o.min, m, 1), 0, Call, 1, 0)
                    \o Frees(<<"buffer">>))

osu_gather(o, np, r) ==
    LET m == Limited(o, np)
        Call(s) == Blocking(Coll("Gather", 0, "", s,
                       {<<"sendbuf", s>>} \cup (IF r = 0 THEN {<<"recvbuf", s * np>>} ELSE {}), "call"))
    IN  Main(o, np, AtRoot(r, Allocs(<< <<"recvbuf", m * np>> >>)) \o Allocs(<< <<"sendbuf", m>> >>)
                    \o Latency(o, Sizes(o.min, m, 1), 1, Call, 0, 1)
                    \o AtRoot(r, Frees(<<"recvbuf">>)) \o Frees(<<"sendbuf">>))

osu_gatherv(o, np, r) ==
    LET m == Limited(o, np)
        ints == sizeof_int * np
        Call(s) == Blocking(Coll("Gatherv", 0, "", s, {<<"sendbuf", s>>} \cup
                       (IF r = 0 THEN {<<"recvbuf", s * np>>, <<"recvcounts", ints>>, <<"rdispls", ints>>} ELSE {}), "call"))
    IN  Main(o, np, AtRoot(r, Allocs(<< <<"recvcounts", ints>>, <<"rdispls", ints>>, <<"recvbuf", m * np>> >>))
                    \o Allocs(<< <<"sendbuf", m>> >>)
                    \o Latency(o, Sizes(o.min, m, 1), 2, Call, 1, 1)
                    \o AtRoot(r, Frees(<<"rdispls", "recvcounts", "recvbuf">>)) \o Frees(<<"sendbuf">>))

osu_reduce(o, np, r) ==
    LET m == Limited(o, 1)
        Call(s) == Validated(o, MPI_Reduce("SUM", s,
                       {<<"sendbuf", sizeof_float * s>>, <<"recvbuf", sizeof_float * s>>}))
    IN  Main(o, np, Allocs(<< <<"recvbuf", Floats(m)>>, <<"sendbuf", Floats(m)>> >>)
                    \o Latency(o, Sizes(FloatMin(o), m, sizeof_float), 1, Call, 0, 1)
                    \o Frees(<<"recvbuf", "sendbuf">>))

(* The elements are spread over the ranks, the first ones taking the rest. *)
recvcounts(s, np, r) == s \div np + (IF r < s % np THEN 1 ELSE 0)
(* Mutant: the receive buffer has no room for the rest of the division. *)
osu_reduce_scatter_even(o, np, r) ==
    LET m == Limited(o, 1)
        ints == sizeof_int * np
        Call(s) == Blocking(Coll("Reduce_scatter", NoRoot, "SUM", s,
                       {<<"sendbuf", sizeof_float * s>>, <<"recvbuf", sizeof_float * recvcounts(s, np, r)>>,
                        <<"recvcounts", ints>>}, "call"))
    IN  Main(o, np, Allocs(<< <<"recvcounts", ints>>, <<"sendbuf", Floats(m)>>,
                              <<"recvbuf", sizeof_float * ((m \div np) \div sizeof_float)>> >>)
                    \o Latency(o, Sizes(FloatMin(o), m, sizeof_float), 1, Call, 0, 1)
                    \o Frees(<<"recvcounts", "sendbuf", "recvbuf">>))
osu_reduce_scatter(o, np, r) ==
    LET m == Limited(o, 1)
        ints == sizeof_int * np
        Call(s) == Blocking(Coll("Reduce_scatter", NoRoot, "SUM", s,
                       {<<"sendbuf", sizeof_float * s>>, <<"recvbuf", sizeof_float * recvcounts(s, np, r)>>,
                        <<"recvcounts", ints>>}, "call"))
    IN  Main(o, np, Allocs(<< <<"recvcounts", ints>>, <<"sendbuf", Floats(m)>>,
                           <<"recvbuf", sizeof_float * ((m \div np) \div sizeof_float + 1)>> >>)
                    \o Latency(o, Sizes(FloatMin(o), m, sizeof_float), 1, Call, 0, 1)
                    \o Frees(<<"recvcounts", "sendbuf", "recvbuf">>))

osu_scatter(o, np, r) ==
    LET m == Limited(o, np)
        Call(s) == Blocking(Coll("Scatter", 0, "", s,
                       {<<"recvbuf", s>>} \cup (IF r = 0 THEN {<<"sendbuf", s * np>>} ELSE {}), "call"))
    IN  Main(o, np, AtRoot(r, Allocs(<< <<"sendbuf", m * np>> >>)) \o Allocs(<< <<"recvbuf", m>> >>)
                    \o Latency(o, Sizes(o.min, m, 1), 1, Call, 0, 1)
                    \o AtRoot(r, Frees(<<"sendbuf">>)) \o Frees(<<"recvbuf">>))

osu_scatterv(o, np, r) ==
    LET m == Limited(o, np)
        ints == sizeof_int * np
        Call(s) == Blocking(Coll("Scatterv", 0, "", s, {<<"recvbuf", s>>} \cup
                       (IF r = 0 THEN {<<"sendbuf", s * np>>, <<"sendcounts", ints>>, <<"sdispls", ints>>} ELSE {}), "call"))
    IN  Main(o, np, AtRoot(r, Allocs(<< <<"sendcounts", ints>>, <<"sdispls", ints>>, <<"sendbuf", m * np>> >>))
                    \o Allocs(<< <<"recvbuf", m>> >>)
                    \o Latency(o, Sizes(o.min, m, 1), 2, Call, 0, 1)
                    \o AtRoot(r, Frees(<<"sendcounts", "sdispls", "sendbuf">>)) \o Frees(<<"recvbuf">>))
=============================================================================
