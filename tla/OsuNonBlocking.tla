--------------------------- MODULE OsuNonBlocking ---------------------------
(***************************************************************************)
(* The benchmarks of non-blocking collectives.  Each measures the bare     *)
(* latency of the collective first, and then the same collective while the *)
(* rank computes for as long as that latency and probes the request.       *)
(***************************************************************************)
EXTENDS OsuCollective

sizeof_MPI_Datatype == 8

(* The computation calls MPI_Test once per probe; a call after the one that *)
(* completed the request finds nothing to complete.                         *)
dummy_compute(o) == Repeat(o.probes, Test("request"))

(* Mutant: the root and the others disagree on the number of values reduced. *)
calculate_and_print_stats_short(c, r) ==
    Report(c.iterations) \o Repeat(IF r = 0 THEN 5 ELSE 6, MPI_Reduce("SUM", 1, {}))
    \o MPI_Reduce("MIN", 1, {}) \o MPI_Reduce("MAX", 1, {}) \o MPI_Barrier
calculate_and_print_stats(c, r) ==
    Report(c.iterations) \o Repeat(6, MPI_Reduce("SUM", 1, {}))
    \o (IF r = 0 THEN MPI_Reduce("MAX", 1, {}) \o MPI_Reduce("MIN", 1, {})
                 ELSE MPI_Reduce("MIN", 1, {}) \o MPI_Reduce("MAX", 1, {}))
    \o MPI_Barrier

(* Some of them warm up for skip_large rounds whatever the size. *)
CountsSkippingLarge(o, s) == [Counts(o, s) EXCEPT !.skip = o.skip_large]

(* Mutant: the timer of the first measurement is kept for the second. *)
Overlap_kept(o, c, r, pre, first, mid, call) ==
    Repeat(pre, MPI_Barrier)
    \o TimedLoop(c, LAMBDA sample : call \o Wait("request") \o sample \o first)
    \o MPI_Barrier \o Report(c.iterations)
    \o Repeat(mid, MPI_Barrier)
    \o Tail(TimedLoop(c, LAMBDA sample : call \o dummy_compute(o) \o Wait("request") \o sample \o MPI_Barrier))
    \o MPI_Barrier \o calculate_and_print_stats(c, r)
(* Mutant: the request is left to the probes to complete. *)
Overlap_unwaited(o, c, r, pre, first, mid, call) ==
    Repeat(pre, MPI_Barrier)
    \o TimedLoop(c, LAMBDA sample : call \o Wait("request") \o sample \o first)
    \o MPI_Barrier \o Report(c.iterations)
    \o Repeat(mid, MPI_Barrier)
    \o TimedLoop(c, LAMBDA sample : call \o dummy_compute(o) \o sample \o MPI_Barrier)
    \o MPI_Barrier \o calculate_and_print_stats(c, r)
(* The two measurements of one size under the counts c.  The barriers before *)
(* each and after the calls of the first are what the benchmarks differ in.  *)
Overlap(o, c, r, pre, first, mid, call) ==
    Repeat(pre, MPI_Barrier)
    \o TimedLoop(c, LAMBDA sample : call \o Wait("request") \o sample \o first)
    \o MPI_Barrier \o Report(c.iterations)
    \o Repeat(mid, MPI_Barrier)
    \o TimedLoop(c, LAMBDA sample : call \o dummy_compute(o) \o Wait("request") \o sample \o MPI_Barrier)
    \o MPI_Barrier \o calculate_and_print_stats(c, r)

Overlaps(o, sizes, r, pre, Call(_)) ==
    BySize(sizes, LAMBDA s : Overlap(o, Counts(o, s), r, pre, MPI_Barrier, 1, Call(s)))
OverlapsSkippingLarge(o, sizes, r, pre, mid, Call(_)) ==
    BySize(sizes, LAMBDA s : Overlap(o, CountsSkippingLarge(o, s), r, pre, MPI_Barrier, mid, Call(s)))

Request(kind, root, red, n, uses) == Coll(kind, root, red, n, uses, "request")
----------------------------------------------------------------------------
osu_iallgather(o, np, r) ==
    LET m == Limited(o, np)
        Call(s) == Request("Iallgather", NoRoot, "", s, {<<"sendbuf", s>>, <<"recvbuf", s * np>>})
    IN  Main(o, np, Allocs(<< <<"sendbuf", m>>, <<"recvbuf", m * np>> >>)
                    \o Overlaps(o, Sizes(o.min, m, 1), r, 1, Call)
                    \o Frees(<<"sendbuf", "recvbuf">>))

osu_iallgatherv(o, np, r) ==
    LET m == Limited(o, np)
        ints == sizeof_int * np
        Call(s) == Request("Iallgatherv", NoRoot, "", s,
                       {<<"sendbuf", s>>, <<"recvbuf", s * np>>, <<"recvcounts", ints>>, <<"rdispls", ints>>})
    IN  Main(o, np, Allocs(<< <<"recvcounts", ints>>, <<"rdispls", ints>>, <<"sendbuf", m>>, <<"recvbuf", m * np>> >>)
                    \o Overlaps(o, Sizes(o.min, m, 1), r, 2, Call)
                    \o Frees(<<"rdispls", "recvcounts", "sendbuf", "recvbuf">>))

osu_iallreduce(o, np, r) ==
    LET m == Limited(o, 1)
        Call(s) == Request("Iallreduce", NoRoot, "SUM", s,
                       {<<"sendbuf", sizeof_float * s>>, <<"recvbuf", sizeof_float * s>>})
    IN  Main(o, np, Allocs(<< <<"sendbuf", Floats(m)>>, <<"recvbuf", Floats(m)>> >>)
                    \o Overlaps(o, Sizes(FloatMin(o), m, sizeof_float), r, 1, Call)
                    \o Frees(<<"sendbuf", "recvbuf">>))

osu_ialltoall(o, np, r) ==
    LET m == Limited(o, np)
        Call(s) == Request("Ialltoall", NoRoot, "", s, {<<"sendbuf", s * np>>, <<"recvbuf", s * np>>})
    IN  Main(o, np, Allocs(<< <<"sendbuf", m * np>>, <<"recvbuf", m * np>> >>)
                    \o Overlaps(o, Sizes(o.min, m, 1), r, 1, Call)
                    \o Frees(<<"sendbuf", "recvbuf">>))

osu_ialltoallv(o, np, r) ==
    LET m == Limited(o, np)
        ints == sizeof_int * np
        Call(s) == Request("Ialltoallv", NoRoot, "", s,
                       {<<"sendbuf", s * np>>, <<"recvbuf", s * np>>, <<"recvcounts", ints>>,
                        <<"sendcounts", ints>>, <<"rdispls", ints>>, <<"sdispls", ints>>})
    IN  Main(o, np, Allocs(<< <<"recvcounts", ints>>, <<"sendcounts", ints>>, <<"rdispls", ints>>,
                           <<"sdispls", ints>>, <<"sendbuf", m * np>>, <<"recvbuf", m * np>> >>)
                    \o Overlaps(o, Sizes(o.min, m, 1), r, 1, Call)
                    \o Frees(<<"rdispls", "sdispls", "recvcounts", "sendcounts", "sendbuf", "recvbuf">>))

(* The arrays of datatypes are never freed. *)
osu_ialltoallw(o, np, r) ==
    LET m == Limited(o, np)
        ints == sizeof_int * np
        types == sizeof_MPI_Datatype * np
        Call(s) == Request("Ialltoallw", NoRoot, "", s,
                       {<<"sendbuf", s * np>>, <<"recvbuf", s * np>>, <<"recvcounts", ints>>, <<"sendcounts", ints>>,
                        <<"rdispls", ints>>, <<"sdispls", ints>>, <<"stypes", types>>, <<"rtypes", types>>})
    IN  Main(o, np, Allocs(<< <<"recvcounts", ints>>, <<"sendcounts", ints>>, <<"rdispls", ints>>, <<"sdispls", ints>>,
                           <<"stypes", types>>, <<"rtypes", types>>, <<"sendbuf", m * np>>, <<"recvbuf", m * np>> >>)
                    \o OverlapsSkippingLarge(o, Sizes(o.min, m, 1), r, 1, 1, Call)
                    \o Frees(<<"rdispls", "sdispls", "recvcounts", "sendcounts", "sendbuf", "recvbuf">>))

osu_ibarrier(o, np, r) ==
    LET c == [iterations |-> o.iterations_large, skip |-> o.skip_large]
    IN  Main(o, np, Local("host_arrays", 1)
                    \o Overlap(o, c, r, 0, <<>>, 1, Request("Ibarrier", NoRoot, "", 0, {}))
                    \o Free("host_arrays"))

osu_ibcast(o, np, r) ==
    LET m == Limited(o, 1)
        Call(s) == Request("Ibcast", 0, "", s, {<<"buffer", s>>})
    IN  Main(o, np, Allocs(<< <<"buffer", m>> >>)
                    \o Overlaps(o, Sizes(o.min, m, 1), r, 0, Call)
                    \o Frees(<<"buffer">>))

osu_igather(o, np, r) ==
    LET m == Limited(o, 1)
        Call(s) == Request("Igather", 0, "", s,
                       {<<"sendbuf", s>>} \cup (IF r = 0 THEN {<<"recvbuf", s * np>>} ELSE {}))
    IN  Main(o, np, AtRoot(r, Allocs(<< <<"recvbuf", m * np>> >>)) \o Allocs(<< <<"sendbuf", m>> >>)
                    \o Overlaps(o, Sizes(o.min, m, 1), r, 0, Call)
                    \o AtRoot(r, Frees(<<"recvbuf">>)) \o Frees(<<"sendbuf">>))

osu_igatherv(o, np, r) ==
    LET m == Limited(o, np)
        ints == sizeof_int * np
        Call(s) == Request("Igatherv", 0, "", s, {<<"sendbuf", s>>} \cup
                       (IF r = 0 THEN {<<"recvbuf", s * np>>, <<"recvcounts", ints>>, <<"rdispls", ints>>} ELSE {}))
    IN  Main(o, np, AtRoot(r, Allocs(<< <<"recvcounts", ints>>, <<"rdispls", ints>>, <<"recvbuf", m * np>> >>))
                    \o Allocs(<< <<"sendbuf", m>> >>)
                    \o OverlapsSkippingLarge(o, Sizes(o.min, m, 1), r, 2, 2, Call)
                    \o AtRoot(r, Frees(<<"rdispls", "recvcounts", "recvbuf">>)) \o Frees(<<"sendbuf">>))

osu_ireduce(o, np, r) ==
    LET m == Limited(o, 1)
        Call(s) == Request("Ireduce", 0, "SUM", s,
                       {<<"sendbuf", sizeof_float * s>>, <<"recvbuf", sizeof_float * s>>})
    IN  Main(o, np, Allocs(<< <<"sendbuf", Floats(m)>>, <<"recvbuf", Floats(m)>> >>)
                    \o Overlaps(o, Sizes(FloatMin(o), m, sizeof_float), r, 1, Call)
                    \o Frees(<<"sendbuf", "recvbuf">>))

osu_iscatter(o, np, r) ==
    LET m == Limited(o, 1)
        Call(s) == Request("Iscatter", 0, "", s,
                       {<<"recvbuf", s>>} \cup (IF r = 0 THEN {<<"sendbuf", s * np>>} ELSE {}))
    IN  Main(o, np, AtRoot(r, Allocs(<< <<"sendbuf", m * np>> >>)) \o Allocs(<< <<"recvbuf", m>> >>)
                    \o Overlaps(o, Sizes(o.min, m, 1), r, 0, Call)
                    \o AtRoot(r, Frees(<<"sendbuf">>)) \o Frees(<<"recvbuf">>))

osu_iscatterv(o, np, r) ==
    LET m == Limited(o, np)
        ints == sizeof_int * np
        Call(s) == Request("Iscatterv", 0, "", s, {<<"recvbuf", s>>} \cup
                       (IF r = 0 THEN {<<"sendbuf", s * np>>, <<"sendcounts", ints>>, <<"sdispls", ints>>} ELSE {}))
    IN  Main(o, np, AtRoot(r, Allocs(<< <<"sendcounts", ints>>, <<"sdispls", ints>>, <<"sendbuf", m * np>> >>))
                    \o Allocs(<< <<"recvbuf", m>> >>)
                    \o OverlapsSkippingLarge(o, Sizes(o.min, m, 1), r, 1, 1, Call)
                    \o AtRoot(r, Frees(<<"sendcounts", "sdispls", "sendbuf">>)) \o Frees(<<"recvbuf">>))
=============================================================================
