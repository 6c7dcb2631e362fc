------------------------------- MODULE MCMpi -------------------------------
(***************************************************************************)
(* The jobs of t/t2001-osu-benchmarks.t and of the MPI tests of t/, with   *)
(* small messages and few iterations.                                      *)
(***************************************************************************)
EXTENDS OsuNonBlocking, OsuPt2pt

(* Sizes 2 to 8, with the change to large messages after 2, and a job whose *)
(* memory limit cuts the largest message down.                               *)
Options == <<[min |-> 2, max |-> 8, mem |-> 32, iterations |-> 2, skip |-> 1,
             iterations_large |-> 1, skip_large |-> 0, validate |-> FALSE, probes |-> 1, po_ret |-> "PO_OKAY"],
            [min |-> 2, max |-> 9, mem |-> 13, iterations |-> 1, skip |-> 1,
             iterations_large |-> 1, skip_large |-> 1, validate |-> TRUE, probes |-> 0, po_ret |-> "PO_OKAY"],
            [po_ret |-> "PO_HELP_MESSAGE", max |-> 0, mem |-> 0, min |-> 0]>>

Blockings == {"allgather", "allgatherv", "allreduce", "alltoall", "alltoallv", "barrier", "bcast",
              "gather", "gatherv", "reduce", "reduce_scatter", "scatter", "scatterv"}
BlockingProgram(b, o, np, r) ==
    CASE b = "allgather" -> osu_allgather(o, np, r) [] b = "allgatherv" -> osu_allgatherv(o, np, r)
      [] b = "allreduce" -> osu_allreduce(o, np, r) [] b = "alltoall" -> osu_alltoall(o, np, r)
      [] b = "alltoallv" -> osu_alltoallv(o, np, r) [] b = "barrier" -> osu_barrier(o, np, r)
      [] b = "bcast" -> osu_bcast(o, np, r) [] b = "gather" -> osu_gather(o, np, r)
      [] b = "gatherv" -> osu_gatherv(o, np, r) [] b = "reduce" -> osu_reduce(o, np, r)
      [] b = "reduce_scatter" -> osu_reduce_scatter(o, np, r) [] b = "scatter" -> osu_scatter(o, np, r)
      [] b = "scatterv" -> osu_scatterv(o, np, r)
(* A case is the number of the options and the number of ranks. *)
JobsOf(names, cases, P(_, _, _, _)) ==
    {[name |-> <<b>> \o c, prog |-> [r \in 0..(c[2] - 1) |-> P(b, Options[c[1]], c[2], r)]] :
         b \in names, c \in cases}
BlockingJobs == JobsOf(Blockings, {<<1, 1>>, <<1, 2>>, <<2, 2>>, <<2, 3>>, <<3, 2>>}, BlockingProgram)

NonBlockings == {"iallgather", "iallgatherv", "iallreduce", "ialltoall", "ialltoallv", "ialltoallw", "ibarrier",
                 "ibcast", "igather", "igatherv", "ireduce", "iscatter", "iscatterv"}
NonBlockingProgram(b, o, np, r) ==
    CASE b = "iallgather" -> osu_iallgather(o, np, r) [] b = "iallgatherv" -> osu_iallgatherv(o, np, r)
      [] b = "iallreduce" -> osu_iallreduce(o, np, r) [] b = "ialltoall" -> osu_ialltoall(o, np, r)
      [] b = "ialltoallv" -> osu_ialltoallv(o, np, r) [] b = "ialltoallw" -> osu_ialltoallw(o, np, r)
      [] b = "ibarrier" -> osu_ibarrier(o, np, r) [] b = "ibcast" -> osu_ibcast(o, np, r)
      [] b = "igather" -> osu_igather(o, np, r) [] b = "igatherv" -> osu_igatherv(o, np, r)
      [] b = "ireduce" -> osu_ireduce(o, np, r) [] b = "iscatter" -> osu_iscatter(o, np, r)
      [] b = "iscatterv" -> osu_iscatterv(o, np, r)
NonBlockingJobs == JobsOf(NonBlockings, {<<1, 1>>, <<1, 2>>, <<2, 3>>, <<3, 2>>}, NonBlockingProgram)
----------------------------------------------------------------------------
(* Messages up to 8 bytes, with the change of the counts after 4. *)
Small == [min |-> 0, max |-> 8, iterations |-> 2, skip |-> 1, iterations_large |-> 1, skip_large |-> 0,
          buf_num |-> "SINGLE", window_size |-> 2, window_varied |-> FALSE, pairs |-> 1,
          abort_rank |-> -1, po_ret |-> "PO_OKAY"]
Multiple == [Small EXCEPT !.buf_num = "MULTIPLE", !.skip_large = 1]
(* The bandwidth benchmarks begin with messages as long as the acknowledgement. *)
Bw(o) == [o EXCEPT !.min = 4]

Of(name, np, P(_)) == [name |-> name, prog |-> [r \in 0..(np - 1) |-> P(r)]]
Both(name, Program(_, _, _), o) ==
    UNION {{Of(<<name, "single", np>>, np, LAMBDA r : Program(o, np, r)),
            Of(<<name, "multiple", np>>, np, LAMBDA r : Program([o EXCEPT !.buf_num = "MULTIPLE"], np, r))} :
               np \in {1, 2}}
MbwMr == [Bw(Small) EXCEPT !.iterations = 1, !.pairs = 2]
Version == [Small EXCEPT !.po_ret = "PO_VERSION_MESSAGE"]

(* The programs for two ranks with one and two, those that form pairs also   *)
(* with two pairs and with ranks that are in none, the others with three.     *)
Pt2ptJobs ==
    Both("latency", osu_latency, Small) \cup Both("latency_mp", osu_latency_mp, Small)
    \cup Both("bw", osu_bw, Bw(Small)) \cup Both("bibw", osu_bibw, Bw(Small))
    \cup {Of(<<"multi_lat", "single", 2>>, 2, LAMBDA r : osu_multi_lat(Small, 2, r)),
          Of(<<"multi_lat", "single", 4>>, 4, LAMBDA r : osu_multi_lat([Small EXCEPT !.min = 8, !.iterations = 1], 4, r)),
          Of(<<"mbw_mr", "single", 4>>, 4, LAMBDA r : osu_mbw_mr([MbwMr EXCEPT !.min = 8, !.window_size = 1, !.skip = 0], 4, r)),
          Of(<<"mbw_mr", "multiple", 2>>, 2, LAMBDA r : osu_mbw_mr([Bw(Multiple) EXCEPT !.window_varied = TRUE], 2, r)),
          Of(<<"mbw_mr", "usage", 3>>, 3, LAMBDA r : osu_mbw_mr(MbwMr, 3, r)),
          Of(<<"multi_lat", "version", 2>>, 2, LAMBDA r : osu_multi_lat(Version, 2, r)),
          Of(<<"mbw_mr", "version", 2>>, 2, LAMBDA r : osu_mbw_mr(Version, 2, r)),
          Of(<<"multi_lat", "unpaired", 1>>, 1, LAMBDA r : osu_multi_lat(Small, 1, r)),
          Of(<<"multi_lat", "unpaired", 3>>, 3, LAMBDA r : osu_multi_lat(Small, 3, r)),
          Of(<<"mbw_mr", "unpaired", 3>>, 3, LAMBDA r : osu_mbw_mr([MbwMr EXCEPT !.pairs = 1], 3, r)),
          Of(<<"init", "", 3>>, 3, LAMBDA r : osu_init(Small, 3, r)),
          Of(<<"osu_hello", "", 3>>, 3, LAMBDA r : osu_hello(Small, 3, r)),
          Of(<<"mpi_hello", "", 3>>, 3, LAMBDA r : mpi_hello(Small, 3, r)),
          Of(<<"mpi_abort", "", 3>>, 3, LAMBDA r : mpi_abort([Small EXCEPT !.abort_rank = 1], 3, r)),
          Of(<<"mpi_pingpong", "", 2>>, 2, LAMBDA r : mpi_pingpong(Small, 2, r))}
JobsUnpaired == {j.name : j \in {j \in Pt2ptJobs : j.name[2] = "unpaired"}}
Varied == <<1, 2>>

AllJobs == BlockingJobs \cup NonBlockingJobs \cup Pt2ptJobs
=============================================================================
