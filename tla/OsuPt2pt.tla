------------------------------ MODULE OsuPt2pt ------------------------------
(***************************************************************************)
(* The point-to-point and start-up benchmarks of                           *)
(* t/osu-micro-benchmarks/mpi, and the MPI programs of t/src: the program  *)
(* of rank r of a job of np ranks under the options o.  Besides the sizes  *)
(* and counts of the collective benchmarks, o has buf_num, window_size,    *)
(* window_varied and pairs.  Buffer j of a window is <<"s_buf", j>> or     *)
(* <<"r_buf", j>>; with a single buffer j is 1.                            *)
(***************************************************************************)
EXTENDS OsuCollective

CONSTANT WINDOW_SIZES       \* the windows of osu_mbw_mr when they vary

s_buf(j) == <<"s_buf", j>>
r_buf(j) == <<"r_buf", j>>
Single(o) == o.buf_num = "SINGLE"
Buf(o, j) == IF Single(o) THEN 1 ELSE j

(* The sizes of the latency benchmarks begin with the empty message. *)
SizesFromZero(o) == IF o.min = 0 THEN <<0>> \o Sizes(1, o.max, 1) ELSE Sizes(o.min, o.max, 1)

(* A send and a receive buffer, of n bytes and at least one where a size is  *)
(* given.  The benchmarks that form pairs have functions of their own for it, *)
(* which differ in the ranks that use device memory.                          *)
Pair(j, n) == AllocOrLeave(s_buf(j), n) \o AllocOrLeave(r_buf(j), n)
allocate_memory_pt2pt_size(j, n) == Pair(j, IF n = 0 THEN 1 ELSE n)
allocate_memory_pt2pt_mul_size(j, n) == Pair(j, IF n = 0 THEN 1 ELSE n)
allocate_memory_pt2pt(o, j) == Pair(j, o.max)
allocate_memory_pt2pt_mul(o, j) == Pair(j, o.max)
free_memory(j) == Free(s_buf(j)) \o Free(r_buf(j))
free_memory_pt2pt_mul(j) == Free(s_buf(j)) \o Free(r_buf(j))

(* A single pair of buffers lasts for the program, several for one size. *)
ForProgram(o, steps) == IF Single(o) THEN steps ELSE <<>>
ForSize(o, w, F(_)) == IF Single(o) THEN <<>> ELSE Concat(w, F)

(* Leave without measuring: for the options, or for the number of ranks. *)
Leaves(o, ok, body) == IF o.po_ret # "PO_OKAY" \/ ~ok THEN MPI_Finalize ELSE body \o MPI_Finalize

(* Mutant: both ranks send before they receive. *)
PingPong_both(first, peer, size, sample) ==
    MPI_Send(peer, 1, s_buf(1), size) \o MPI_Recv(peer, 1, r_buf(1), size) \o (IF first THEN sample ELSE <<>>)
(* One round trip of a pair; the first of its ranks sends first. *)
PingPong(first, peer, size, sample) ==
    IF first THEN MPI_Send(peer, 1, s_buf(1), size) \o MPI_Recv(peer, 1, r_buf(1), size) \o sample
             ELSE MPI_Recv(peer, 1, r_buf(1), size) \o MPI_Send(peer, 1, s_buf(1), size)

----------------------------------------------------------------------------
osu_latency(o, np, r) ==
    Leaves(o, np = 2,
        ForProgram(o, allocate_memory_pt2pt(o, 1))
        \o BySize(SizesFromZero(o), LAMBDA s :
               ForSize(o, 1, LAMBDA j : allocate_memory_pt2pt_size(j, s))
               \o MPI_Barrier
               \o TimedLoop(Counts(o, s), LAMBDA sample : PingPong(r = 0, 1 - r, s, sample))
               \o AtRoot(r, Report(Counts(o, s).iterations))
               \o ForSize(o, 1, free_memory))
        \o ForProgram(o, free_memory(1)))

(* The two parents time one interval, from the first round that counts to   *)
(* the end of the loop.  The processes they fork only sleep and exit.       *)
communicate(o, r) ==
    allocate_memory_pt2pt(o, 1)
    \o BySize(SizesFromZero(o), LAMBDA s :
           LET c == Counts(o, s)
           IN  MPI_Barrier
               \o Concat(c.iterations + c.skip, LAMBDA i :
                      (IF i = c.skip + 1 THEN AtRoot(r, Reset) ELSE <<>>) \o PingPong(r = 0, 1 - r, s, Sample))
               \o AtRoot(r, Report(c.iterations)))
    \o free_memory(1)
osu_latency_mp(o, np, r) == Leaves(o, np = 2, communicate(o, r))

(* A window of sends is acknowledged by a message of four bytes. *)
ack == 4
(* Mutant: the acknowledgement is received into less than is sent. *)
Window_short(o, w, sender, peer, size, sample) ==
    IF sender
    THEN Concat(w, LAMBDA j : Isend(peer, 100, s_buf(Buf(o, j)), size, "request")) \o Wait("request")
         \o MPI_Recv(peer, 101, r_buf(1), 1) \o sample
    ELSE Concat(w, LAMBDA j : Irecv(peer, 100, r_buf(Buf(o, j)), size, "request")) \o Wait("request")
         \o MPI_Send(peer, 101, s_buf(1), ack)
Window(o, w, sender, peer, size, sample) ==
    IF sender
    THEN Concat(w, LAMBDA j : Isend(peer, 100, s_buf(Buf(o, j)), size, "request")) \o Wait("request")
         \o MPI_Recv(peer, 101, r_buf(1), ack) \o sample
    ELSE Concat(w, LAMBDA j : Irecv(peer, 100, r_buf(Buf(o, j)), size, "request")) \o Wait("request")
         \o MPI_Send(peer, 101, s_buf(1), ack)

Bandwidth(o, np, r, Round(_, _)) ==
    LET w == o.window_size
    IN  Leaves(o, np = 2,
            ForProgram(o, allocate_memory_pt2pt(o, 1))
            \o BySize(Sizes(o.min, o.max, 1), LAMBDA s :
                   ForSize(o, w, LAMBDA j : allocate_memory_pt2pt_size(j, s))
                   \o MPI_Barrier
                   \o TimedLoop(Counts(o, s), LAMBDA sample : Round(s, sample))
                   \o AtRoot(r, Report(Counts(o, s).iterations))
                   \o ForSize(o, w, free_memory))
            \o ForProgram(o, free_memory(1)))

osu_bw(o, np, r) ==
    Bandwidth(o, np, r, LAMBDA s, sample : Window(o, o.window_size, r = 0, 1 - r, s, sample))

(* Both ranks send a window and receive one, the lower with tag 100. *)
osu_bibw(o, np, r) ==
    LET w == o.window_size
        tag(q) == IF q = 0 THEN 100 ELSE 10
        Round(s, sample) ==
            Concat(w, LAMBDA j : Irecv(1 - r, tag(1 - r), r_buf(Buf(o, j)), s, "recv_request"))
            \o Concat(w, LAMBDA j : Isend(1 - r, tag(r), s_buf(Buf(o, j)), s, "send_request"))
            \o (IF r = 0 THEN Wait("send_request") \o Wait("recv_request") \o sample
                         ELSE Wait("recv_request") \o Wait("send_request"))
    IN  Bandwidth(o, np, r, Round)
----------------------------------------------------------------------------
(* Rank 0 finalizes when it has printed the version, and once more with the  *)
(* others.                                                                   *)
LeavesVersionTwice(o, ok, r, body) ==
    AtRoot(r, IF o.po_ret = "PO_VERSION_MESSAGE" THEN MPI_Finalize ELSE <<>>) \o Leaves(o, ok, body)

multi_latency(o, pairs, r) ==
    BySize(SizesFromZero(o), LAMBDA s :
        allocate_memory_pt2pt_mul_size(1, s) \o MPI_Barrier
        \o TimedLoop(Counts(o, s), LAMBDA sample :
               PingPong(r < pairs, IF r < pairs THEN r + pairs ELSE r - pairs, s, sample))
        \o AtRoot(r, Report(Counts(o, s).iterations))
        \o free_memory_pt2pt_mul(1))
osu_multi_lat(o, np, r) ==
    LeavesVersionTwice(o, TRUE, r, MPI_Barrier \o multi_latency(o, np \div 2, r) \o MPI_Barrier)

(* The ranks that are in no pair enter a barrier in every round. *)
calc_bw(o, r, size, w) ==
    ForSize(o, w, LAMBDA j : allocate_memory_pt2pt_mul_size(j, size))
    \o MPI_Barrier
    \o TimedLoop([iterations |-> o.iterations, skip |-> o.skip], LAMBDA sample :
           IF r < 2 * o.pairs
           THEN Window(o, w, r < o.pairs, IF r < o.pairs THEN r + o.pairs ELSE r - o.pairs, size, sample)
           ELSE MPI_Barrier)
    \o ForSize(o, w, free_memory_pt2pt_mul)
    \o AtRoot(r, Report(o.iterations))
osu_mbw_mr(o, np, r) ==
    LET usage == IF o.pairs > np \div 2 THEN [o EXCEPT !.po_ret = "PO_BAD_USAGE"] ELSE o
        windows == IF o.window_varied THEN WINDOW_SIZES ELSE <<o.window_size>>
    IN  LeavesVersionTwice(usage, np >= 2, r,
            ForProgram(o, allocate_memory_pt2pt_mul(o, 1))
            \o BySize(Sizes(o.min, o.max, 1), LAMBDA s :
                   Concat(Len(windows), LAMBDA i : calc_bw(o, r, s, windows[i])))
            \o ForProgram(o, free_memory_pt2pt_mul(1)))
----------------------------------------------------------------------------
osu_init(o, np, r) ==
    MPI_Reduce("MIN", 1, {}) \o MPI_Reduce("MAX", 1, {}) \o MPI_Reduce("SUM", 1, {}) \o MPI_Finalize
osu_hello(o, np, r) == MPI_Finalize
mpi_hello(o, np, r) == MPI_Barrier \o MPI_Finalize
mpi_abort(o, np, r) == (IF r = o.abort_rank THEN MPI_Abort ELSE <<>>) \o MPI_Barrier \o MPI_Finalize

(* The ranks take turns; a wrong number of ranks exits without finalizing. *)
mpi_pingpong(o, np, r) ==
    IF np # 2 THEN <<>>
    ELSE Local(<<"count", 1>>, sizeof_int) \o Local(<<"ncount", 1>>, sizeof_int) \o MPI_Barrier
         \o Concat(2 * o.iterations, LAMBDA i :
                IF (i - 1) % 2 = r THEN MPI_Send(1 - r, 0, <<"count", 1>>, sizeof_int)
                                   ELSE MPI_Recv(1 - r, 0, <<"ncount", 1>>, sizeof_int))
         \o MPI_Finalize
=============================================================================
