-------------------------------- MODULE Mpi --------------------------------
(***************************************************************************)
(* MPI as the test programs under t/ use it.  The library is external to   *)
(* the repository; it is modelled by what the MPI calls of those programs  *)
(* may do.  A program is the sequence of steps of every rank of a job.     *)
(* A blocking call is the posting of a request and the wait for it, so a   *)
(* rank is inside the call when its next step is that wait.                *)
(*                                                                         *)
(* The kth collective of a rank is matched with the kth of every other     *)
(* rank, and the kth send to a peer with a tag with the kth receive from   *)
(* that sender with that tag.  A rank may leave a rooted collective before *)
(* the others have joined it when it needs nothing from them, and a send   *)
(* completes before it is received only when the library buffers it.       *)
(***************************************************************************)
EXTENDS Integers, Sequences, FiniteSets, SequencesExt

CONSTANTS AllRanks,     \* the ranks of the largest job
          Jobs,         \* the jobs run: records of a name and the program of every rank
          Unpaired,     \* the names of the jobs whose number of ranks leaves one without a partner
          AllocFails    \* how a failing allocation may be handled in this run

VARIABLES job,          \* the name of the job that runs
          buffered,     \* whether the library buffers the messages sent
          todo,         \* todo[r]: the steps rank r has not taken yet
          heap,         \* heap[r]: the size of every buffer r has allocated
          pending,      \* pending[r]: the requests r has not completed
          samples,      \* samples[r]: times added to the timer since its reset
          joined,       \* joined[r]: how many collectives r has called, and the last
          sent, rcvd,   \* per channel: the sizes of the sends and receives posted
          aborted,      \* whether a rank has aborted the job
          left          \* whether a rank has left it without memory

vars == <<job, buffered, todo, heap, pending, samples, joined, sent, rcvd, aborted, left>>
setting == <<job, buffered>>
----------------------------------------------------------------------------
(* The steps a program is made of *)

Alloc(b, n) == <<[op |-> "alloc", buf |-> b, n |-> n, fail |-> "abort"]>>
AllocOrLeave(b, n) == <<[op |-> "alloc", buf |-> b, n |-> n, fail |-> "leave"]>>
Local(b, n) == <<[op |-> "alloc", buf |-> b, n |-> n, fail |-> "never"]>>
Free(b) == <<[op |-> "free", buf |-> b]>>
Wait(h) == <<[op |-> "wait", handle |-> h]>>
Test(h) == <<[op |-> "test", handle |-> h]>>
Reset == <<[op |-> "reset"]>>
Sample == <<[op |-> "sample"]>>
Report(n) == <<[op |-> "report", n |-> n]>>
MPI_Finalize == <<[op |-> "finalize"]>>
MPI_Abort == <<[op |-> "abort"]>>

(* A collective: its kind, root, reduction and count, and the parts of the *)
(* buffers it uses, as pairs of a buffer and a number of bytes.            *)
Coll(kind, root, red, n, uses, h) ==
    <<[op |-> "coll", call |-> [kind |-> kind, root |-> root, n |-> n],
       red |-> red, uses |-> uses, handle |-> h]>>
Isend(peer, tag, b, n, h) ==
    <<[op |-> "send", peer |-> peer, tag |-> tag, uses |-> {<<b, n>>}, n |-> n, handle |-> h]>>
Irecv(peer, tag, b, n, h) ==
    <<[op |-> "recv", peer |-> peer, tag |-> tag, uses |-> {<<b, n>>}, n |-> n, handle |-> h]>>

Blocking(step) == step \o Wait("call")
NoRoot == -1
MPI_Barrier == Blocking(Coll("Barrier", NoRoot, "", 0, {}, "call"))
MPI_Reduce(red, n, uses) == Blocking(Coll("Reduce", 0, red, n, uses, "call"))
MPI_Send(peer, tag, b, n) == Blocking(Isend(peer, tag, b, n, "call"))
MPI_Recv(peer, tag, b, n) == Blocking(Irecv(peer, tag, b, n, "call"))

(* F(1) \o ... \o F(n) *)
Concat(n, F(_)) == LET upto[i \in 0..n] == IF i = 0 THEN <<>> ELSE upto[i - 1] \o F(i) IN upto[n]
Repeat(n, s) == Concat(n, LAMBDA i : s)
----------------------------------------------------------------------------
Ranks == DOMAIN todo
Channels ==
    UNION {{IF s.op = "send" THEN <<r, s.peer, s.tag>> ELSE <<s.peer, r, s.tag>> :
               s \in {s \in ToSet(todo[r]) : s.op \in {"send", "recv"}}} : r \in Ranks}

Ended(r) == todo[r] = <<>>
Here(r) == Head(todo[r])
At(r, op) == ~aborted /\ ~Ended(r) /\ Here(r).op = op
Step(r) == todo' = [todo EXCEPT ![r] = Tail(@)]

Init ==
    /\ \E j \in Jobs : job = j.name /\ todo = j.prog
    /\ buffered \in IF Channels = {} THEN {FALSE} ELSE BOOLEAN
    /\ heap = [r \in Ranks |-> <<>>]
    /\ pending = [r \in Ranks |-> {}]
    /\ samples = [r \in Ranks |-> 0]
    /\ joined = [r \in Ranks |-> [k |-> 0]]
    /\ sent = [c \in Channels |-> <<>>]
    /\ rcvd = [c \in Channels |-> <<>>]
    /\ aborted = FALSE
    /\ left = FALSE
----------------------------------------------------------------------------
(* A second allocation under the same name takes the place of the first. *)
Allocate(r) ==
    /\ At(r, "alloc")
    /\ LET b == Here(r).buf
       IN  heap' = [heap EXCEPT ![r] = [x \in DOMAIN @ \cup {b} |->
                                           IF x = b THEN Here(r).n ELSE @[x]]]
    /\ Step(r)
    /\ UNCHANGED <<setting, pending, samples, joined, sent, rcvd, aborted, left>>

(* The allocation fails: the program aborts the job, or this rank leaves it. *)
AbortOnFailure(r) ==
    /\ At(r, "alloc")
    /\ Here(r).fail \in AllocFails \cap {"abort"}
    /\ aborted' = TRUE
    /\ UNCHANGED <<setting, todo, heap, pending, samples, joined, sent, rcvd, left>>
LeaveOnFailure(r) ==
    /\ At(r, "alloc")
    /\ Here(r).fail \in AllocFails \cap {"leave"}
    /\ todo' = [todo EXCEPT ![r] = MPI_Finalize]
    /\ left' = TRUE
    /\ UNCHANGED <<setting, heap, pending, samples, joined, sent, rcvd, aborted>>

Release(r) ==
    /\ At(r, "free")
    /\ heap' = [heap EXCEPT ![r] = [x \in DOMAIN @ \ {Here(r).buf} |-> @[x]]]
    /\ Step(r)
    /\ UNCHANGED <<setting, pending, samples, joined, sent, rcvd, aborted, left>>

JoinCollective(r) ==
    /\ At(r, "coll")
    /\ joined' = [joined EXCEPT ![r] = [k |-> @.k + 1, call |-> Here(r).call]]
    /\ pending' = [pending EXCEPT ![r] = @ \cup {[op |-> "coll", k |-> joined'[r].k, call |-> Here(r).call,
                                                  handle |-> Here(r).handle, uses |-> Here(r).uses]}]
    /\ Step(r)
    /\ UNCHANGED <<setting, heap, samples, sent, rcvd, aborted, left>>

PostSend(r) ==
    /\ At(r, "send")
    /\ LET c == <<r, Here(r).peer, Here(r).tag>>
       IN  /\ sent' = [sent EXCEPT ![c] = Append(@, Here(r).n)]
           /\ pending' = [pending EXCEPT ![r] = @ \cup
                {[op |-> "send", k |-> Len(sent'[c]), c |-> c, handle |-> Here(r).handle, uses |-> Here(r).uses]}]
    /\ Step(r)
    /\ UNCHANGED <<setting, heap, samples, joined, rcvd, aborted, left>>

PostRecv(r) ==
    /\ At(r, "recv")
    /\ LET c == <<Here(r).peer, r, Here(r).tag>>
       IN  /\ rcvd' = [rcvd EXCEPT ![c] = Append(@, Here(r).n)]
           /\ pending' = [pending EXCEPT ![r] = @ \cup
                {[op |-> "recv", k |-> Len(rcvd'[c]), c |-> c, handle |-> Here(r).handle, uses |-> Here(r).uses]}]
    /\ Step(r)
    /\ UNCHANGED <<setting, heap, samples, joined, sent, aborted, left>>

(* When a request q of rank r can complete there. *)
ToRoot == {"Reduce", "Gather", "Gatherv", "Ireduce", "Igather", "Igatherv"}
FromRoot == {"Bcast", "Scatter", "Scatterv", "Ibcast", "Iscatter", "Iscatterv"}
CollectiveDone(r, q) ==
    LET needed == CASE q.call.kind \in ToRoot   -> IF r = q.call.root THEN Ranks ELSE {}
                    [] q.call.kind \in FromRoot -> {q.call.root}
                    [] OTHER                    -> Ranks
    IN  \A p \in needed : joined[p].k >= q.k
Completable(r, q) ==
    CASE q.op = "coll" -> CollectiveDone(r, q)
      [] q.op = "send" -> buffered \/ Len(rcvd[q.c]) >= q.k
      [] q.op = "recv" -> Len(sent[q.c]) >= q.k

WaitAll(r) ==
    /\ At(r, "wait")
    /\ LET mine == {q \in pending[r] : q.handle = Here(r).handle}
       IN  /\ \A q \in mine : Completable(r, q)
           /\ pending' = [pending EXCEPT ![r] = @ \ mine]
    /\ Step(r)
    /\ UNCHANGED <<setting, heap, samples, joined, sent, rcvd, aborted, left>>

(* MPI_Test completes the request or leaves it; either way it returns. *)
TestOne(r) ==
    /\ At(r, "test")
    /\ \E done \in SUBSET {q \in pending[r] : q.handle = Here(r).handle /\ Completable(r, q)} :
           pending' = [pending EXCEPT ![r] = @ \ done]
    /\ Step(r)
    /\ UNCHANGED <<setting, heap, samples, joined, sent, rcvd, aborted, left>>

Time(r) ==
    /\ ~aborted /\ ~Ended(r)
    /\ Here(r).op \in {"reset", "sample", "report"}
    /\ samples' = [samples EXCEPT ![r] =
           CASE Here(r).op = "reset" -> 0 [] Here(r).op = "sample" -> @ + 1 [] OTHER -> @]
    /\ Step(r)
    /\ UNCHANGED <<setting, heap, pending, joined, sent, rcvd, aborted, left>>

Finalize(r) ==
    /\ At(r, "finalize")
    /\ Step(r)
    /\ UNCHANGED <<setting, heap, pending, samples, joined, sent, rcvd, aborted, left>>

Abort(r) ==
    /\ At(r, "abort")
    /\ aborted' = TRUE
    /\ UNCHANGED <<setting, todo, heap, pending, samples, joined, sent, rcvd, left>>

Over == aborted \/ left \/ \A r \in Ranks : Ended(r)

Process(r) ==
    \/ Allocate(r) \/ AbortOnFailure(r) \/ LeaveOnFailure(r) \/ Release(r)
    \/ JoinCollective(r) \/ PostSend(r) \/ PostRecv(r) \/ WaitAll(r) \/ TestOne(r)
    \/ Time(r) \/ Finalize(r) \/ Abort(r)

Next == \E r \in Ranks : Process(r)

Spec == Init /\ [][Next]_vars

(* A process of the job is scheduled again and again, and MPI makes progress *)
(* on what a process waits for.                                              *)
FairSpec == Spec /\ \A r \in AllRanks : WF_vars(r \in Ranks /\ Process(r))
----------------------------------------------------------------------------
(* Ranks that meet in a collective call the same one: the same kind, root   *)
(* and count, so no rank is left in a barrier that the others never enter,  *)
(* whatever the branches on the rank that the programs take before it.  The *)
(* operation of a reduction is not compared: calculate_and_print_stats lets *)
(* the root's maximum meet the minimum of the others.                       *)
CollectivesAgree ==
    \A r, q \in Ranks : joined[r].k = joined[q].k /\ joined[r].k > 0 => joined[r].call = joined[q].call

(* While a request is pending, every buffer it uses is allocated and large   *)
(* enough for it: none is sized for the wrong count, or freed before the     *)
(* call that uses it has completed.                                          *)
BuffersFit ==
    \A r \in Ranks : \A q \in pending[r] : \A u \in q.uses :
        u[2] > 0 => u[1] \in DOMAIN heap[r] /\ u[2] <= heap[r][u[1]]

(* A message is never larger than the receive it is matched with. *)
MessagesFit ==
    \A c \in DOMAIN sent : \A k \in DOMAIN sent[c] \cap DOMAIN rcvd[c] : sent[c][k] <= rcvd[c][k]

(* The time divided by the number of iterations is the sum of that many      *)
(* samples: warm-up rounds are left out, and so is the previous size, also   *)
(* where the size passes LARGE_MESSAGE_SIZE and both counts change.          *)
AveragesItsSamples ==
    \A r \in Ranks : At(r, "report") => samples[r] = Here(r).n

(* A rank that finalizes has completed every request, and when all have, no  *)
(* message is left that nobody received.                                     *)
CleanExit ==
    /\ \A r \in Ranks : At(r, "finalize") => pending[r] = {}
    /\ (~left /\ \A r \in Ranks : Ended(r)) => \A c \in DOMAIN sent : Len(sent[c]) = Len(rcvd[c])

(* Every rank reaches the end of its program, unless a rank aborts the job   *)
(* or leaves the others because it has no memory.  The one exception is a    *)
(* benchmark of pairs on a number of ranks it cannot pair, which no rank      *)
(* checks: some rank then waits for ever (osu_multi_lat.c:183 with an odd     *)
(* number of ranks, osu_mbw_mr.c:409 with ranks outside the pairs).           *)
AllFinish ==
    /\ job \notin Unpaired => <>Over
    /\ job \in Unpaired => [](left \/ \E r \in Ranks : ~Ended(r))
=============================================================================
