---------------------------- MODULE ModexProofs -----------------------------
(***************************************************************************)
(* Fences of a whole job, for any number of tasks and shells, any task map *)
(* and any programs: what they separate (Fences), what they carry (Values) *)
(* and the environment that tasks leave (Environments).                    *)
(***************************************************************************)
EXTENDS Modex, FiniteSetTheorems, TLAPS

TaskStatuses == {"running", "failed", "killed", "done"}

\* A sequence of whatever it holds.
IsSeq(q) == q \in Seq(Range(q))

\* The server of shell s waits for the answer to a fence upcall.
Waiting(s) == upcall[s] # <<>> \/ Len(answers[s]) < Len(calls[s])

\* The types the argument needs.
Types ==
    /\ status \in [Tasks -> TaskStatuses] /\ inside \in [Tasks -> BOOLEAN]
    /\ fences \in [Tasks -> Nat] /\ passed \in [Tasks -> Nat]
    /\ DOMAIN upcall = Shells
    /\ calls \in [Shells -> Seq(BOOLEAN)]
    /\ DOMAIN answers = Shells
    /\ \A s \in Shells : IsSeq(answers[s])
    /\ IsSeq(gathers)
    /\ errors \in Nat

\* No task of shell s runs, nor does its server wait: its tasks call no more.
Ended(s) ==
    /\ ~Waiting(s)
    /\ \A t \in Local(s) : ~inside[t] /\ status[t] # "running"

\* The nth gather takes the nth call of every shell, and the nth answer of a
\* shell is to its nth call: a shell has one call at a time.  A shell that was
\* answered before its call was gathered, with an error, calls no more.
Numbered ==
    /\ \A s \in Shells : \A i \in DOMAIN answers[s] : answers[s][i].call = i
    /\ \A i \in DOMAIN gathers : \A s \in Shells : gathers[i].calls[s] = i
    /\ \A s \in Shells : /\ Len(answers[s]) <= Len(gathers) \/ Ended(s)
                         /\ Len(gathers) <= Len(calls[s])
                         /\ Len(answers[s]) <= Len(calls[s])
                         /\ Len(calls[s]) <= Len(answers[s]) + 1

\* A task is in a fence until its server has the answer, and has called as many
\* fences as its shell made calls, but for one on its way or refused.
Fencing(t) ==
    LET s == map[t]
    IN  /\ Waiting(s) => inside[t]
        /\ inside[t] => fences[t] = Len(answers[s]) + 1
        /\ Len(calls[s]) <= fences[t]
        /\ passed[t] <= Len(answers[s]) /\ passed[t] <= Len(gathers)
        /\ status[t] = "running" /\ ~inside[t]
               => fences[t] = passed[t] /\ fences[t] = Len(answers[s])
        /\ status[t] = "failed" /\ ~inside[t] /\ errors = 0
               => fences[t] = passed[t] \/ fences[t] = Len(calls[s]) + 1

Fences == /\ Types
          /\ Numbered
          /\ \A s \in Shells : upcall[s] # <<>> => Len(calls[s]) = Len(answers[s])
          /\ \A t \in Tasks : Fencing(t)

-----------------------------------------------------------------------------
\* Append, for a sequence of whatever it holds.
LEMMA AppendSeq ==
  ASSUME NEW q, IsSeq(q), NEW e
  PROVE  /\ IsSeq(Append(q, e))
         /\ Len(q) \in Nat /\ DOMAIN q = 1 .. Len(q)
         /\ Len(Append(q, e)) = Len(q) + 1
         /\ DOMAIN Append(q, e) = 1 .. Len(q) + 1
         /\ Append(q, e)[Len(q) + 1] = e
         /\ \A i \in DOMAIN q : Append(q, e)[i] = q[i]
         /\ Range(Append(q, e)) = Range(q) \cup {e}
  <1> DEFINE T == Range(q) \cup {e}
             a == Append(q, e)
  <1>1. q \in Seq(T) /\ e \in T
    BY DEF IsSeq
  <1> HIDE DEF T
  <1>2. /\ Len(q) \in Nat /\ DOMAIN q = 1 .. Len(q)
        /\ a \in Seq(T) /\ Len(a) = Len(q) + 1 /\ DOMAIN a = 1 .. Len(q) + 1
        /\ a[Len(q) + 1] = e
        /\ \A i \in DOMAIN q : a[i] = q[i]
    BY <1>1
  <1>3. DOMAIN a = DOMAIN q \cup {Len(q) + 1}
    BY <1>2
  <1>4. Range(a) = Range(q) \cup {e}
    <2> HIDE DEF a
    <2> QED
      BY <1>2, <1>3 DEF Range
  <1>5. a \in Seq(Range(a))
    BY <1>2, <1>4 DEF T
  <1> QED
    BY <1>2, <1>4, <1>5 DEF IsSeq

\* Append, for a sequence of Booleans.
LEMMA AppendTrue ==
  ASSUME NEW q \in Seq(BOOLEAN)
  PROVE  /\ Len(Append(q, TRUE)) = Len(q) + 1
         /\ DOMAIN Append(q, TRUE) = 1 .. Len(q) + 1
         /\ Append(q, TRUE)[Len(q) + 1] = TRUE
         /\ \A i \in 1 .. Len(q) : Append(q, TRUE)[i] = q[i]
  <1>1. IsSeq(q)
    BY DEF IsSeq, Range
  <1> QED
    BY <1>1, AppendSeq

\* An element of a sequence is of its type.
LEMMA ElementOf ==
  ASSUME NEW T, NEW q \in Seq(T), NEW j \in DOMAIN q
  PROVE  q[j] \in T
  OBVIOUS

\* A task runs on a shell.
LEMMA TaskShell == ASSUME NEW t \in Tasks PROVE map[t] \in Shells
  BY DEF Tasks, Shells, Range

\* The lengths that Fences compares are numbers.
LEMMA Lengths ==
  ASSUME Types
  PROVE  /\ \A s \in Shells : /\ Len(calls[s]) \in Nat /\ DOMAIN calls[s] = 1 .. Len(calls[s])
                              /\ Len(answers[s]) \in Nat
                              /\ DOMAIN answers[s] = 1 .. Len(answers[s])
         /\ Len(gathers) \in Nat /\ DOMAIN gathers = 1 .. Len(gathers)
  BY AppendSeq DEF Types

-----------------------------------------------------------------------------
\* A call that fails is counted.
LEMMA Faults ==
  ASSUME Types, Fault
  PROVE  errors' \in Nat /\ errors' # 0
  BY DEF Types, Fault

\* A shell whose tasks have ended comes to no more calls.
LEMMA EndedStays ==
  ASSUME NEW s \in Shells, Ended(s), Waiting(s)' => Waiting(s),
         \A t \in Tasks : map[t] = s => /\ inside'[t] => inside[t]
                                        /\ status'[t] = "running" => status[t] = "running"
  PROVE  Ended(s)'
  BY DEF Ended, Local

\* A step of one task outside the fence: it may end, or fail in another call.
LEMMA TaskFences ==
  ASSUME Fences,
         UNCHANGED <<inside, fences, passed, upcall, calls, answers, gathers>>,
         errors' \in Nat, errors' = 0 => errors = 0,
         status' \in [Tasks -> TaskStatuses],
         \A t \in Tasks : \/ status'[t] = status[t]
                          \/ status[t] = "running" /\ status'[t] \in {"killed", "done"}
                          \/ status[t] = "running" /\ ~inside[t] /\ status'[t] = "failed"
  PROVE  Fences'
  <1>1. /\ Types' /\ Numbered'
        /\ \A s \in Shells : Waiting(s)' <=> Waiting(s)
    <2>1. Types'
      BY DEF Fences, Types
    <2>2. \A s \in Shells : Waiting(s)' <=> Waiting(s)
      BY DEF Waiting
    <2>3. \A s \in Shells : Ended(s) => Ended(s)'
      BY <2>2, EndedStays
    <2>4. Numbered'
      BY <2>3 DEF Fences, Numbered
    <2> QED
      BY <2>1, <2>2, <2>4
  <1>2. ASSUME NEW t \in Tasks
        PROVE  Fencing(t)'
    <2>1. Fencing(t) /\ map[t] \in Shells
      BY TaskShell DEF Fences
    <2>2. Waiting(map[t])' <=> Waiting(map[t])
      BY <1>1, <2>1
    <2> QED
      BY <2>1, <2>2 DEF Fencing
  <1> QED
    BY <1>1, <1>2 DEF Fences

\* A task calls a fence.
LEMMA CallFences ==
  ASSUME Fences, NEW t \in Tasks, TaskFence(t)
  PROVE  Fences'
  <1>1. /\ status[t] = "running" /\ ~inside[t]
        /\ inside' = [inside EXCEPT ![t] = TRUE]
        /\ fences' = [fences EXCEPT ![t] = @ + 1]
        /\ UNCHANGED <<status, passed, upcall, calls, answers, gathers, errors>>
    BY DEF TaskFence, At, serverVars, exchangeVars
  <1>2. /\ Types' /\ Numbered'
        /\ \A s \in Shells : Waiting(s)' <=> Waiting(s)
    <2>1. Types'
      BY <1>1 DEF Fences, Types
    <2>2. \A s \in Shells : Waiting(s)' <=> Waiting(s)
      BY <1>1 DEF Waiting
    <2>3. ASSUME NEW s \in Shells, Ended(s)
          PROVE  Ended(s)'
      <3>1. map[t] # s
        BY <1>1, <2>3 DEF Ended, Local
      <3>2. \A x \in Tasks : map[x] = s => inside'[x] = inside[x]
        BY <1>1, <3>1 DEF Fences, Types
      <3> QED
        BY <1>1, <2>2, <2>3, <3>2, EndedStays
    <2>4. Numbered'
      BY <1>1, <2>3 DEF Fences, Numbered
    <2> QED
      BY <2>1, <2>2, <2>4
  <1>3. ASSUME NEW x \in Tasks
        PROVE  Fencing(x)'
    <2>1. /\ Fencing(x) /\ map[x] \in Shells
          /\ Len(answers[map[x]]) \in Nat /\ Len(calls[map[x]]) \in Nat
          /\ fences[x] \in Nat /\ passed[x] \in Nat
      BY TaskShell, Lengths DEF Fences, Types
    <2>2. Waiting(map[x])' <=> Waiting(map[x])
      BY <1>2, <2>1
    <2>3. CASE x = t
      <3>1. inside'[t] /\ fences'[t] = fences[t] + 1
        BY <1>1 DEF Fences, Types
      <3> QED
        BY <1>1, <2>1, <2>2, <2>3, <3>1 DEF Fencing
    <2>4. CASE x # t
      <3>1. inside'[x] = inside[x] /\ fences'[x] = fences[x]
        BY <1>1, <2>4 DEF Fences, Types
      <3> QED
        BY <1>1, <2>1, <2>2, <3>1 DEF Fencing
    <2> QED
      BY <2>3, <2>4
  <1> QED
    BY <1>1, <1>2, <1>3 DEF Fences

\* The server releases its tasks.
LEMMA Releases ==
  ASSUME Types, NEW s \in Shells, NEW rc, Release(s, rc)
  PROVE  /\ inside' \in [Tasks -> BOOLEAN] /\ status' \in [Tasks -> TaskStatuses]
         /\ passed' \in [Tasks -> Nat] /\ fences' = fences
         /\ \A t \in Tasks :
               /\ map[t] # s => /\ inside'[t] = inside[t] /\ passed'[t] = passed[t]
                                /\ status'[t] = status[t]
               /\ map[t] = s => ~inside'[t]
               /\ map[t] = s /\ rc = "PMIX_SUCCESS"
                     => passed'[t] = fences[t] /\ status'[t] = status[t]
               /\ rc # "PMIX_SUCCESS" => passed'[t] = passed[t]
               /\ map[t] = s /\ rc # "PMIX_SUCCESS" /\ inside[t] => status'[t] # "running"
  <1>1. inside' = [t \in Tasks |-> inside[t] /\ map[t] # s] /\ fences' = fences
    BY DEF Release
  <1>2. inside' \in [Tasks -> BOOLEAN]
    BY <1>1
  <1>3. \A t \in Tasks : /\ map[t] # s => inside'[t] = inside[t]
                         /\ map[t] = s => ~inside'[t]
    BY <1>1 DEF Types
  <1>4. CASE rc = "PMIX_SUCCESS"
    <2>1. /\ passed' = [t \in Tasks |-> IF map[t] = s THEN fences[t] ELSE passed[t]]
          /\ status' = status
      BY <1>4 DEF Release
    <2> QED
      BY <1>1, <1>2, <1>3, <1>4, <2>1 DEF Types
  <1>5. CASE rc # "PMIX_SUCCESS"
    <2>1. /\ status' = [t \in Tasks |->
                IF map[t] = s /\ inside[t] /\ status[t] = "running" THEN "failed" ELSE status[t]]
          /\ passed' = passed
      BY <1>5 DEF Release
    <2>2. status' \in [Tasks -> TaskStatuses]
      BY <2>1 DEF Types, TaskStatuses
    <2> QED
      BY <1>1, <1>2, <1>3, <1>5, <2>1, <2>2 DEF Types
  <1> QED
    BY <1>4, <1>5

\* The tasks of a shell get an error before its server has made the call.
LEMMA RefuseFences ==
  ASSUME Fences, NEW s \in Shells, NEW rc, rc # "PMIX_SUCCESS", Release(s, rc),
         \A t \in Tasks : map[t] = s => inside[t],
         Len(calls[s]) = Len(answers[s]),
         upcall'[s] = <<>>, DOMAIN upcall' = Shells,
         \A x \in Shells : x # s => upcall'[x] = upcall[x],
         UNCHANGED <<calls, answers, gathers>>,
         errors' \in Nat, errors' = 0 => errors = 0
  PROVE  Fences'
  <1>1. Types /\ Numbered /\ \A t \in Tasks : Fencing(t)
    BY DEF Fences
  <1>2. /\ inside' \in [Tasks -> BOOLEAN] /\ status' \in [Tasks -> TaskStatuses]
        /\ passed' = passed /\ fences' = fences
        /\ \A t \in Tasks :
              /\ map[t] # s => inside'[t] = inside[t] /\ status'[t] = status[t]
              /\ map[t] = s => ~inside'[t] /\ status'[t] # "running"
    <2>1. passed' = passed
      BY DEF Release
    <2> QED
      BY <1>1, <2>1, Releases
  <1>3. Types'
    BY <1>1, <1>2 DEF Types
  <1>4. ~Waiting(s)' /\ \A x \in Shells : x # s => (Waiting(x)' <=> Waiting(x))
    <2>1. Len(calls[s]) \in Nat /\ Len(answers[s]) \in Nat
      BY <1>1, Lengths
    <2> QED
      BY <2>1 DEF Waiting
  <1>5. Numbered'
    <2>1. \A x \in Shells : Ended(x) => Ended(x)'
      <3>1. \A x \in Shells : Waiting(x)' => Waiting(x)
        BY <1>4
      <3>2. \A t \in Tasks : /\ inside'[t] => inside[t]
                             /\ status'[t] = "running" => status[t] = "running"
        BY <1>2
      <3> QED
        BY <3>1, <3>2, EndedStays
    <2> QED
      BY <1>1, <2>1 DEF Numbered
  <1>6. \A x \in Shells : upcall'[x] # <<>> => Len(calls'[x]) = Len(answers'[x])
    BY DEF Fences
  <1>7. ASSUME NEW t \in Tasks
        PROVE  Fencing(t)'
    <2>1. Fencing(t) /\ map[t] \in Shells
      BY <1>1, TaskShell
    <2>2. CASE map[t] = s
      <3>1. fences[t] = Len(calls[s]) + 1
        BY <2>1, <2>2 DEF Fencing
      <3> QED
        BY <1>2, <1>4, <2>1, <2>2, <3>1 DEF Fencing
    <2>3. CASE map[t] # s
      BY <1>2, <1>4, <2>1, <2>3 DEF Fencing
    <2> QED
      BY <2>2, <2>3
  <1> QED
    BY <1>3, <1>5, <1>6, <1>7 DEF Fences

\* The server makes an upcall for its tasks, or cannot send it.
LEMMA ServerFences ==
  ASSUME Fences, NEW s \in Shells, ServerFence(s)
  PROVE  Fences'
  <1>1. /\ \A t \in Local(s) : inside[t]
        /\ upcall[s] = <<>>
        /\ Len(calls[s]) = Len(answers[s])
        /\ UNCHANGED <<calls, answers, gathers>>
    BY DEF ServerFence, exchangeVars
  <1>2. CASE Release(s, "PMIX_ERROR") /\ Fault /\ UNCHANGED upcall
    <2>1. errors' \in Nat /\ errors' # 0
      BY <1>2, Faults DEF Fences
    <2>2. \A t \in Tasks : map[t] = s => inside[t]
      BY <1>1 DEF Local
    <2>3. DOMAIN upcall' = Shells
      BY <1>2 DEF Fences, Types
    <2> QED
      BY <1>1, <1>2, <2>1, <2>2, <2>3, RefuseFences
  <1>3. CASE /\ DOMAIN upcall' = Shells
             /\ \A x \in Shells : x # s => upcall'[x] = upcall[x]
             /\ UNCHANGED <<inside, fences, status, passed, errors>>
    <2>1. Types'
      BY <1>1, <1>3 DEF Fences, Types
    <2>2. ~Ended(s)
      BY <1>1 DEF Ended, Shells, Range, Local, Tasks
    <2>3. \A x \in Shells : Ended(x) => Ended(x)'
      <3>1. \A x \in Shells : x # s => (Waiting(x)' => Waiting(x))
        BY <1>1, <1>3 DEF Waiting
      <3> QED
        BY <1>3, <2>2, <3>1, EndedStays
    <2>4. Numbered'
      BY <1>1, <2>3 DEF Fences, Numbered
    <2>5. \A x \in Shells : upcall'[x] # <<>> => Len(calls'[x]) = Len(answers'[x])
      BY <1>1, <1>3 DEF Fences
    <2>6. ASSUME NEW t \in Tasks
          PROVE  Fencing(t)'
      <3>1. Fencing(t) /\ map[t] \in Shells
        BY TaskShell DEF Fences
      <3>2. Waiting(map[t])' => inside'[t]
        BY <1>1, <1>3, <3>1 DEF Fencing, Waiting, Local
      <3> QED
        BY <1>1, <1>3, <3>1, <3>2 DEF Fencing
    <2> QED
      BY <2>1, <2>4, <2>5, <2>6 DEF Fences
  <1>4. \/ Release(s, "PMIX_ERROR") /\ Fault /\ UNCHANGED upcall
        \/ /\ DOMAIN upcall' = Shells
           /\ \A x \in Shells : x # s => upcall'[x] = upcall[x]
           /\ UNCHANGED <<inside, fences, status, passed, errors>>
    BY DEF ServerFence, taskVars, Fences, Types
  <1> QED
    BY <1>2, <1>3, <1>4

\* fence_shell_cb drops the fence, refuses it, or enters the exchange with it.
LEMMA EnterFences ==
  ASSUME Fences, NEW s \in Shells, fence_shell_cb(s)
  PROVE  Fences'
  <1> DEFINE call == upcall[s][1]
             rc == Checked(call)
  <1>1. /\ upcall[s] # <<>> /\ upcall' = [upcall EXCEPT ![s] = <<>>]
        /\ UNCHANGED <<answers, gathers>>
        /\ \/ Fault /\ UNCHANGED <<inside, status, fences, passed, calls>>
           \/ \E rcode : /\ rcode # "PMIX_SUCCESS" /\ Release(s, rcode)
                         /\ errors' = errors \/ Fault
                         /\ UNCHANGED calls
           \/ /\ calls' = [calls EXCEPT ![s] = Append(@, collect(call))]
              /\ UNCHANGED <<inside, status, fences, passed, errors>>
    BY DEF fence_shell_cb, Enter, taskVars
  <1> HIDE DEF rc
  <1>2. Types /\ Numbered /\ \A t \in Tasks : Fencing(t)
    BY DEF Fences
  <1>3. /\ DOMAIN upcall' = Shells /\ upcall'[s] = <<>>
        /\ \A x \in Shells : x # s => upcall'[x] = upcall[x]
    BY <1>1, <1>2 DEF Types
  <1>4. /\ Len(calls[s]) = Len(answers[s])
        /\ \A t \in Tasks : map[t] = s => inside[t]
    BY <1>1, <1>2 DEF Fences, Fencing, Waiting
  <1>5. \A x \in Shells : Len(calls[x]) \in Nat /\ Len(answers[x]) \in Nat
    BY <1>2, Lengths
  <1>6. CASE Fault /\ UNCHANGED <<inside, status, fences, passed, calls>>
    <2>1. errors' \in Nat /\ errors' # 0
      BY <1>2, <1>6, Faults
    <2>2. Types'
      BY <1>1, <1>2, <1>3, <1>6, <2>1 DEF Types
    <2>3. ~Waiting(s)' /\ \A x \in Shells : x # s => (Waiting(x)' <=> Waiting(x))
      BY <1>1, <1>3, <1>4, <1>5, <1>6 DEF Waiting
    <2>4. \A x \in Shells : Ended(x) => Ended(x)'
      BY <1>6, <2>3, EndedStays
    <2>5. Numbered'
      BY <1>1, <1>2, <1>6, <2>4 DEF Numbered
    <2>6. \A x \in Shells : upcall'[x] # <<>> => Len(calls'[x]) = Len(answers'[x])
      BY <1>1, <1>3, <1>6 DEF Fences
    <2>7. ASSUME NEW t \in Tasks
          PROVE  Fencing(t)'
      <3>1. Fencing(t) /\ map[t] \in Shells
        BY <1>2, TaskShell
      <3>2. Waiting(map[t])' => Waiting(map[t])
        BY <2>3, <3>1
      <3> QED
        BY <1>1, <1>6, <2>1, <3>1, <3>2 DEF Fencing
    <2> QED
      BY <2>2, <2>5, <2>6, <2>7 DEF Fences
  <1>7. ASSUME NEW rcode, rcode # "PMIX_SUCCESS", Release(s, rcode),
               errors' = errors \/ Fault, UNCHANGED calls
        PROVE  Fences'
    <2>1. errors' \in Nat /\ (errors' = 0 => errors = 0)
      BY <1>2, <1>7, Faults DEF Types
    <2> QED
      BY <1>1, <1>3, <1>4, <1>7, <2>1, RefuseFences
  <1>8. CASE /\ calls' = [calls EXCEPT ![s] = Append(@, collect(call))]
             /\ UNCHANGED <<inside, status, fences, passed, errors>>
    <2>1. collect(call) \in BOOLEAN
      BY DEF collect
    <2> HIDE DEF call
    <2>2. /\ calls' \in [Shells -> Seq(BOOLEAN)]
          /\ Len(calls'[s]) = Len(calls[s]) + 1
          /\ \A x \in Shells : x # s => calls'[x] = calls[x]
      BY <1>2, <1>8, <2>1 DEF Types
    <2>3. Types'
      BY <1>1, <1>2, <1>3, <1>8, <2>2 DEF Types
    <2>4. Numbered'
      <3>1. \A x \in Shells : /\ Len(gathers) <= Len(calls'[x])
                             /\ Len(answers[x]) <= Len(calls'[x])
                             /\ Len(calls'[x]) <= Len(answers[x]) + 1
        <4>1. Len(gathers) \in Nat
          BY <1>2, Lengths
        <4> QED
          BY <1>2, <1>4, <1>5, <2>2, <4>1 DEF Numbered
      <3>2. ~Ended(s)
        BY <1>1 DEF Ended, Waiting
      <3>3. \A x \in Shells : Ended(x) => Ended(x)'
        <4>1. \A x \in Shells : x # s => (Waiting(x)' => Waiting(x))
          BY <1>1, <1>3, <2>2 DEF Waiting
        <4> QED
          BY <1>8, <3>2, <4>1, EndedStays
      <3> QED
        BY <1>1, <1>2, <3>1, <3>3 DEF Numbered
    <2>5. \A x \in Shells : upcall'[x] # <<>> => Len(calls'[x]) = Len(answers'[x])
      BY <1>1, <1>3, <2>2 DEF Fences
    <2>6. ASSUME NEW t \in Tasks
          PROVE  Fencing(t)'
      <3>1. Fencing(t) /\ map[t] \in Shells /\ fences[t] \in Nat
        BY <1>2, TaskShell DEF Types
      <3>2. CASE map[t] = s
        <4>1. inside[t] /\ fences[t] = Len(answers[s]) + 1
          BY <1>4, <3>1, <3>2 DEF Fencing
        <4> QED
          BY <1>1, <1>4, <1>5, <1>8, <2>2, <3>1, <3>2, <4>1 DEF Fencing
      <3>3. CASE map[t] # s
        <4>1. Waiting(map[t])' <=> Waiting(map[t])
          BY <1>1, <1>3, <2>2, <3>1, <3>3 DEF Waiting
        <4> QED
          BY <1>1, <1>8, <2>2, <3>1, <3>3, <4>1 DEF Fencing
      <3> QED
        BY <3>2, <3>3
    <2> QED
      BY <2>3, <2>4, <2>5, <2>6 DEF Fences
  <1> QED
    BY <1>1, <1>6, <1>8, <1>7

\* A gather takes the one open call of every shell, which is the next one that
\* no gather has taken.
LEMMA GatherFences ==
  ASSUME Fences, MakeGather
  PROVE  Fences'
  <1>1. Types /\ Numbered /\ \A t \in Tasks : Fencing(t)
    BY DEF Fences
  <1>2. PICK g : AG!Proper(calls, g) /\ gathers' = Append(gathers, g)
    BY DEF MakeGather
  <1>3. UNCHANGED <<status, inside, fences, passed, upcall, calls, answers, errors>>
    BY DEF MakeGather, taskVars
  <1>4. /\ IsSeq(gathers') /\ Len(gathers) \in Nat /\ DOMAIN gathers = 1 .. Len(gathers)
        /\ Len(gathers') = Len(gathers) + 1 /\ DOMAIN gathers' = 1 .. Len(gathers) + 1
        /\ gathers'[Len(gathers) + 1] = g
        /\ \A i \in DOMAIN gathers : gathers'[i] = gathers[i]
    BY <1>1, <1>2, AppendSeq DEF Types
  <1>5. ASSUME NEW s \in Shells
        PROVE  g.calls[s] = Len(gathers) + 1 /\ Len(gathers) + 1 <= Len(calls[s])
    <2>1. /\ g.calls[s] \in DOMAIN calls[s]
          /\ \A i \in DOMAIN answers[s] : answers[s][i].call # g.calls[s]
          /\ \A h \in AG!ToSet(gathers) : h.calls[s] # g.calls[s]
      BY <1>2 DEF AG!Proper, AG!Open
    <2>2. /\ Len(calls[s]) \in Nat /\ DOMAIN calls[s] = 1 .. Len(calls[s])
          /\ Len(answers[s]) \in Nat /\ DOMAIN answers[s] = 1 .. Len(answers[s])
      BY <1>1, Lengths
    <2>3. /\ Len(answers[s]) <= Len(gathers) \/ ~Waiting(s)
          /\ Len(calls[s]) <= Len(answers[s]) + 1
      BY <1>1 DEF Numbered, Ended
    <2>4. g.calls[s] \notin DOMAIN gathers
      <3>1. \A i \in DOMAIN gathers : gathers[i].calls[s] # g.calls[s]
        BY <2>1 DEF AG!ToSet
      <3>2. \A i \in DOMAIN gathers : gathers[i].calls[s] = i
        BY <1>1 DEF Numbered
      <3> QED
        BY <3>1, <3>2
    <2>5. g.calls[s] \notin DOMAIN answers[s]
      BY <1>1, <2>1 DEF Numbered
    <2> DEFINE n == g.calls[s]
    <2> HIDE DEF n
    <2>6. n \in Nat /\ n >= 1 /\ n <= Len(calls[s])
      BY <2>1, <2>2 DEF n
    <2>7. n > Len(gathers) /\ n > Len(answers[s])
      BY <1>4, <2>2, <2>4, <2>5, <2>6 DEF n
    <2>8. n = Len(gathers) + 1
      <3>1. Len(answers[s]) < Len(calls[s])
        BY <2>2, <2>6, <2>7
      <3>2. Len(answers[s]) <= Len(gathers)
        BY <2>3, <3>1 DEF Waiting
      <3> QED
        BY <1>4, <2>2, <2>3, <2>6, <2>7, <3>2
    <2> QED
      BY <2>6, <2>8 DEF n
  <1>6. Types'
    BY <1>1, <1>3, <1>4 DEF Types
  <1>7. Numbered'
    <2>1. \A i \in DOMAIN gathers' : \A s \in Shells : gathers'[i].calls[s] = i
      <3>1. \A i \in DOMAIN gathers' : i \in DOMAIN gathers \/ i = Len(gathers) + 1
        BY <1>4
      <3> QED
        BY <1>1, <1>4, <1>5, <3>1 DEF Numbered
    <2>2. \A s \in Shells : /\ Len(answers[s]) <= Len(gathers') \/ Ended(s)'
                           /\ Len(gathers') <= Len(calls[s])
      <3>1. \A s \in Shells : Len(answers[s]) \in Nat
        BY <1>1, Lengths
      <3>2. \A s \in Shells : Ended(s) => Ended(s)'
        BY <1>3 DEF Ended, Waiting
      <3> QED
        BY <1>1, <1>4, <1>5, <3>1, <3>2 DEF Numbered
    <2> QED
      BY <1>1, <1>3, <2>1, <2>2 DEF Numbered
  <1>8. \A t \in Tasks : Fencing(t)'
    <2>1. \A t \in Tasks : passed[t] \in Nat
      BY <1>1 DEF Types
    <2> QED
      BY <1>1, <1>3, <1>4, <2>1 DEF Fencing, Waiting
  <1>9. \A s \in Shells : upcall'[s] # <<>> => Len(calls'[s]) = Len(answers'[s])
    BY <1>3 DEF Fences
  <1> QED
    BY <1>6, <1>7, <1>8, <1>9 DEF Fences

\* The exchange answers the one open call of a shell: with success if its gather
\* was made, with an error at any time.
LEMMA ExitFences ==
  ASSUME Fences, NEW s \in Shells, exchange_exit_cb(s)
  PROVE  Fences'
  <1> DEFINE n == Len(answers[s]) + 1
  <1>1. Types /\ Numbered /\ \A t \in Tasks : Fencing(t)
    BY DEF Fences
  <1>2. PICK rc \in {"PMIX_SUCCESS", "PMIX_ERROR"} :
            /\ Release(s, rc)
            /\ \E data : Answer(s, n, rc, data)
            /\ rc = "PMIX_SUCCESS" => errors' = errors /\ \E g \in Range(gathers) : g.calls[s] = n
            /\ rc = "PMIX_ERROR" => Fault
    BY DEF exchange_exit_cb
  <1> DEFINE Appended(a) == a.call = n /\ answers' = [answers EXCEPT ![s] = Append(@, a)]
  <1>2a. PICK a : Appended(a)
    <2>1. PICK data : Answer(s, n, rc, data)
      BY <1>2
    <2>2. Appended([call |-> n, status |-> rc, data |-> data])
      BY <2>1 DEF Answer
    <2> HIDE DEF Appended
    <2> QED
      BY <2>2
  <1>3. /\ IsSeq(answers'[s]) /\ Len(answers'[s]) = Len(answers[s]) + 1
        /\ DOMAIN answers'[s] = 1 .. Len(answers[s]) + 1
        /\ answers'[s][Len(answers[s]) + 1] = a
        /\ \A i \in DOMAIN answers[s] : answers'[s][i] = answers[s][i]
        /\ DOMAIN answers' = Shells
        /\ \A x \in Shells : x # s => answers'[x] = answers[x]
    <2>1. IsSeq(answers[s]) /\ answers'[s] = Append(answers[s], a)
      BY <1>1, <1>2a DEF Types
    <2> QED
      BY <1>1, <1>2a, <2>1, AppendSeq DEF Types
  <1>4. /\ \A x \in Shells : /\ Len(calls[x]) \in Nat /\ Len(answers[x]) \in Nat
                             /\ DOMAIN calls[x] = 1 .. Len(calls[x])
                             /\ DOMAIN answers[x] = 1 .. Len(answers[x])
        /\ Len(gathers) \in Nat /\ DOMAIN gathers = 1 .. Len(gathers)
    BY <1>1, Lengths
  <1>5. /\ Len(calls[s]) = n
        /\ rc = "PMIX_SUCCESS" => n <= Len(gathers)
        /\ UNCHANGED <<upcall, calls, gathers>>
    <2>1. n \in DOMAIN calls[s] /\ UNCHANGED <<upcall, calls, gathers>>
      BY DEF exchange_exit_cb, AG!Open
    <2>2. ASSUME NEW g \in Range(gathers), g.calls[s] = n
          PROVE  n <= Len(gathers)
      <3>1. PICK k \in DOMAIN gathers : g = gathers[k]
        BY <2>2 DEF Range
      <3>2. k = n
        BY <1>1, <2>2, <3>1 DEF Numbered
      <3> QED
        BY <1>4, <3>2
    <2> QED
      BY <1>1, <1>2, <1>4, <2>1, <2>2 DEF Numbered
  <1>6. \A t \in Tasks : map[t] = s => inside[t] /\ fences[t] = n
    BY <1>1, <1>4, <1>5 DEF Fencing, Waiting
  <1>7. upcall[s] = <<>>
    BY <1>4, <1>5 DEF Fences
  <1>9. /\ inside' \in [Tasks -> BOOLEAN] /\ status' \in [Tasks -> TaskStatuses]
        /\ passed' \in [Tasks -> Nat] /\ fences' = fences
        /\ \A t \in Tasks :
              /\ map[t] # s => /\ inside'[t] = inside[t] /\ passed'[t] = passed[t]
                               /\ status'[t] = status[t]
              /\ map[t] = s => ~inside'[t]
              /\ map[t] = s /\ rc = "PMIX_SUCCESS" => passed'[t] = fences[t]
              /\ map[t] = s /\ rc = "PMIX_ERROR"
                    => passed'[t] = passed[t] /\ status'[t] # "running"
    BY <1>1, <1>2, <1>6, Releases
  <1>10. errors' \in Nat /\ (errors' = 0 => errors = 0 /\ rc = "PMIX_SUCCESS")
    BY <1>1, <1>2, Faults DEF Types
  <1>11. Types'
    <2>1. \A x \in Shells : IsSeq(answers'[x])
      BY <1>1, <1>3 DEF Types
    <2> QED
      BY <1>1, <1>3, <1>5, <1>9, <1>10, <2>1 DEF Types
  <1>12. ~Waiting(s)' /\ \A x \in Shells : x # s => (Waiting(x)' <=> Waiting(x))
    BY <1>3, <1>4, <1>5, <1>7 DEF Waiting
  <1>13. Numbered'
    <2>1. \A x \in Shells : \A i \in DOMAIN answers'[x] : answers'[x][i].call = i
      <3>1. \A i \in DOMAIN answers'[s] : i \in DOMAIN answers[s] \/ i = Len(answers[s]) + 1
        BY <1>3, <1>4
      <3>2. a.call = Len(answers[s]) + 1
        BY <1>2a
      <3> QED
        BY <1>1, <1>3, <3>1, <3>2 DEF Numbered
    <2>2. \A x \in Shells : /\ Len(answers'[x]) <= Len(calls[x])
                            /\ Len(calls[x]) <= Len(answers'[x]) + 1
      BY <1>1, <1>3, <1>4, <1>5 DEF Numbered
    <2>3. rc = "PMIX_ERROR" => Ended(s)'
      BY <1>9, <1>12 DEF Ended, Local
    <2>4. \A x \in Shells : x # s => (Ended(x) => Ended(x)')
      BY <1>9, <1>12, EndedStays
    <2>5. \A x \in Shells : Len(answers'[x]) <= Len(gathers) \/ Ended(x)'
      BY <1>1, <1>2, <1>3, <1>5, <2>3, <2>4 DEF Numbered
    <2> QED
      BY <1>1, <1>5, <2>1, <2>2, <2>5 DEF Numbered
  <1>14. \A x \in Shells : upcall'[x] # <<>> => Len(calls'[x]) = Len(answers'[x])
    BY <1>3, <1>5, <1>7 DEF Fences
  <1>15. ASSUME NEW t \in Tasks
         PROVE  Fencing(t)'
    <2>1. Fencing(t) /\ map[t] \in Shells /\ fences[t] \in Nat /\ passed[t] \in Nat
      BY <1>1, TaskShell DEF Types
    <2>2. CASE map[t] = s
      <3>1. fences'[t] = Len(answers'[s]) /\ Len(calls'[s]) = Len(answers'[s])
        BY <1>3, <1>5, <1>6, <1>9, <2>2
      <3>2. ~inside'[t] /\ ~Waiting(s)'
        BY <1>9, <1>12, <2>2
      <3>3. CASE rc = "PMIX_SUCCESS"
        <4>1. passed'[t] = fences'[t] /\ passed'[t] <= Len(gathers)
          BY <1>5, <1>6, <1>9, <2>2, <3>3
        <4> QED
          BY <1>3, <1>4, <1>5, <2>1, <2>2, <3>1, <3>2, <4>1 DEF Fencing
      <3>4. CASE rc = "PMIX_ERROR"
        <4>1. errors' # 0 /\ status'[t] # "running" /\ passed'[t] = passed[t]
          BY <1>9, <1>10, <2>2, <3>4
        <4> QED
          BY <1>3, <1>4, <1>5, <2>1, <2>2, <3>1, <3>2, <4>1 DEF Fencing
      <3> QED
        BY <1>2, <3>3, <3>4
    <2>3. CASE map[t] # s
      <3>1. Waiting(map[t])' <=> Waiting(map[t])
        BY <1>12, <2>1, <2>3
      <3> QED
        BY <1>3, <1>5, <1>9, <1>10, <2>1, <2>3, <3>1 DEF Fencing
    <2> QED
      BY <2>2, <2>3
  <1> QED
    BY <1>11, <1>13, <1>14, <1>15 DEF Fences

-----------------------------------------------------------------------------
\* The invariant holds when the tasks start.
LEMMA FencesInit == Init => Fences
  <1> SUFFICES ASSUME Init PROVE Fences
    OBVIOUS
  <1>1. /\ calls = [s \in Shells |-> <<>>] /\ answers = [s \in Shells |-> <<>>]
        /\ gathers = <<>>
    BY DEF Init, AG!Init
  <1>2. IsSeq(<<>>) /\ DOMAIN <<>> = {} /\ Len(<<>>) = 0
    BY DEF IsSeq
  <1>3. Types
    BY <1>1, <1>2 DEF Init, Types, TaskStatuses
  <1>4. Numbered
    BY <1>1, <1>2 DEF Numbered
  <1>5. \A t \in Tasks : Fencing(t)
    BY <1>1, <1>2, TaskShell DEF Init, Fencing, Waiting
  <1>6. \A s \in Shells : upcall[s] # <<>> => Len(calls[s]) = Len(answers[s])
    BY DEF Init
  <1> QED
    BY <1>3, <1>4, <1>5, <1>6 DEF Fences

\* The calls of a task other than PMIx_Fence leave the fences alone.
LEMMA ClientFences ==
  ASSUME Fences, NEW t \in Tasks, Client(t) \/ Kill(t), ~TaskFence(t)
  PROVE  Fences'
  <1>1. /\ UNCHANGED <<inside, fences, passed, upcall, calls, answers, gathers>>
        /\ errors' = errors \/ Fault
    BY DEF Client, Kill, TaskPreinit, TaskCall, TaskFails, TaskPut, TaskCommit, unsetenv_glob,
           unsetenv_glob_entry, unsetenv_glob_end, TaskAbort, TaskGet, Exit, serverVars,
           exchangeVars
  <1>2. \/ status' = status
        \/ /\ status[t] = "running"
           /\ \E st \in {"killed", "done"} : status' = [status EXCEPT ![t] = st]
        \/ status[t] = "running" /\ ~inside[t] /\ status' = [status EXCEPT ![t] = "failed"]
    BY DEF Client, Kill, TaskPreinit, TaskCall, TaskFails, TaskPut, TaskCommit, unsetenv_glob,
           unsetenv_glob_entry, unsetenv_glob_end, TaskAbort, TaskGet, Exit, At, Returns, Fails
  <1>3. status \in [Tasks -> TaskStatuses]
    BY DEF Fences, Types
  <1>4. status' \in [Tasks -> TaskStatuses]
    BY <1>2, <1>3 DEF TaskStatuses
  <1>5. \A x \in Tasks : \/ status'[x] = status[x]
                         \/ status[x] = "running" /\ status'[x] \in {"killed", "done"}
                         \/ status[x] = "running" /\ ~inside[x] /\ status'[x] = "failed"
    BY <1>2, <1>3
  <1>6. errors' \in Nat /\ (errors' = 0 => errors = 0)
    BY <1>1, Faults DEF Fences, Types
  <1> QED
    BY <1>1, <1>4, <1>5, <1>6, TaskFences

\* Every step keeps the invariant.
LEMMA FencesNext ==
  ASSUME Fences, [Next]_vars
  PROVE  Fences'
  <1>1. ASSUME NEW t \in Tasks, Client(t) \/ Kill(t)
        PROVE  Fences'
    BY <1>1, CallFences, ClientFences
  <1>2. ASSUME NEW s \in Shells, Shell(s)
        PROVE  Fences'
    BY <1>2, ServerFences, EnterFences, ExitFences DEF Shell
  <1>3. CASE UNCHANGED vars
    <2>1. UNCHANGED <<status, inside, fences, passed, upcall, calls, answers, gathers, errors>>
      BY <1>3 DEF vars, taskVars, serverVars, exchangeVars
    <2>2. status' \in [Tasks -> TaskStatuses] /\ errors' \in Nat
      BY <2>1 DEF Fences, Types
    <2> QED
      BY <2>1, <2>2, TaskFences
  <1> QED
    BY <1>1, <1>2, <1>3, GatherFences DEF Next

\* A fence separates the tasks of a whole job: however they are spread over the
\* shells and whatever else they call, and also when exchanges fail, no task
\* leaves its nth fence before every task of the job has called its nth.
THEOREM FencesSeparate == Spec => []FenceSeparates
  <1>1. Fences /\ [Next]_vars => Fences'
    BY FencesNext
  <1>2. Fences => FenceSeparates
    <2> SUFFICES ASSUME Fences, NEW t \in Tasks, NEW r \in Tasks
                 PROVE  passed[t] <= fences[r]
      BY DEF FenceSeparates
    <2>1. Fencing(t) /\ Fencing(r) /\ map[t] \in Shells /\ map[r] \in Shells /\ Numbered
      BY TaskShell DEF Fences
    <2>2. /\ passed[t] <= Len(gathers)
          /\ Len(gathers) <= Len(calls[map[r]])
          /\ Len(calls[map[r]]) <= fences[r]
      BY <2>1 DEF Fencing, Numbered
    <2>3. /\ passed[t] \in Nat /\ fences[r] \in Nat /\ Len(gathers) \in Nat
          /\ Len(calls[map[r]]) \in Nat
      BY <2>1, Lengths DEF Fences, Types
    <2> QED
      BY <2>2, <2>3
  <1> QED
    BY <1>1, <1>2, FencesInit, PTL DEF Spec

\* A fence that fence.c refuses on one shell is passed on none: the exchange of
\* that shell is never entered, so that the others wait in theirs or are refused.
THEOREM FencesEndAlike == Spec => []SameOutcome
  <1>1. Fences /\ [Next]_vars => Fences'
    BY FencesNext
  <1>2. Fences => SameOutcome
    <2> SUFFICES ASSUME Fences, errors = 0, NEW t \in Tasks, NEW r \in Tasks,
                        status[r] = "failed", inside[r] = FALSE, fences[r] > passed[r]
                 PROVE  passed[t] < fences[r]
      BY DEF SameOutcome
    <2>1. Fencing(t) /\ Fencing(r) /\ map[t] \in Shells /\ map[r] \in Shells /\ Numbered
      BY TaskShell DEF Fences
    <2>2. /\ passed[t] \in Nat /\ fences[r] \in Nat /\ passed[r] \in Nat /\ Len(gathers) \in Nat
          /\ Len(calls[map[r]]) \in Nat
      BY <2>1, Lengths DEF Fences, Types
    <2>3. fences[r] = Len(calls[map[r]]) + 1
      BY <2>1, <2>2 DEF Fencing
    <2>4. /\ passed[t] <= Len(gathers)
          /\ Len(gathers) <= Len(calls[map[r]])
      BY <2>1 DEF Fencing, Numbered
    <2> QED
      BY <2>2, <2>3, <2>4
  <1> QED
    BY <1>1, <1>2, FencesInit, PTL DEF Spec

-----------------------------------------------------------------------------
(* The values that the fences carry.                                       *)

FencesBefore(t) == Before(program[t], "PMIx_Fence", pc[t])

\* What a task has put, committed and fenced is what its program says.
Progress(t) ==
    /\ puts[t] = Before(program[t], "PMIx_Put", pc[t])
    /\ committed[t] = PutAndCommitted(program[t], pc[t])
    /\ inside[t] => /\ pc[t] \in DOMAIN program[t]
                    /\ program[t][pc[t]].op = "PMIx_Fence"
                    /\ fences[t] = FencesBefore(t) + 1
    /\ ~inside[t] => \/ fences[t] = FencesBefore(t) /\ passed[t] = fences[t]
                     \/ \A r \in Local(map[t]) : status[r] # "running"

\* The nth upcall of a shell, and the nth blob, carry the nth values, and a
\* server has the values of the last fence its tasks have passed.
Carried ==
    /\ \A s \in Shells :
          /\ upcall[s] # <<>> => /\ collect(upcall[s][1])
                                 /\ \A t \in Local(s) : upcall[s][1].data[t] = Len(calls[s]) + 1
          /\ Len(blob[s]) = Len(calls[s])
          /\ \A n \in DOMAIN calls[s] : /\ calls[s][n]
                                        /\ \A t \in Local(s) : blob[s][n][t] = n
    /\ \A i \in DOMAIN gathers : Range(gathers[i].data) = {<<s, i>> : s \in Shells}
    /\ \A t, r \in Tasks : store[map[t]][r] = passed[t]

ValueTypes ==
    /\ program \in Programs
    /\ \A t \in Tasks : InRounds(program[t]) /\ pc[t] \in 1 .. Len(program[t]) + 1
    /\ pc \in [Tasks -> Nat] /\ puts \in [Tasks -> Nat] /\ committed \in [Tasks -> Nat]
    /\ DOMAIN got = Tasks
    /\ DOMAIN store = Shells /\ DOMAIN blob = Shells
    /\ \A s \in Shells : IsSeq(blob[s])

Values == /\ Fences
          /\ ValueTypes
          /\ \A t \in Tasks : Progress(t)
          /\ Carried
          /\ GetReturnsPut

-----------------------------------------------------------------------------
\* Counting calls up to the next position of a program.
LEMMA BeforeNext ==
  ASSUME NEW q, NEW op, NEW i \in Nat \ {0}
  PROVE  /\ Before(q, op, i) \in Nat
         /\ Before(q, op, i + 1) = Before(q, op, i) + (IF q[i].op = op THEN 1 ELSE 0)
  <1> DEFINE S(n) == {j \in 1 .. n - 1 : q[j].op = op}
  <1>1. IsFiniteSet(S(i))
    <2>1. IsFiniteSet(1 .. i - 1)
      BY FS_Interval
    <2> QED
      BY <2>1, FS_Subset
  <1>2. \A j \in 1 .. (i + 1) - 1 : j \in 1 .. i - 1 \/ j = i
    OBVIOUS
  <1>3. \A j \in 1 .. i - 1 : j \in 1 .. (i + 1) - 1
    OBVIOUS
  <1>4. i \in 1 .. (i + 1) - 1 /\ i \notin 1 .. i - 1
    OBVIOUS
  <1>5. /\ q[i].op = op => S(i + 1) = S(i) \cup {i}
        /\ q[i].op # op => S(i + 1) = S(i)
        /\ i \notin S(i)
    BY <1>2, <1>3, <1>4
  <1>6. Cardinality(S(i)) \in Nat
    BY <1>1, FS_CardinalityType
  <1>7. Cardinality(S(i) \cup {i}) = Cardinality(S(i)) + 1
    BY <1>1, <1>5, FS_AddElement
  <1>8. Before(q, op, i) = Cardinality(S(i)) /\ Before(q, op, i + 1) = Cardinality(S(i + 1))
    BY DEF Before
  <1> HIDE DEF S
  <1> QED
    BY <1>5, <1>6, <1>7, <1>8

\* A commit takes all that was put, and nothing else changes what is committed.
LEMMA CommittedNext ==
  ASSUME NEW q, NEW i \in Nat \ {0}
  PROVE  PutAndCommitted(q, i + 1) = IF q[i].op = "PMIx_Commit" THEN Before(q, "PMIx_Put", i)
                                                               ELSE PutAndCommitted(q, i)
  <1> DEFINE S(n) == {j \in 1 .. n - 1 : /\ q[j].op = "PMIx_Put"
                                         /\ \E k \in j + 1 .. n - 1 : q[k].op = "PMIx_Commit"}
             P == {j \in 1 .. i - 1 : q[j].op = "PMIx_Put"}
  <1>1. CASE q[i].op = "PMIx_Commit"
    <2>1. ASSUME NEW j \in S(i + 1)
          PROVE  j \in P
      <3>1. j \in 1 .. (i + 1) - 1 /\ q[j].op = "PMIx_Put"
        OBVIOUS
      <3>2. j # i
        BY <1>1, <3>1
      <3> QED
        BY <3>1, <3>2
    <2>2. ASSUME NEW j \in P
          PROVE  j \in S(i + 1)
      <3>1. j \in 1 .. (i + 1) - 1 /\ i \in j + 1 .. (i + 1) - 1
        OBVIOUS
      <3> QED
        BY <1>1, <3>1
    <2>3. S(i + 1) = P
      BY <2>1, <2>2
    <2> QED
      BY <1>1, <2>3 DEF PutAndCommitted, Before
  <1>2. CASE q[i].op # "PMIx_Commit"
    <2>1. ASSUME NEW j \in S(i + 1)
          PROVE  j \in S(i)
      <3>1. /\ j \in 1 .. (i + 1) - 1 /\ q[j].op = "PMIx_Put"
            /\ \E k \in j + 1 .. (i + 1) - 1 : q[k].op = "PMIx_Commit"
        OBVIOUS
      <3>2. PICK k \in j + 1 .. (i + 1) - 1 : q[k].op = "PMIx_Commit"
        BY <3>1
      <3>3. k # i
        BY <1>2, <3>2
      <3>4. k \in j + 1 .. i - 1 /\ j \in 1 .. i - 1
        BY <3>1, <3>3
      <3> QED
        BY <3>1, <3>2, <3>4
    <2>2. ASSUME NEW j \in S(i)
          PROVE  j \in S(i + 1)
      <3>1. PICK k \in j + 1 .. i - 1 : q[k].op = "PMIx_Commit"
        OBVIOUS
      <3>2. j \in 1 .. (i + 1) - 1 /\ k \in j + 1 .. (i + 1) - 1
        OBVIOUS
      <3> QED
        BY <3>1, <3>2
    <2>3. S(i + 1) = S(i)
      BY <2>1, <2>2
    <2> QED
      BY <1>2, <2>3 DEF PutAndCommitted
  <1> QED
    BY <1>1, <1>2

\* Nothing comes before the first call.
LEMMA BeforeFirst ==
  ASSUME NEW q
  PROVE  (\A op : Before(q, op, 1) = 0) /\ PutAndCommitted(q, 1) = 0
  <1>1. 1 .. 1 - 1 = {}
    OBVIOUS
  <1>2. \A op : {j \in 1 .. 1 - 1 : q[j].op = op} = {}
    BY <1>1
  <1>3. {j \in 1 .. 1 - 1 : /\ q[j].op = "PMIx_Put"
                            /\ \E k \in j + 1 .. 1 - 1 : q[k].op = "PMIx_Commit"} = {}
    BY <1>1
  <1> QED
    BY <1>2, <1>3, FS_EmptySet DEF Before, PutAndCommitted

\* The greatest of zero and one number.
LEMMA MaxOfOne ==
  ASSUME NEW n \in Nat
  PROVE  Max({0} \cup {n}) = n
  BY DEF Max

-----------------------------------------------------------------------------
\* What a task gets after a fence is what the fence carried.
LEMMA GotValue ==
  ASSUME Values, NEW t \in Tasks, TaskGet(t)
  PROVE  LET r == ThisCall(t).rank
             val == Known(map[t], r)
         IN  \/ val = passed[t]
             \/ map[r] = map[t] /\ val = passed[t] + 1
  <1> DEFINE r == ThisCall(t).rank
             val == Known(map[t], r)
  <1> SUFFICES val = passed[t] \/ (map[r] = map[t] /\ val = passed[t] + 1)
    OBVIOUS
  <1>0. Fences /\ ValueTypes /\ Carried /\ \A x \in Tasks : Progress(x)
    BY DEF Values
  <1>1. /\ status[t] = "running" /\ ~inside[t]
        /\ pc[t] \in DOMAIN program[t] /\ program[t][pc[t]].op = "PMIx_Get"
    BY DEF TaskGet, At
  <1>2. r \in Tasks
    BY <1>0, <1>1 DEF ValueTypes, InRounds, ThisCall
  <1> HIDE DEF r
  <1>3. CASE map[r] # map[t]
    BY <1>0, <1>2, <1>3 DEF Known, Carried
  <1>4. CASE map[r] = map[t]
    <2>1. val = committed[r]
      BY <1>4 DEF Known
    <2>2. t \in Local(map[r])
      BY <1>4 DEF Local
    <2>3. passed[r] = passed[t]
      <3>1. store[map[r]][t] = passed[r] /\ store[map[t]][t] = passed[t]
        BY <1>0, <1>2 DEF Carried
      <3> QED
        BY <1>4, <3>1
    <2>4. /\ Progress(r) /\ Fencing(r) /\ Fencing(t)
          /\ committed[r] = PutAndCommitted(program[r], pc[r])
      BY <1>0, <1>2 DEF Fences, Progress
    <2>5. PutAndCommitted(program[r], pc[r]) - FencesBefore(r) \in {0, 1}
      BY <1>0, <1>2 DEF ValueTypes, InRounds, FencesBefore
    <2>6. /\ fences[r] \in Nat /\ passed[r] \in Nat /\ committed[r] \in Nat
          /\ FencesBefore(r) \in Nat
      <3>1. pc[r] \in Nat \ {0}
        BY <1>0, <1>2 DEF ValueTypes
      <3> QED
        BY <1>0, <1>2, <3>1, BeforeNext DEF Fences, Types, ValueTypes, FencesBefore
    <2>7. CASE inside[r]
      <3>1. /\ fences[r] = Len(answers[map[r]]) + 1
            /\ passed[t] = Len(answers[map[t]])
        BY <1>1, <2>4, <2>7 DEF Fencing
      <3>2. /\ pc[r] \in DOMAIN program[r] /\ program[r][pc[r]].op = "PMIx_Fence"
            /\ fences[r] = FencesBefore(r) + 1
        BY <2>4, <2>7 DEF Progress
      <3>3. committed[r] = FencesBefore(r) + 1
        BY <1>0, <1>2, <2>4, <3>2 DEF ValueTypes, InRounds, FencesBefore
      <3> QED
        BY <1>4, <2>1, <3>1, <3>2, <3>3
    <2>8. CASE ~inside[r]
      <3>1. fences[r] = FencesBefore(r) /\ passed[r] = fences[r]
        BY <1>1, <2>2, <2>4, <2>8 DEF Progress
      <3> QED
        BY <1>4, <2>1, <2>3, <2>4, <2>5, <2>6, <3>1
    <2> QED
      BY <2>7, <2>8
  <1> QED
    BY <1>3, <1>4

\* A call that returns moves its program on by one position.
LEMMA CallReturns ==
  ASSUME ValueTypes, NEW t \in Tasks, NEW op,
         pc[t] \in DOMAIN program[t], program[t][pc[t]].op = op
  PROVE  /\ pc[t] \in Nat \ {0}
         /\ pc[t] + 1 \in 1 .. Len(program[t]) + 1
         /\ \A o : Before(program[t], o, pc[t] + 1)
                     = Before(program[t], o, pc[t]) + (IF op = o THEN 1 ELSE 0)
         /\ PutAndCommitted(program[t], pc[t] + 1)
              = IF op = "PMIx_Commit" THEN Before(program[t], "PMIx_Put", pc[t])
                                      ELSE PutAndCommitted(program[t], pc[t])
  <1>1. /\ Len(program[t]) \in Nat /\ DOMAIN program[t] = 1 .. Len(program[t])
    BY DEF ValueTypes, InRounds
  <1>2. pc[t] \in Nat \ {0} /\ pc[t] + 1 \in 1 .. Len(program[t]) + 1
    BY <1>1
  <1> QED
    BY <1>2, BeforeNext, CommittedNext

\* A step of one task outside the fence, by which a call returns or the task ends.
LEMMA ClientValues ==
  ASSUME Values, NEW t \in Tasks, Client(t) \/ Kill(t), ~TaskFence(t)
  PROVE  Values'
  <1>0. Fences /\ ValueTypes /\ Carried /\ GetReturnsPut /\ \A x \in Tasks : Progress(x)
    BY DEF Values
  <1>1. /\ program' = program
        /\ UNCHANGED <<inside, fences, passed, upcall, store, calls, answers, gathers, blob>>
    BY DEF Client, Kill, TaskPreinit, TaskCall, TaskFails, TaskPut, TaskCommit, unsetenv_glob,
           unsetenv_glob_entry, unsetenv_glob_end, TaskAbort, TaskGet, Exit, serverVars,
           exchangeVars
  <1>2. \/ UNCHANGED <<pc, puts, committed>>
        \/ \E op : /\ At(t, op) /\ op # "PMIx_Fence"
                   /\ pc' = [pc EXCEPT ![t] = @ + 1]
                   /\ puts' = IF op = "PMIx_Put" THEN [puts EXCEPT ![t] = @ + 1] ELSE puts
                   /\ committed' = IF op = "PMIx_Commit" THEN [committed EXCEPT ![t] = puts[t]]
                                                        ELSE committed
    <2>1. CASE TaskPreinit(t) \/ TaskCall(t) \/ unsetenv_glob_end(t) \/ TaskAbort(t) \/ TaskGet(t)
      <3>1. puts' = puts /\ committed' = committed
        BY <2>1 DEF TaskPreinit, TaskCall, unsetenv_glob_end, TaskAbort, TaskGet
      <3>2. pc' = pc \/ pc' = [pc EXCEPT ![t] = @ + 1]
        BY <2>1 DEF TaskPreinit, TaskCall, unsetenv_glob_end, TaskAbort, TaskGet, Returns, Fails
      <3>3. \E op \in {"preinit", "PMIx_Init", "PMIx_Get info", "PMIx_Notify_event",
                       "PMIx_Finalize", "unsetenv_glob", "PMIx_Abort", "PMIx_Get"} : At(t, op)
        BY <2>1 DEF TaskPreinit, TaskCall, unsetenv_glob_end, TaskAbort, TaskGet
      <3> QED
        BY <3>1, <3>2, <3>3
    <2>2. CASE TaskPut(t)
      BY <2>2 DEF TaskPut, Returns
    <2>3. CASE TaskCommit(t)
      BY <2>3 DEF TaskCommit, Returns
    <2>4. CASE Exit(t) \/ Kill(t) \/ TaskFails(t) \/ unsetenv_glob(t) \/ unsetenv_glob_entry(t)
      BY <2>4 DEF Exit, Kill, TaskFails, unsetenv_glob, unsetenv_glob_entry, Fails
    <2> QED
      BY <2>1, <2>2, <2>3, <2>4 DEF Client
  <1>3. \A x \in Tasks : status'[x] = "running" => status[x] = "running"
    <2>1. \/ status' = status
          \/ \E st \in {"failed", "killed", "done"} : status' = [status EXCEPT ![t] = st]
      BY DEF Client, Kill, TaskPreinit, TaskCall, TaskFails, TaskPut, TaskCommit, unsetenv_glob,
             unsetenv_glob_entry, unsetenv_glob_end, TaskAbort, TaskGet, Exit, Returns, Fails
    <2>2. status \in [Tasks -> TaskStatuses]
      BY <1>0 DEF Fences, Types
    <2> QED
      BY <2>1, <2>2
  <1>4. Fences'
    BY <1>0, ClientFences
  <1>5. Carried'
    BY <1>0, <1>1 DEF Carried
  <1>6. ASSUME NEW x \in Tasks, pc'[x] = pc[x], puts'[x] = puts[x], committed'[x] = committed[x]
        PROVE  Progress(x)'
    BY <1>0, <1>1, <1>3, <1>6 DEF Progress, FencesBefore, Local
  <1>7. ASSUME UNCHANGED <<pc, puts, committed>>
        PROVE  /\ \A x \in Tasks : Progress(x)'
               /\ \A x \in Tasks : pc'[x] \in 1 .. Len(program[x]) + 1
               /\ pc' \in [Tasks -> Nat] /\ puts' \in [Tasks -> Nat]
               /\ committed' \in [Tasks -> Nat]
    BY <1>0, <1>6, <1>7 DEF ValueTypes
  <1>8. ASSUME NEW op, At(t, op), op # "PMIx_Fence",
               pc' = [pc EXCEPT ![t] = @ + 1],
               puts' = IF op = "PMIx_Put" THEN [puts EXCEPT ![t] = @ + 1] ELSE puts,
               committed' = IF op = "PMIx_Commit" THEN [committed EXCEPT ![t] = puts[t]]
                                                  ELSE committed
        PROVE  /\ \A x \in Tasks : Progress(x)'
               /\ \A x \in Tasks : pc'[x] \in 1 .. Len(program[x]) + 1
               /\ pc' \in [Tasks -> Nat] /\ puts' \in [Tasks -> Nat]
               /\ committed' \in [Tasks -> Nat]
    <2>1. /\ pc' \in [Tasks -> Nat] /\ puts' \in [Tasks -> Nat] /\ committed' \in [Tasks -> Nat]
          /\ pc'[t] = pc[t] + 1
          /\ puts'[t] = puts[t] + (IF op = "PMIx_Put" THEN 1 ELSE 0)
          /\ committed'[t] = IF op = "PMIx_Commit" THEN puts[t] ELSE committed[t]
          /\ \A x \in Tasks : x # t => /\ pc'[x] = pc[x] /\ puts'[x] = puts[x]
                                       /\ committed'[x] = committed[x]
      BY <1>0, <1>8 DEF ValueTypes
    <2>2. /\ pc[t] + 1 \in 1 .. Len(program[t]) + 1
          /\ \A o : Before(program[t], o, pc[t] + 1)
                      = Before(program[t], o, pc[t]) + (IF op = o THEN 1 ELSE 0)
          /\ PutAndCommitted(program[t], pc[t] + 1)
               = IF op = "PMIx_Commit" THEN Before(program[t], "PMIx_Put", pc[t])
                                       ELSE PutAndCommitted(program[t], pc[t])
      BY <1>0, <1>8, CallReturns DEF At
    <2>3. ~inside[t]
      BY <1>8 DEF At
    <2>4. Progress(t)'
      <3>1. puts'[t] = Before(program'[t], "PMIx_Put", pc'[t])
        BY <1>0, <1>1, <2>1, <2>2 DEF Progress
      <3>2. committed'[t] = PutAndCommitted(program'[t], pc'[t])
        BY <1>0, <1>1, <2>1, <2>2 DEF Progress
      <3>3. FencesBefore(t)' = FencesBefore(t)
        <4>1. FencesBefore(t) \in Nat
          BY <1>0, BeforeNext DEF FencesBefore, ValueTypes
        <4>2. Before(program[t], "PMIx_Fence", pc[t] + 1) = FencesBefore(t) + 0
          BY <1>8, <2>2 DEF FencesBefore
        <4> QED
          BY <1>1, <2>1, <4>1, <4>2 DEF FencesBefore
      <3>4. \/ fences[t] = FencesBefore(t) /\ passed[t] = fences[t]
            \/ \A r \in Local(map[t]) : status[r] # "running"
        BY <1>0, <2>3 DEF Progress
      <3> QED
        BY <1>1, <1>3, <2>3, <3>1, <3>2, <3>3, <3>4 DEF Progress, Local
    <2>5. \A x \in Tasks : Progress(x)'
      BY <1>6, <2>1, <2>4
    <2>6. \A x \in Tasks : pc'[x] \in 1 .. Len(program[x]) + 1
      BY <1>0, <2>1, <2>2 DEF ValueTypes
    <2> QED
      BY <2>1, <2>5, <2>6
  <1>9. DOMAIN got' = Tasks /\ GetReturnsPut'
    <2>1. CASE got' = got
      BY <1>0, <2>1 DEF ValueTypes, GetReturnsPut
    <2>2. CASE got' # got
      <3> DEFINE r == ThisCall(t).rank
                 g == [rank |-> r, val |-> Known(map[t], r), fence |-> passed[t]]
      <3>1. TaskGet(t) /\ got' = [got EXCEPT ![t] = @ \cup {g}]
        BY <2>2 DEF Client, Kill, TaskPreinit, TaskCall, TaskFails, TaskPut, TaskCommit,
                    unsetenv_glob, unsetenv_glob_entry, unsetenv_glob_end, TaskAbort, TaskGet,
                    Exit
      <3>2. \/ g.val = g.fence
            \/ map[g.rank] = map[t] /\ g.val = g.fence + 1
        BY <3>1, GotValue
      <3> HIDE DEF g
      <3>3. \A x \in Tasks : \A h \in got'[x] : h \in got[x] \/ (x = t /\ h = g)
        BY <1>0, <3>1 DEF ValueTypes
      <3> QED
        BY <1>0, <3>1, <3>2, <3>3 DEF ValueTypes, GetReturnsPut
    <2> QED
      BY <2>1, <2>2
  <1>10. /\ \A x \in Tasks : Progress(x)'
         /\ \A x \in Tasks : pc'[x] \in 1 .. Len(program[x]) + 1
         /\ pc' \in [Tasks -> Nat] /\ puts' \in [Tasks -> Nat] /\ committed' \in [Tasks -> Nat]
    BY <1>1, <1>2, <1>7, <1>8
  <1>11. ValueTypes'
    BY <1>0, <1>1, <1>9, <1>10 DEF ValueTypes
  <1> QED
    BY <1>4, <1>5, <1>9, <1>10, <1>11 DEF Values

\* A task calls a fence: all that its program puts before it is committed.
LEMMA CallValues ==
  ASSUME Values, NEW t \in Tasks, TaskFence(t)
  PROVE  Values'
  <1>0. Fences /\ ValueTypes /\ Carried /\ GetReturnsPut /\ \A x \in Tasks : Progress(x)
    BY DEF Values
  <1>1. /\ status[t] = "running" /\ ~inside[t] /\ At(t, "PMIx_Fence")
        /\ inside' = [inside EXCEPT ![t] = TRUE]
        /\ fences' = [fences EXCEPT ![t] = @ + 1]
        /\ UNCHANGED <<program, pc, status, puts, committed, passed, got, upcall, store,
                       calls, answers, gathers, blob>>
    BY DEF TaskFence, At, serverVars, exchangeVars
  <1>2. Fences'
    BY <1>0, CallFences
  <1>3. ValueTypes' /\ Carried' /\ GetReturnsPut'
    BY <1>0, <1>1 DEF ValueTypes, Carried, GetReturnsPut
  <1>4. ASSUME NEW x \in Tasks
        PROVE  Progress(x)'
    <2>1. Progress(x) /\ FencesBefore(x)' = FencesBefore(x)
      BY <1>0, <1>1 DEF FencesBefore
    <2>2. CASE x = t
      <3>1. inside'[t] /\ fences'[t] = fences[t] + 1
        BY <1>0, <1>1 DEF Fences, Types
      <3>2. fences[t] = FencesBefore(t)
        BY <1>1, <2>1, <2>2 DEF Progress, Local
      <3>3. pc[t] \in DOMAIN program[t] /\ program[t][pc[t]].op = "PMIx_Fence"
        BY <1>1 DEF At
      <3> QED
        BY <1>1, <2>1, <2>2, <3>1, <3>2, <3>3 DEF Progress
    <2>3. CASE x # t
      <3>1. inside'[x] = inside[x] /\ fences'[x] = fences[x]
        BY <1>0, <1>1, <2>3 DEF Fences, Types
      <3> QED
        BY <1>1, <2>1, <3>1 DEF Progress, Local
    <2> QED
      BY <2>2, <2>3
  <1> QED
    BY <1>2, <1>3, <1>4 DEF Values

\* After an error no task of the shell runs, and nothing was carried.
LEMMA RefuseValues ==
  ASSUME Values, Fences', NEW s \in Shells, NEW rc, rc # "PMIX_SUCCESS", Release(s, rc),
         \A t \in Tasks : map[t] = s => inside[t],
         \A x \in Shells : upcall'[x] # <<>> => upcall'[x] = upcall[x],
         UNCHANGED <<program, store, calls, gathers, blob>>
  PROVE  Values'
  <1>0. Fences /\ ValueTypes /\ Carried /\ GetReturnsPut /\ \A x \in Tasks : Progress(x)
    BY DEF Values
  <1>1. UNCHANGED <<pc, puts, committed, fences, passed, got>>
    BY DEF Release
  <1>2. ValueTypes' /\ GetReturnsPut'
    BY <1>0, <1>1 DEF ValueTypes, GetReturnsPut
  <1>3. Carried'
    BY <1>0, <1>1 DEF Carried, Local, collect
  <1>4. /\ \A t \in Tasks : map[t] # s => inside'[t] = inside[t] /\ status'[t] = status[t]
        /\ \A t \in Tasks : map[t] = s => ~inside'[t] /\ status'[t] # "running"
    BY <1>0, Releases DEF Fences
  <1>5. ASSUME NEW t \in Tasks
        PROVE  Progress(t)'
    <2>1. Progress(t) /\ FencesBefore(t)' = FencesBefore(t)
      BY <1>0, <1>1 DEF FencesBefore
    <2>2. CASE map[t] = s
      <3>1. ~inside'[t] /\ \A r \in Local(map[t]) : status'[r] # "running"
        BY <1>4, <2>2 DEF Local
      <3> QED
        BY <1>1, <2>1, <3>1 DEF Progress
    <2>3. CASE map[t] # s
      <3>1. inside'[t] = inside[t] /\ \A r \in Local(map[t]) : status'[r] = status[r]
        BY <1>4, <2>3 DEF Local
      <3> QED
        BY <1>1, <2>1, <3>1 DEF Progress
    <2> QED
      BY <2>2, <2>3
  <1> QED
    BY <1>2, <1>3, <1>5 DEF Values

\* The nth upcall of a shell carries the nth values of its tasks.
LEMMA UpcallValues ==
  ASSUME Values, NEW s \in Shells, ServerFence(s), errors' = errors
  PROVE  Values'
  <1>0. Fences /\ ValueTypes /\ Carried /\ GetReturnsPut /\ \A x \in Tasks : Progress(x)
    BY DEF Values
  <1> DEFINE t0 == CHOOSE t \in Local(s) : TRUE
             args == ThisCall(t0)
             call == [procs |-> args.procs,
                      info |-> [i \in DOMAIN args.info |-> [args.info[i] EXCEPT !.reqd = FALSE]],
                      data |-> [t \in Local(s) |-> committed[t]]]
  <1>1. /\ \A t \in Local(s) : inside[t] /\ status[t] = "running"
        /\ Len(calls[s]) = Len(answers[s])
        /\ upcall' = [upcall EXCEPT ![s] = <<call>>]
        /\ UNCHANGED <<program, pc, status, puts, committed, inside, fences, passed, got, store,
                       calls, answers, gathers, blob>>
    <2>1. ~Fault
      BY <1>0 DEF Fault, Fences, Types
    <2> QED
      BY <2>1 DEF ServerFence, taskVars, exchangeVars
  <1>2. Fences'
    BY <1>0, ServerFences
  <1>3. ValueTypes' /\ GetReturnsPut' /\ \A x \in Tasks : Progress(x)'
    <2>1. ValueTypes'
      BY <1>0, <1>1 DEF ValueTypes
    <2>2. GetReturnsPut'
      BY <1>0, <1>1 DEF GetReturnsPut
    <2>3. \A x \in Tasks : Progress(x)'
      BY <1>0, <1>1 DEF Progress, FencesBefore, Local
    <2> QED
      BY <2>1, <2>2, <2>3
  <1>4. ASSUME NEW t \in Local(s)
        PROVE  /\ t \in Tasks /\ inside[t]
               /\ pc[t] \in DOMAIN program[t] /\ program[t][pc[t]].op = "PMIx_Fence"
               /\ committed[t] = Len(calls[s]) + 1
    <2>1. t \in Tasks /\ map[t] = s /\ inside[t]
      BY <1>1 DEF Local
    <2>2. /\ pc[t] \in DOMAIN program[t] /\ program[t][pc[t]].op = "PMIx_Fence"
          /\ fences[t] = FencesBefore(t) + 1
          /\ committed[t] = PutAndCommitted(program[t], pc[t])
      BY <1>0, <2>1 DEF Progress
    <2>3. fences[t] = Len(answers[s]) + 1
      BY <1>0, <2>1 DEF Fences, Fencing
    <2>4. committed[t] = FencesBefore(t) + 1
      BY <1>0, <2>1, <2>2 DEF ValueTypes, InRounds, FencesBefore
    <2> QED
      BY <1>1, <2>1, <2>2, <2>3, <2>4
  <1>5. t0 \in Local(s)
    <2>1. \E t \in Local(s) : TRUE
      BY DEF Shells, Range, Local, Tasks
    <2> QED
      BY <2>1
  <1> HIDE DEF t0
  <1>6. collect(call)
    <2> DEFINE info == args.info
               T == [key : STRING, type : STRING, val : Int, reqd : BOOLEAN]
    <2>1. /\ info \in Seq(T)
          /\ \E j \in DOMAIN info : info[j].key = "pmix.collect" /\ info[j].val = 1
      BY <1>0, <1>4, <1>5 DEF ValueTypes, InRounds, ThisCall
    <2>2. call.info = [i \in DOMAIN info |-> [info[i] EXCEPT !.reqd = FALSE]]
      OBVIOUS
    <2> HIDE DEF info, call
    <2>3. PICK j \in DOMAIN info : info[j].key = "pmix.collect" /\ info[j].val = 1
      BY <2>1
    <2>4. info[j] \in T
      <3> HIDE DEF T
      <3> QED
        BY <2>1, <2>3, ElementOf
    <2>5. j \in DOMAIN call.info /\ call.info[j] = [info[j] EXCEPT !.reqd = FALSE]
      BY <2>2, <2>3
    <2>6. call.info[j].key = "pmix.collect" /\ call.info[j].val = 1
      BY <2>3, <2>4, <2>5
    <2> QED
      BY <2>5, <2>6 DEF collect
  <1>7. \A t \in Local(s) : call.data[t] = Len(calls[s]) + 1
    BY <1>4
  <1> HIDE DEF call
  <1>8. upcall'[s][1] = call /\ \A x \in Shells : x # s => upcall'[x] = upcall[x]
    BY <1>0, <1>1 DEF Fences, Types
  <1>9. Carried'
    <2>1. \A x \in Shells :
             upcall'[x] # <<>> => /\ collect(upcall'[x][1])
                                  /\ \A t \in Local(x) : upcall'[x][1].data[t] = Len(calls[x]) + 1
      BY <1>0, <1>6, <1>7, <1>8 DEF Carried
    <2> QED
      BY <1>0, <1>1, <2>1 DEF Carried, Local, collect
  <1> QED
    BY <1>2, <1>3, <1>9 DEF Values

\* The server of a shell makes its nth upcall, or cannot.
LEMMA ServerValues ==
  ASSUME Values, NEW s \in Shells, ServerFence(s)
  PROVE  Values'
  <1>1. CASE errors' = errors
    BY <1>1, UpcallValues
  <1>2. CASE errors' # errors
    <2>1. /\ Release(s, "PMIX_ERROR")
          /\ \A t \in Tasks : map[t] = s => inside[t]
          /\ UNCHANGED <<program, upcall, store, calls, gathers, blob>>
      BY <1>2 DEF ServerFence, exchangeVars, Local
    <2>2. Fences'
      BY ServerFences DEF Values
    <2> QED
      BY <2>1, <2>2, RefuseValues
  <1> QED
    BY <1>1, <1>2

\* A fence that is refused leaves no task of its shell running; one that is not
\* contributes what the upcall carried.
LEMMA EnterValues ==
  ASSUME Values, NEW s \in Shells, fence_shell_cb(s)
  PROVE  Values'
  <1> DEFINE call == upcall[s][1]
             rc == Checked(call)
  <1>0. Fences /\ ValueTypes /\ Carried /\ GetReturnsPut /\ \A x \in Tasks : Progress(x)
    BY DEF Values
  <1>1. /\ upcall[s] # <<>> /\ upcall' = [upcall EXCEPT ![s] = <<>>]
        /\ UNCHANGED <<program, store, gathers>>
        /\ \/ /\ UNCHANGED <<calls, blob>>
              /\ UNCHANGED <<pc, status, puts, committed, inside, fences, passed, got>>
           \/ \E rcode : /\ rcode # "PMIX_SUCCESS" /\ Release(s, rcode)
                         /\ UNCHANGED <<calls, blob>>
           \/ /\ calls' = [calls EXCEPT ![s] = Append(@, collect(call))]
              /\ blob' = [blob EXCEPT ![s] = Append(@, call.data)]
              /\ UNCHANGED <<pc, status, puts, committed, inside, fences, passed, got>>
    BY DEF fence_shell_cb, Enter, taskVars
  <1> HIDE DEF rc
  <1>2. Fences'
    BY <1>0, EnterFences
  <1>3. /\ upcall'[s] = <<>>
        /\ \A x \in Shells : x # s => upcall'[x] = upcall[x]
    BY <1>0, <1>1 DEF Fences, Types
  <1>4. CASE /\ UNCHANGED <<calls, blob>>
             /\ UNCHANGED <<pc, status, puts, committed, inside, fences, passed, got>>
    <2>1. ValueTypes'
      BY <1>0, <1>1, <1>4 DEF ValueTypes
    <2>2. GetReturnsPut' /\ \A t \in Tasks : Progress(t)'
      BY <1>0, <1>1, <1>4 DEF GetReturnsPut, Progress, FencesBefore, Local
    <2>3. Carried'
      BY <1>0, <1>1, <1>3, <1>4 DEF Carried, Local, collect
    <2> QED
      BY <1>2, <2>1, <2>2, <2>3 DEF Values
  <1>5. ASSUME NEW rcode, rcode # "PMIX_SUCCESS", Release(s, rcode), UNCHANGED <<calls, blob>>
        PROVE  Values'
    <2>1. \A t \in Tasks : map[t] = s => inside[t]
      BY <1>0, <1>1 DEF Fences, Fencing, Waiting
    <2>2. \A x \in Shells : upcall'[x] # <<>> => upcall'[x] = upcall[x]
      BY <1>3
    <2> QED
      BY <1>1, <1>2, <1>5, <2>1, <2>2, RefuseValues
  <1>6. CASE /\ calls' = [calls EXCEPT ![s] = Append(@, collect(call))]
             /\ blob' = [blob EXCEPT ![s] = Append(@, call.data)]
             /\ UNCHANGED <<pc, status, puts, committed, inside, fences, passed, got>>
    <2> DEFINE n == Len(calls[s])
    <2>1. /\ collect(call) /\ collect(call) \in BOOLEAN
          /\ \A t \in Local(s) : call.data[t] = n + 1
      BY <1>0, <1>1 DEF Carried, collect
    <2> HIDE DEF call
    <2>2. /\ calls[s] \in Seq(BOOLEAN) /\ IsSeq(blob[s]) /\ Len(blob[s]) = n /\ n \in Nat
          /\ DOMAIN calls[s] = 1 .. n
      BY <1>0, Lengths DEF Fences, Types, ValueTypes, Carried
    <2>3. /\ calls'[s] = Append(calls[s], collect(call))
          /\ blob'[s] = Append(blob[s], call.data)
          /\ DOMAIN blob' = Shells
          /\ \A x \in Shells : x # s => calls'[x] = calls[x] /\ blob'[x] = blob[x]
      BY <1>0, <1>6 DEF Fences, Types, ValueTypes
    <2>4. /\ DOMAIN calls'[s] = 1 .. n + 1 /\ Len(calls'[s]) = n + 1
          /\ calls'[s][n + 1] = TRUE
          /\ \A i \in 1 .. n : calls'[s][i] = calls[s][i]
      <3>1. calls'[s] = Append(calls[s], TRUE)
        BY <2>1, <2>3
      <3>2. calls[s] \in Seq(BOOLEAN)
        BY <2>2
      <3> DEFINE a == Append(calls[s], TRUE)
      <3>3. /\ Len(a) = n + 1 /\ DOMAIN a = 1 .. n + 1 /\ a[n + 1] = TRUE
            /\ \A i \in 1 .. n : a[i] = calls[s][i]
        BY ONLY <3>2, AppendTrue, Zenon
      <3> HIDE DEF a, n
      <3> QED
        BY <3>1, <3>3, Zenon DEF a
    <2>5. /\ IsSeq(blob'[s]) /\ Len(blob'[s]) = n + 1 /\ blob'[s][n + 1] = call.data
          /\ \A i \in 1 .. n : blob'[s][i] = blob[s][i]
      BY <2>2, <2>3, AppendSeq
    <2>6. ValueTypes'
      <3>1. \A x \in Shells : IsSeq(blob'[x])
        BY <1>0, <2>3, <2>5 DEF ValueTypes
      <3> QED
        BY <1>0, <1>1, <1>6, <2>3, <3>1 DEF ValueTypes
    <2>7. GetReturnsPut' /\ \A t \in Tasks : Progress(t)'
      BY <1>0, <1>1, <1>6 DEF GetReturnsPut, Progress, FencesBefore, Local
    <2>8. Carried'
      <3>1. \A x \in Shells : upcall'[x] # <<>> => /\ collect(upcall'[x][1])
                  /\ \A t \in Local(x) : upcall'[x][1].data[t] = Len(calls'[x]) + 1
        <4> SUFFICES ASSUME NEW x \in Shells, upcall'[x] # <<>>
                     PROVE  /\ collect(upcall'[x][1])
                            /\ \A t \in Local(x) : upcall'[x][1].data[t] = Len(calls'[x]) + 1
          OBVIOUS
        <4>1. x # s /\ upcall'[x] = upcall[x] /\ calls'[x] = calls[x]
          BY <1>3, <2>3
        <4>2. /\ collect(upcall[x][1])
              /\ \A t \in Local(x) : upcall[x][1].data[t] = Len(calls[x]) + 1
          BY <1>0, <4>1 DEF Carried
        <4> QED
          BY <4>1, <4>2
      <3>2. \A x \in Shells : Len(blob'[x]) = Len(calls'[x])
        BY <1>0, <2>3, <2>4, <2>5 DEF Carried
      <3>3. \A x \in Shells : \A i \in DOMAIN calls'[x] :
                  calls'[x][i] /\ \A t \in Local(x) : blob'[x][i][t] = i
        <4>1. ASSUME NEW i \in DOMAIN calls'[s]
              PROVE  calls'[s][i] /\ \A t \in Local(s) : blob'[s][i][t] = i
          <5>1. CASE i \in 1 .. n
            BY <1>0, <2>2, <2>4, <2>5, <5>1 DEF Carried
          <5>2. CASE i = n + 1
            BY <2>1, <2>4, <2>5, <5>2
          <5>3. i \in 1 .. n \/ i = n + 1
            BY <2>2, <2>4
          <5> QED
            BY <5>1, <5>2, <5>3
        <4>2. ASSUME NEW x \in Shells, x # s, NEW i \in DOMAIN calls'[x]
              PROVE  calls'[x][i] /\ \A t \in Local(x) : blob'[x][i][t] = i
          <5>1. calls'[x] = calls[x] /\ blob'[x] = blob[x]
            BY <2>3, <4>2
          <5>2. calls[x][i] /\ \A t \in Local(x) : blob[x][i][t] = i
            BY <1>0, <4>2, <5>1 DEF Carried
          <5> QED
            BY <5>1, <5>2
        <4> QED
          BY <4>1, <4>2
      <3> QED
        BY <1>0, <1>1, <1>6, <3>1, <3>2, <3>3 DEF Carried, Local, collect
    <2> QED
      BY <1>2, <2>6, <2>7, <2>8 DEF Values
  <1> QED
    BY <1>1, <1>4, <1>6, <1>5

\* The nth gather holds the nth contribution of every shell: all of them collect.
LEMMA GatherValues ==
  ASSUME Values, MakeGather
  PROVE  Values'
  <1>0. Fences /\ ValueTypes /\ Carried /\ GetReturnsPut /\ \A x \in Tasks : Progress(x)
    BY DEF Values
  <1>1. PICK g : AG!Proper(calls, g) /\ gathers' = Append(gathers, g)
    BY DEF MakeGather
  <1>2. UNCHANGED <<program, pc, status, puts, committed, inside, fences, passed, got, upcall,
                    store, calls, answers, blob>>
    BY DEF MakeGather, taskVars
  <1>3. Fences'
    BY <1>0, GatherFences
  <1>4. ValueTypes' /\ GetReturnsPut' /\ \A x \in Tasks : Progress(x)'
    <2>1. ValueTypes'
      BY <1>0, <1>2 DEF ValueTypes
    <2>2. GetReturnsPut'
      BY <1>0, <1>2 DEF GetReturnsPut
    <2>3. \A x \in Tasks : Progress(x)'
      BY <1>0, <1>2 DEF Progress, FencesBefore, Local
    <2> QED
      BY <2>1, <2>2, <2>3
  <1>5. /\ Len(gathers) \in Nat /\ DOMAIN gathers = 1 .. Len(gathers)
        /\ DOMAIN gathers' = 1 .. Len(gathers) + 1
        /\ gathers'[Len(gathers) + 1] = g
        /\ \A i \in DOMAIN gathers : gathers'[i] = gathers[i]
    BY <1>0, <1>1, AppendSeq DEF Fences, Types
  <1> DEFINE n == Len(gathers) + 1
  <1>6. \A s \in Shells : g.calls[s] = n
    <2>1. n \in DOMAIN gathers' /\ gathers'[n] = g
      BY <1>5
    <2> QED
      BY <1>3, <2>1 DEF Fences, Numbered
  <1>7. Range(g.data) = {<<s, n>> : s \in Shells}
    <2>1. Range(g.data) = {<<s, g.calls[s]>> : s \in {t \in Shells : calls[t][g.calls[t]]}}
      BY <1>1 DEF AG!Proper, AG!ToSet, Range
    <2>2. \A s \in Shells : g.calls[s] \in DOMAIN calls[s]
      BY <1>1 DEF AG!Proper, AG!Open
    <2>3. \A s \in Shells : calls[s][g.calls[s]]
      BY <1>0, <2>2 DEF Carried
    <2>4. {t \in Shells : calls[t][g.calls[t]]} = Shells
      BY <2>3
    <2>5. Range(g.data) = {<<s, g.calls[s]>> : s \in Shells}
      BY <2>1, <2>4
    <2> HIDE DEF n
    <2> QED
      BY <1>6, <2>5
  <1>8. \A i \in DOMAIN gathers' : Range(gathers'[i].data) = {<<s, i>> : s \in Shells}
    <2>1. \A i \in DOMAIN gathers' : i \in DOMAIN gathers \/ i = n
      BY <1>5
    <2> HIDE DEF n
    <2>2. gathers'[n] = g
      BY <1>5 DEF n
    <2> QED
      BY <1>0, <1>5, <1>7, <2>1, <2>2 DEF Carried
  <1>9. Carried'
    BY <1>0, <1>2, <1>8 DEF Carried, Local, collect
  <1> QED
    BY <1>3, <1>4, <1>9 DEF Values

\* What the kth gather holds of every task is its kth value.
LEMMA GatheredValues ==
  ASSUME Fences, Carried, NEW k \in DOMAIN gathers, NEW r \in Tasks
  PROVE  Contents(gathers[k])[r] = k
  <1> DEFINE g == gathers[k]
             C == {d \in Range(g.data) : d[1] = map[r]}
             B == {blob[c[1]][c[2]][r] : c \in C}
  <1>1. /\ map[r] \in Shells /\ r \in Local(map[r])
        /\ k \in Nat /\ k \in DOMAIN calls[map[r]]
    <2>1. /\ Len(gathers) \in Nat /\ DOMAIN gathers = 1 .. Len(gathers)
          /\ map[r] \in Shells
          /\ Len(calls[map[r]]) \in Nat /\ DOMAIN calls[map[r]] = 1 .. Len(calls[map[r]])
      BY Lengths, TaskShell DEF Fences
    <2>2. Len(gathers) <= Len(calls[map[r]])
      BY <2>1 DEF Fences, Numbered
    <2> QED
      BY <2>1, <2>2 DEF Local
  <1>2. blob[map[r]][k][r] = k
    BY <1>1 DEF Carried
  <1>3. Range(g.data) = {<<s, k>> : s \in Shells}
    BY DEF Carried
  <1> HIDE DEF g
  <1>4. C = {<<map[r], k>>}
    <2>1. <<map[r], k>> \in C
      BY <1>1, <1>3
    <2>2. ASSUME NEW d \in C
          PROVE  d = <<map[r], k>>
      <3>1. PICK s \in Shells : d = <<s, k>>
        BY <1>3
      <3>2. d[1] = map[r]
        OBVIOUS
      <3> QED
        BY <3>1, <3>2
    <2> QED
      BY <2>1, <2>2
  <1> HIDE DEF C
  <1>5. B = {k}
    BY <1>2, <1>4
  <1>6. Contents(g)[r] = Max({0} \cup B)
    BY DEF Contents, C
  <1> HIDE DEF B
  <1> QED
    BY <1>1, <1>5, <1>6, MaxOfOne DEF g
\* The server of shell s releases its tasks: each goes on with the next call of
\* its program, or none of them runs any more.
LEMMA ReleasedProgress ==
  ASSUME Values, NEW s \in Shells, NEW rc \in {"PMIX_SUCCESS", "PMIX_ERROR"}, Release(s, rc),
         program' = program,
         \A t \in Tasks : map[t] = s => inside[t]
  PROVE  /\ pc' \in [Tasks -> Nat]
         /\ \A t \in Tasks : pc'[t] \in 1 .. Len(program[t]) + 1
         /\ \A t \in Tasks : Progress(t)'
  <1>0. Types /\ ValueTypes /\ \A t \in Tasks : Progress(t)
    BY DEF Values, Fences
  <1>1. /\ fences' = fences
        /\ \A t \in Tasks :
              /\ map[t] # s => /\ inside'[t] = inside[t] /\ passed'[t] = passed[t]
                               /\ status'[t] = status[t]
              /\ map[t] = s => ~inside'[t]
              /\ map[t] = s /\ rc = "PMIX_SUCCESS" => passed'[t] = fences[t]
              /\ map[t] = s /\ rc = "PMIX_ERROR" => status'[t] # "running"
    BY <1>0, Releases
  <1>2. UNCHANGED <<puts, committed>>
    BY DEF Release
  <1>3. /\ pc' \in [Tasks -> Nat]
        /\ \A t \in Tasks :
              pc'[t] = IF map[t] = s /\ rc = "PMIX_SUCCESS" THEN pc[t] + 1 ELSE pc[t]
    <2>1. CASE rc = "PMIX_SUCCESS"
      <3>1. pc' = [t \in Tasks |-> IF map[t] = s /\ inside[t] THEN pc[t] + 1 ELSE pc[t]]
        BY <2>1 DEF Release
      <3>2. pc \in [Tasks -> Nat]
        BY <1>0 DEF ValueTypes
      <3>3. \A t \in Tasks : pc'[t] = IF map[t] = s THEN pc[t] + 1 ELSE pc[t]
        BY <3>1
      <3>4. pc' \in [Tasks -> Nat]
        BY <3>1, <3>2
      <3> QED
        BY <2>1, <3>3, <3>4
    <2>2. CASE rc = "PMIX_ERROR"
      <3>1. pc' = pc
        BY <2>2 DEF Release
      <3> QED
        BY <1>0, <2>2, <3>1 DEF ValueTypes
    <2> QED
      BY <2>1, <2>2
  <1>4. ASSUME NEW t \in Tasks
        PROVE  pc'[t] \in 1 .. Len(program[t]) + 1 /\ Progress(t)'
    <2>1. Progress(t)
      BY <1>0
    <2>2. CASE map[t] = s /\ rc = "PMIX_SUCCESS"
      <3>1. /\ inside[t] /\ pc[t] \in DOMAIN program[t]
            /\ program[t][pc[t]].op = "PMIx_Fence" /\ fences[t] = FencesBefore(t) + 1
        BY <2>1, <2>2 DEF Progress
      <3>2. /\ pc[t] + 1 \in 1 .. Len(program[t]) + 1
            /\ \A o : Before(program[t], o, pc[t] + 1)
                        = Before(program[t], o, pc[t]) + (IF "PMIx_Fence" = o THEN 1 ELSE 0)
            /\ PutAndCommitted(program[t], pc[t] + 1) = PutAndCommitted(program[t], pc[t])
        BY <1>0, <3>1, CallReturns
      <3>3. Before(program[t], "PMIx_Put", pc[t]) \in Nat
        BY <1>0, BeforeNext DEF ValueTypes
      <3>4. pc'[t] = pc[t] + 1 /\ passed'[t] = fences[t] /\ ~inside'[t]
        BY <1>1, <1>3, <2>2
      <3>5. puts'[t] = Before(program'[t], "PMIx_Put", pc'[t])
        BY <1>2, <2>1, <3>2, <3>3, <3>4 DEF Progress
      <3>6. committed'[t] = PutAndCommitted(program'[t], pc'[t])
        BY <1>2, <2>1, <3>2, <3>4 DEF Progress
      <3>7. fences'[t] = FencesBefore(t)'
        BY <1>1, <3>1, <3>2, <3>4 DEF FencesBefore
      <3> QED
        BY <1>1, <3>2, <3>4, <3>5, <3>6, <3>7 DEF Progress
    <2>3. CASE map[t] = s /\ rc = "PMIX_ERROR"
      <3>1. pc'[t] = pc[t] /\ ~inside'[t] /\ \A r \in Local(map[t]) : status'[r] # "running"
        BY <1>1, <1>3, <2>3 DEF Local
      <3> QED
        BY <1>0, <1>1, <1>2, <2>1, <3>1 DEF Progress, FencesBefore, ValueTypes
    <2>4. CASE map[t] # s
      <3>1. /\ pc'[t] = pc[t] /\ inside'[t] = inside[t] /\ passed'[t] = passed[t]
            /\ \A r \in Local(map[t]) : status'[r] = status[r]
        BY <1>1, <1>3, <2>4 DEF Local
      <3> QED
        BY <1>0, <1>1, <1>2, <2>1, <3>1 DEF Progress, FencesBefore, ValueTypes
    <2> QED
      BY <2>2, <2>3, <2>4
  <1> QED
    BY <1>3, <1>4

\* A server stores the values of the gather that answers its call, and releases
\* its tasks from the fence of that number; after an error it keeps what it has.
LEMMA ExitValues ==
  ASSUME Values, NEW s \in Shells, exchange_exit_cb(s)
  PROVE  Values'
  <1>0. Fences /\ Types /\ ValueTypes /\ Carried /\ GetReturnsPut
    BY DEF Values, Fences
  <1> DEFINE k == Len(answers[s]) + 1
  <1>1. PICK rc \in {"PMIX_SUCCESS", "PMIX_ERROR"} :
            /\ Release(s, rc)
            /\ rc = "PMIX_SUCCESS" => \E g \in Range(gathers) :
                  g.calls[s] = k /\ store' = [store EXCEPT ![s] = Stored(s, g)]
            /\ rc = "PMIX_ERROR" => store' = store
    BY DEF exchange_exit_cb
  <1>2. /\ AG!Open(calls, s, k)
        /\ UNCHANGED <<program, upcall, calls, gathers, blob>>
        /\ UNCHANGED <<puts, committed, fences, got>>
    BY <1>1 DEF exchange_exit_cb, Release
  <1>3. Fences'
    BY <1>0, ExitFences
  <1>4. /\ k \in Nat /\ k # 0
        /\ rc = "PMIX_SUCCESS" => /\ k \in DOMAIN gathers
                                  /\ store' = [store EXCEPT ![s] = Stored(s, gathers[k])]
    <2>1. Len(answers[s]) \in Nat
      BY <1>0, Lengths
    <2>2. ASSUME rc = "PMIX_SUCCESS"
          PROVE  k \in DOMAIN gathers /\ store' = [store EXCEPT ![s] = Stored(s, gathers[k])]
      <3>1. PICK g \in Range(gathers) :
               g.calls[s] = k /\ store' = [store EXCEPT ![s] = Stored(s, g)]
        BY <1>1, <2>2
      <3>2. PICK i \in DOMAIN gathers : g = gathers[i]
        BY DEF Range
      <3>3. i = k
        BY <1>0, <3>1, <3>2 DEF Fences, Numbered
      <3> QED
        BY <3>1, <3>2, <3>3
    <2> QED
      BY <2>1, <2>2
  <1>5. \A t \in Tasks : map[t] = s => inside[t] /\ fences[t] = k
    <2>1. /\ Len(calls[s]) \in Nat /\ Len(answers[s]) \in Nat
          /\ DOMAIN calls[s] = 1 .. Len(calls[s])
      BY <1>0, Lengths
    <2>2. Waiting(s)
      BY <1>2, <2>1 DEF AG!Open, Waiting
    <2> QED
      BY <1>0, <2>2 DEF Fences, Fencing
  <1> HIDE DEF k
  <1>6. /\ pc' \in [Tasks -> Nat]
        /\ \A t \in Tasks : pc'[t] \in 1 .. Len(program[t]) + 1
        /\ \A t \in Tasks : Progress(t)'
    BY <1>1, <1>2, <1>5, ReleasedProgress
  <1>7. DOMAIN store' = Shells /\ \A x \in Shells : x # s => store'[x] = store[x]
    BY <1>0, <1>1, <1>4 DEF ValueTypes
  <1>8. ValueTypes' /\ GetReturnsPut'
    <2>1. ValueTypes'
      BY <1>0, <1>1, <1>2, <1>6, <1>7 DEF ValueTypes
    <2>2. GetReturnsPut'
      BY <1>0, <1>2 DEF GetReturnsPut
    <2> QED
      BY <2>1, <2>2
  <1>9. ASSUME NEW t \in Tasks, NEW r \in Tasks
        PROVE  store'[map[t]][r] = passed'[t]
    <2>1. store[map[t]][r] = passed[t] /\ map[t] \in Shells
      BY <1>0, TaskShell DEF Carried
    <2>2. CASE map[t] = s /\ rc = "PMIX_SUCCESS"
      <3>1. passed'[t] = k
        BY <1>0, <1>1, <1>5, <2>2, Releases
      <3>2. store'[s] = Stored(s, gathers[k])
        BY <1>0, <1>4, <2>2 DEF ValueTypes
      <3>3. Contents(gathers[k])[r] = k
        BY <1>0, <1>4, <2>2, GatheredValues
      <3>4. Stored(s, gathers[k])[r] = k
        BY <1>4, <3>3 DEF Stored
      <3> QED
        BY <2>2, <3>1, <3>2, <3>4
    <2>3. CASE map[t] = s /\ rc = "PMIX_ERROR"
      <3>1. passed'[t] = passed[t] /\ store' = store
        BY <1>0, <1>1, <2>3, Releases
      <3> QED
        BY <2>1, <3>1
    <2>4. CASE map[t] # s
      <3>1. passed'[t] = passed[t] /\ store'[map[t]] = store[map[t]]
        BY <1>0, <1>1, <1>7, <2>1, <2>4, Releases
      <3> QED
        BY <2>1, <3>1
    <2> QED
      BY <1>1, <2>2, <2>3, <2>4
  <1>10. Carried'
    BY <1>0, <1>2, <1>9 DEF Carried, Local, collect
  <1> QED
    BY <1>3, <1>6, <1>8, <1>10 DEF Values

-----------------------------------------------------------------------------
\* Nothing is put, fenced or got when the tasks start.
LEMMA ValuesInit ==
  ASSUME Init, \A t \in Tasks : InRounds(program[t])
  PROVE  Values
  <1>1. Fences
    BY FencesInit
  <1>2. /\ calls = [s \in Shells |-> <<>>] /\ gathers = <<>>
        /\ DOMAIN <<>> = {} /\ Len(<<>>) = 0 /\ IsSeq(<<>>)
    BY DEF Init, AG!Init, IsSeq
  <1>4. ValueTypes
    <2>1. \A t \in Tasks : Len(program[t]) \in Nat
      BY DEF InRounds
    <2>2. \A t \in Tasks : pc[t] \in 1 .. Len(program[t]) + 1
      BY <2>1 DEF Init
    <2> QED
      BY <1>2, <2>2 DEF Init, ValueTypes
  <1>5. ASSUME NEW t \in Tasks
        PROVE  Progress(t)
    <2>1. /\ pc[t] = 1 /\ puts[t] = 0 /\ committed[t] = 0 /\ ~inside[t]
          /\ fences[t] = 0 /\ passed[t] = 0
      BY DEF Init
    <2> QED
      BY <2>1, BeforeFirst DEF Progress, FencesBefore
  <1>6. Carried
    <2>1. \A t, r \in Tasks : store[map[t]][r] = passed[t]
      BY TaskShell DEF Init
    <2> QED
      BY <1>2, <2>1 DEF Init, Carried
  <1>7. GetReturnsPut
    BY DEF Init, GetReturnsPut
  <1> QED
    BY <1>1, <1>4, <1>5, <1>6, <1>7 DEF Values

\* Every step keeps the values in step with the fences.
LEMMA ValuesNext ==
  ASSUME Values, [Next]_vars
  PROVE  Values'
  <1>1. ASSUME NEW t \in Tasks, Client(t) \/ Kill(t)
        PROVE  Values'
    BY <1>1, CallValues, ClientValues
  <1>2. ASSUME NEW s \in Shells, Shell(s)
        PROVE  Values'
    BY <1>2, ServerValues, EnterValues, ExitValues DEF Shell
  <1>3. CASE UNCHANGED vars
    <2>1. /\ UNCHANGED <<program, pc, status, puts, committed, inside, fences, passed, got>>
          /\ UNCHANGED <<upcall, store, calls, answers, gathers, blob>>
      BY <1>3 DEF vars, taskVars, serverVars, exchangeVars
    <2>2. Fences'
      BY <1>3, FencesNext DEF Values
    <2>3. ValueTypes'
      BY <2>1 DEF Values, ValueTypes
    <2>4. \A t \in Tasks : Progress(t)'
      BY <2>1 DEF Values, Progress, FencesBefore, Local
    <2>5. Carried'
      BY <2>1 DEF Values, Carried, Local, collect
    <2>6. GetReturnsPut'
      BY <2>1 DEF Values, GetReturnsPut
    <2> QED
      BY <2>2, <2>3, <2>4, <2>5, <2>6 DEF Values
  <1> QED
    BY <1>1, <1>2, <1>3, GatherValues DEF Next

\* A job whose tasks get no values has got none.
NothingGot == \A t \in Tasks : NoGets(program[t]) /\ got[t] = {}

LEMMA NothingGotNext ==
  ASSUME NothingGot, [Next]_vars
  PROVE  NothingGot'
  <1>1. ASSUME NEW t \in Tasks
        PROVE  ~TaskGet(t)
    BY DEF NothingGot, NoGets, TaskGet, At
  <1>2. ASSUME NEW t \in Tasks, Client(t) \/ Kill(t)
        PROVE  UNCHANGED <<program, got>>
    BY <1>1, <1>2 DEF Client, Kill, TaskPreinit, TaskCall, TaskFails, TaskPut, TaskCommit,
                      unsetenv_glob, unsetenv_glob_entry, unsetenv_glob_end, TaskAbort, TaskFence,
                      Exit, serverVars
  <1>3. ASSUME NEW s \in Shells, Shell(s)
        PROVE  UNCHANGED <<program, got>>
    BY <1>3 DEF Shell, ServerFence, fence_shell_cb, exchange_exit_cb, Release, taskVars
  <1>4. ASSUME MakeGather
        PROVE  UNCHANGED <<program, got>>
    BY <1>4 DEF MakeGather, taskVars
  <1>5. ASSUME UNCHANGED vars
        PROVE  UNCHANGED <<program, got>>
    BY <1>5 DEF vars, taskVars, serverVars
  <1>6. UNCHANGED <<program, got>>
    BY <1>2, <1>3, <1>4, <1>5 DEF Next
  <1> QED
    BY <1>6 DEF NothingGot

\* What a task gets from another shell after its nth fence is what was put there
\* before the nth, whatever the task map is, and also when exchanges fail; its
\* programs exchange their values in rounds, as upmi's and bizcard do, or get
\* none, as the other programs of t/src.
THEOREM GetsReturnPuts == ASSUME Exchanging PROVE Spec => []GetReturnsPut
  <1> DEFINE I == Values \/ NothingGot
  <1>1. Init => I
    <2> SUFFICES ASSUME Init PROVE I
      OBVIOUS
    <2>1. program \in Programs /\ \A t \in Tasks : got[t] = {}
      BY DEF Init
    <2>2. CASE \A t \in Tasks : InRounds(program[t])
      BY <2>2, ValuesInit
    <2>3. CASE \A t \in Tasks : NoGets(program[t])
      BY <2>1, <2>3 DEF NothingGot
    <2> QED
      BY <2>1, <2>2, <2>3 DEF Exchanging
  <1>2. I /\ [Next]_vars => I'
    BY ValuesNext, NothingGotNext
  <1>3. I => GetReturnsPut
    BY DEF Values, NothingGot, GetReturnsPut
  <1> HIDE DEF I
  <1> QED
    BY <1>1, <1>2, <1>3, PTL DEF Spec
-----------------------------------------------------------------------------
(* The environment that a task leaves behind.                              *)

NoPmix(names) == \A n \in names : n[1] # "PMIX_"

\* A task keeps the variables that are not of PMIx.  The walk of unsetenv_glob has
\* every PMIx variable still before it, so that none is there when it has ended;
\* and a task has come to the end of its program when it is done.
Environment(t) ==
    LET Calls(op) == pc[t] \in DOMAIN program[t] /\ program[t][pc[t]].op = op
    IN  /\ pc[t] \in 1 .. Len(program[t]) + 1
        /\ inside[t] => Calls("PMIx_Fence")
        /\ status[t] = "done" => pc[t] = Len(program[t]) + 1
        /\ \A n \in Environ : n[1] # "PMIX_" => n \in env[t]
        /\ walk[t] # <<>> => Calls("unsetenv_glob") /\ NoPmix(env[t] \ walk[t][1])
        /\ \A j \in 1 .. pc[t] - 1 : program[t][j].op = "unsetenv_glob" => NoPmix(env[t])

EnvTypes ==
    /\ program \in Programs
    /\ DOMAIN pc = Tasks /\ DOMAIN status = Tasks /\ DOMAIN inside = Tasks
    /\ DOMAIN env = Tasks /\ DOMAIN walk = Tasks

Environments == EnvTypes /\ \A t \in Tasks : Environment(t)

\* A step of one task leaves the environments of the others alone.
LEMMA OneEnvironment ==
  ASSUME Environments, NEW t \in Tasks, program' = program, EnvTypes', Environment(t)',
         \A x \in Tasks : x # t => /\ pc'[x] = pc[x] /\ inside'[x] = inside[x]
                                   /\ status'[x] = status[x] /\ env'[x] = env[x]
                                   /\ walk'[x] = walk[x]
  PROVE  Environments'
  <1>1. ASSUME NEW x \in Tasks, x # t
        PROVE  Environment(x)'
    <2>1. /\ pc'[x] = pc[x] /\ inside'[x] = inside[x] /\ status'[x] = status[x]
          /\ env'[x] = env[x] /\ walk'[x] = walk[x] /\ program'[x] = program[x]
      BY <1>1
    <2>2. Environment(x)
      BY DEF Environments
    <2> QED
      BY <2>1, <2>2 DEF Environment
  <1> QED
    BY <1>1 DEF Environments

\* A call that returns has cleared the environment if it is unsetenv_glob.
LEMMA ReturnsEnvironment ==
  ASSUME Clearing, EnvTypes, NEW t \in Tasks, Environment(t),
         pc[t] \in DOMAIN program[t],
         program[t][pc[t]].op = "unsetenv_glob" => NoPmix(env[t]),
         program' = program, pc'[t] = pc[t] + 1, ~inside'[t], status'[t] = status[t],
         env'[t] = env[t], walk'[t] = <<>>
  PROVE  Environment(t)'
  <1>1. Len(program[t]) \in Nat /\ DOMAIN program[t] = 1 .. Len(program[t])
    BY DEF Clearing, EnvTypes
  <1>2. pc[t] \in Nat /\ pc'[t] \in 1 .. Len(program'[t]) + 1
    BY <1>1
  <1>3. status'[t] # "done"
    BY <1>1 DEF Environment
  <1>4. \A j \in 1 .. pc'[t] - 1 : program[t][j].op = "unsetenv_glob" => NoPmix(env[t])
    <2>1. \A j \in 1 .. pc'[t] - 1 : j \in 1 .. pc[t] - 1 \/ j = pc[t]
      BY <1>1, <1>2
    <2> QED
      BY <2>1 DEF Environment
  <1> QED
    BY <1>2, <1>3, <1>4 DEF Environment

\* A step of unsetenv_glob: the copy is made, an entry is taken from it, or it is
\* empty; after a failure the walk is given up.
LEMMA WalkEnvironment ==
  ASSUME Clearing, Environments, NEW t \in Tasks,
         unsetenv_glob(t) \/ unsetenv_glob_entry(t) \/ unsetenv_glob_end(t)
  PROVE  Environments'
  <1>0. Environment(t) /\ EnvTypes
    BY DEF Environments
  <1>1. /\ pc[t] \in DOMAIN program[t] /\ program[t][pc[t]].op = "unsetenv_glob" /\ ~inside[t]
        /\ program' = program /\ inside' = inside
        /\ program[t][pc[t]].pattern = "PMIX_"
        /\ Len(program[t]) \in Nat /\ DOMAIN program[t] = 1 .. Len(program[t])
    BY <1>0 DEF unsetenv_glob, unsetenv_glob_entry, unsetenv_glob_end, At, serverVars, Clearing,
                EnvTypes
  <1>2. CASE /\ UNCHANGED <<pc, env>>
             /\ walk' = walk \/ walk' = [walk EXCEPT ![t] = <<>>]
             /\ status' = [status EXCEPT ![t] = "failed"]
    <2>1. EnvTypes'
      BY <1>0, <1>1, <1>2 DEF EnvTypes
    <2>2. walk'[t] = walk[t] \/ walk'[t] = <<>>
      BY <1>0, <1>2 DEF EnvTypes
    <2>3. Environment(t)'
      BY <1>0, <1>1, <1>2, <2>2 DEF Environment, EnvTypes
    <2> QED
      BY <1>0, <1>1, <1>2, <2>1, <2>3, OneEnvironment DEF EnvTypes
  <1>3. CASE /\ walk' = [walk EXCEPT ![t] = <<env[t]>>]
             /\ UNCHANGED <<pc, status, env>>
    <2>1. EnvTypes'
      BY <1>0, <1>1, <1>3 DEF EnvTypes
    <2>2. walk'[t][1] = env[t] /\ NoPmix(env[t] \ env[t])
      BY <1>0, <1>3 DEF EnvTypes, NoPmix
    <2>3. Environment(t)'
      BY <1>0, <1>1, <1>3, <2>2 DEF Environment
    <2> QED
      BY <1>0, <1>1, <1>3, <2>1, <2>3, OneEnvironment DEF EnvTypes
  <1>4. ASSUME NEW n \in walk[t][1], walk[t] # <<>>,
               walk' = [walk EXCEPT ![t] = <<@[1] \ {n}>>],
               UNCHANGED <<pc, status>>,
               \/ n[1] = "PMIX_" /\ env' = [env EXCEPT ![t] = @ \ {n}]
               \/ n[1] # "PMIX_" /\ env' = env
        PROVE  Environments'
    <2>1. EnvTypes'
      BY <1>0, <1>1, <1>4 DEF EnvTypes
    <2>2. walk'[t] # <<>> /\ walk'[t][1] = walk[t][1] \ {n}
      BY <1>0, <1>4 DEF EnvTypes
    <2>3. /\ env'[t] \subseteq env[t]
          /\ \A m \in env[t] : m[1] # "PMIX_" => m \in env'[t]
          /\ n[1] = "PMIX_" => n \notin env'[t]
      BY <1>0, <1>4 DEF EnvTypes
    <2>4. NoPmix(env'[t] \ walk'[t][1])
      <3>1. NoPmix(env[t] \ walk[t][1])
        BY <1>0, <1>4 DEF Environment
      <3> QED
        BY <2>2, <2>3, <3>1 DEF NoPmix
    <2>5. NoPmix(env[t]) => NoPmix(env'[t])
      BY <2>3 DEF NoPmix
    <2>6. Environment(t)'
      BY <1>0, <1>1, <1>4, <2>3, <2>4, <2>5 DEF Environment
    <2> QED
      BY <1>0, <1>1, <1>4, <2>1, <2>6, OneEnvironment DEF EnvTypes
  <1>5. CASE walk[t] = <<{}>> /\ walk' = [walk EXCEPT ![t] = <<>>] /\ Returns(t) /\ env' = env
    <2>1. pc' = [pc EXCEPT ![t] = @ + 1] /\ status' = status
      BY <1>5 DEF Returns
    <2>2. EnvTypes'
      BY <1>0, <1>1, <1>5, <2>1 DEF EnvTypes
    <2>3. NoPmix(env[t])
      <3>1. walk[t] # <<>> /\ walk[t][1] = {}
        BY <1>5
      <3> QED
        BY <1>0, <3>1 DEF Environment, NoPmix
    <2>4. pc'[t] = pc[t] + 1 /\ walk'[t] = <<>>
      BY <1>0, <1>5, <2>1 DEF EnvTypes
    <2>5. Environment(t)'
      BY <1>0, <1>1, <1>5, <2>1, <2>3, <2>4, ReturnsEnvironment
    <2> QED
      BY <1>0, <1>1, <1>5, <2>1, <2>2, <2>5, OneEnvironment DEF EnvTypes
  <1>6. CASE unsetenv_glob(t)
    BY <1>2, <1>3, <1>6 DEF unsetenv_glob, Fails
  <1>7. CASE unsetenv_glob_entry(t)
    <2>1. PICK n \in walk[t][1] :
             \/ /\ n[1] = "PMIX_"
                /\ env' = [env EXCEPT ![t] = @ \ {n}]
                /\ walk' = [walk EXCEPT ![t] = <<@[1] \ {n}>>]
                /\ UNCHANGED <<pc, status>>
             \/ /\ n[1] # "PMIX_"
                /\ walk' = [walk EXCEPT ![t] = <<@[1] \ {n}>>]
                /\ UNCHANGED <<pc, status, env>>
             \/ /\ walk' = [walk EXCEPT ![t] = <<>>]
                /\ Fails(t)
                /\ UNCHANGED env
      BY <1>1, <1>7 DEF unsetenv_glob_entry, ThisCall
    <2>2. walk[t] # <<>>
      BY <1>7 DEF unsetenv_glob_entry
    <2> QED
      BY <1>2, <1>4, <2>1, <2>2 DEF Fails
  <1>8. CASE unsetenv_glob_end(t)
    BY <1>5, <1>8 DEF unsetenv_glob_end
  <1> QED
    BY <1>6, <1>7, <1>8

\* A step of one task: a call returns, a fence is called, or the task ends.
LEMMA ClientEnvironment ==
  ASSUME Clearing, Environments, NEW t \in Tasks, Client(t) \/ Kill(t)
  PROVE  Environments'
  <1>0. Environment(t) /\ EnvTypes
    BY DEF Environments
  <1> DEFINE op == program[t][pc[t]].op
             Return == /\ ~inside[t] /\ pc[t] \in DOMAIN program[t] /\ op # "unsetenv_glob"
                       /\ pc' = [pc EXCEPT ![t] = @ + 1]
                       /\ UNCHANGED <<program, status, inside, env, walk>>
             Call == /\ pc[t] \in DOMAIN program[t] /\ op = "PMIx_Fence"
                     /\ inside' = [inside EXCEPT ![t] = TRUE]
                     /\ UNCHANGED <<program, pc, status, env, walk>>
             End == /\ \E st \in {"failed", "killed", "done"} :
                          /\ status' = [status EXCEPT ![t] = st]
                          /\ st = "done" => pc[t] > Len(program[t])
                    /\ UNCHANGED <<program, pc, inside, env, walk>>
             Walk == unsetenv_glob(t) \/ unsetenv_glob_entry(t) \/ unsetenv_glob_end(t)
  <1>1. Return \/ Call \/ End \/ Walk
    <2>1. CASE TaskPreinit(t) \/ TaskCall(t) \/ TaskPut(t) \/ TaskCommit(t) \/ TaskAbort(t)
                 \/ TaskGet(t) \/ TaskFails(t)
      <3>1. /\ ~inside[t] /\ pc[t] \in DOMAIN program[t] /\ op # "unsetenv_glob"
            /\ UNCHANGED <<program, inside, env, walk>>
        BY <2>1 DEF TaskPreinit, TaskCall, TaskPut, TaskCommit, TaskAbort, TaskGet, TaskFails, At,
                    serverVars
      <3>2. Returns(t) \/ Fails(t)
        BY <2>1 DEF TaskPreinit, TaskCall, TaskPut, TaskCommit, TaskAbort, TaskGet, TaskFails
      <3> QED
        BY <3>1, <3>2 DEF Returns, Fails
    <2>2. CASE TaskFence(t)
      BY <2>2 DEF TaskFence, At, serverVars
    <2>3. CASE Exit(t) \/ Kill(t)
      BY <2>3 DEF Exit, Kill, serverVars
    <2> QED
      BY <2>1, <2>2, <2>3 DEF Client
  <1>2. CASE Return
    <2>1. EnvTypes' /\ pc'[t] = pc[t] + 1
      BY <1>0, <1>2 DEF EnvTypes
    <2>2. walk[t] = <<>>
      BY <1>0, <1>2 DEF Environment
    <2>3. Environment(t)'
      BY <1>0, <1>2, <2>1, <2>2, ReturnsEnvironment
    <2> QED
      BY <1>0, <1>2, <2>1, <2>3, OneEnvironment DEF EnvTypes
  <1>3. CASE Call
    <2>1. EnvTypes'
      BY <1>0, <1>3 DEF EnvTypes
    <2>2. Environment(t)'
      BY <1>0, <1>3 DEF Environment
    <2> QED
      BY <1>0, <1>3, <2>1, <2>2, OneEnvironment DEF EnvTypes
  <1>4. CASE End
    <2>1. EnvTypes'
      BY <1>0, <1>4 DEF EnvTypes
    <2>2. Environment(t)'
      <3>1. Len(program[t]) \in Nat
        BY <1>0 DEF Clearing, EnvTypes
      <3>2. status'[t] = "done" => pc[t] = Len(program[t]) + 1
        BY <1>0, <1>4, <3>1 DEF Environment, EnvTypes
      <3> QED
        BY <1>0, <1>4, <3>2 DEF Environment
    <2> QED
      BY <1>0, <1>4, <2>1, <2>2, OneEnvironment DEF EnvTypes
  <1>5. CASE Walk
    BY <1>5, WalkEnvironment
  <1> QED
    BY <1>1, <1>2, <1>3, <1>4, <1>5

\* A task that is released from a fence goes on, or has failed.
LEMMA ReleaseEnvironment ==
  ASSUME Clearing, Environments, NEW s \in Shells, NEW rc, Release(s, rc), program' = program
  PROVE  Environments'
  <1>1. /\ env' = env /\ walk' = walk
        /\ inside' = [t \in Tasks |-> inside[t] /\ map[t] # s]
    BY DEF Release
  <1>2. \/ /\ pc' = [t \in Tasks |-> IF map[t] = s /\ inside[t] THEN pc[t] + 1 ELSE pc[t]]
           /\ status' = status
        \/ /\ status' = [t \in Tasks |->
                IF map[t] = s /\ inside[t] /\ status[t] = "running" THEN "failed" ELSE status[t]]
           /\ pc' = pc
    BY DEF Release
  <1>3. EnvTypes /\ EnvTypes'
    BY <1>1, <1>2 DEF Environments, EnvTypes
  <1>4. ASSUME NEW t \in Tasks
        PROVE  Environment(t)'
    <2>1. Environment(t)
      BY DEF Environments
    <2>2. CASE inside[t] /\ pc'[t] = pc[t] + 1 /\ status'[t] = status[t] /\ map[t] = s
      <3>1. pc[t] \in DOMAIN program[t] /\ program[t][pc[t]].op # "unsetenv_glob"
        BY <2>1, <2>2 DEF Environment
      <3>2. ~inside'[t] /\ env'[t] = env[t] /\ walk'[t] = <<>>
        BY <1>1, <2>1, <2>2 DEF Environment
      <3> QED
        BY <1>3, <2>1, <2>2, <3>1, <3>2, ReturnsEnvironment
    <2>3. CASE pc'[t] = pc[t] /\ (status'[t] = status[t] \/ status'[t] = "failed")
      <3>1. inside'[t] => inside[t]
        BY <1>1
      <3> QED
        BY <1>1, <2>1, <2>3, <3>1 DEF Environment
    <2>4. \/ inside[t] /\ pc'[t] = pc[t] + 1 /\ status'[t] = status[t] /\ map[t] = s
          \/ pc'[t] = pc[t] /\ (status'[t] = status[t] \/ status'[t] = "failed")
      BY <1>2
    <2> QED
      BY <2>2, <2>3, <2>4
  <1> QED
    BY <1>3, <1>4 DEF Environments

\* No task that went through upmi's finalize leaves a PMIx variable to the jobs it
\* starts: the walk misses none, in whatever order it meets them, and a walk that
\* fails is no finalize; other variables stay in any case.
THEOREM NothingLeaksToJobs == ASSUME Clearing PROVE Spec => []NoLeakToJobs
  <1>1. Init => Environments
    <2> SUFFICES ASSUME Init PROVE Environments
      OBVIOUS
    <2>1. EnvTypes
      BY DEF Init, EnvTypes
    <2>2. ASSUME NEW t \in Tasks
          PROVE  Environment(t)
      <3>1. Len(program[t]) \in Nat
        BY <2>1 DEF Clearing, EnvTypes
      <3>2. /\ pc[t] = 1 /\ ~inside[t] /\ status[t] = "running" /\ env[t] = Environ
            /\ walk[t] = <<>>
        BY DEF Init
      <3> QED
        BY <3>1, <3>2 DEF Environment
    <2> QED
      BY <2>1, <2>2 DEF Environments
  <1>2. Environments /\ [Next]_vars => Environments'
    <2> SUFFICES ASSUME Environments, [Next]_vars PROVE Environments'
      OBVIOUS
    <2>1. ASSUME UNCHANGED <<program, pc, status, inside, env, walk>>
          PROVE  Environments'
      BY <2>1 DEF Environments, EnvTypes, Environment
    <2>2. ASSUME NEW s \in Shells, Shell(s)
          PROVE  Environments'
      <3>1. program' = program
        BY <2>2 DEF Shell, ServerFence, fence_shell_cb, exchange_exit_cb
      <3>2. (\E rc : Release(s, rc)) \/ UNCHANGED taskVars
        BY <2>2 DEF Shell, ServerFence, fence_shell_cb, exchange_exit_cb
      <3> QED
        BY <2>1, <3>1, <3>2, ReleaseEnvironment DEF taskVars
    <2>3. CASE MakeGather \/ UNCHANGED vars
      BY <2>1, <2>3 DEF MakeGather, vars, taskVars, serverVars
    <2> QED
      BY <2>2, <2>3, ClientEnvironment DEF Next
  <1>3. Environments => NoLeakToJobs
    <2> SUFFICES ASSUME Environments, NEW t \in Tasks
                 PROVE  /\ \A n \in Environ : n[1] # "PMIX_" => n \in env[t]
                        /\ status[t] = "done" /\ Last(program[t]).op = "unsetenv_glob"
                               => NoPmix(env[t])
      BY DEF NoLeakToJobs, NoPmix
    <2>1. Environment(t)
      BY DEF Environments
    <2>2. Len(program[t]) \in Nat /\ Len(program[t]) # 0
      BY DEF Environments, EnvTypes, Clearing
    <2>3. ASSUME status[t] = "done", Last(program[t]).op = "unsetenv_glob"
          PROVE  NoPmix(env[t])
      <3>1. pc[t] = Len(program[t]) + 1
        BY <2>1, <2>3 DEF Environment
      <3>2. Len(program[t]) \in 1 .. pc[t] - 1
        BY <2>2, <3>1
      <3> QED
        BY <2>1, <2>3, <3>2 DEF Environment, Last
    <2> QED
      BY <2>1, <2>3 DEF Environment
  <1> QED
    BY <1>1, <1>2, <1>3, PTL DEF Spec

=============================================================================
