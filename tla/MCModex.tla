------------------------------ MODULE MCModex -------------------------------
(***************************************************************************)
(* The jobs of t/t0003-barrier.t to t/t0008-upmi.t: every task of a job    *)
(* runs the same program with the same options.                            *)
(***************************************************************************)
EXTENDS Modex, TLC

\* Three tasks on two shells.
TwoShells == (0 :> 0 @@ 1 :> 0 @@ 2 :> 1)

\* Two variables of PMIx and another one.
Variables == {<<"PMIX_", "SERVER_URI">>, <<"PMIX_", "RANK">>, <<"PATH">>}

Opt(name, arg, plus) == [name |-> name, arg |-> arg, plus |-> plus]

Opts == {<<>>, <<Opt("timeout", 2, FALSE)>>, <<Opt("unknown", 42, TRUE)>>,
         <<Opt("collect-data", 0, FALSE), Opt("collect-job-info", 0, TRUE)>>}

Everyone(calls_of(_)) == [t \in Tasks |-> calls_of(t)]

\* The programs of t/src, and two exchanges with upmi.
AllPrograms ==
    {Everyone(LAMBDA t : bizcard(t, <<1, 2>>)),
     Everyone(LAMBDA t : barrier(TRUE, Tasks, <<>>)),
     Everyone(LAMBDA t : getkey(t, 0, 2)),
     Everyone(LAMBDA t : notify),
     Everyone(LAMBDA t : abort(t, 0)),
     Everyone(LAMBDA t : upmi_exchange(Cardinality(Tasks), 2))}
    \cup {Everyone(LAMBDA t : barrier(FALSE, {}, opts)) : opts \in Opts}

\* All of them get values in rounds only, and bizcard and upmi do get some.
ASSUME ExchangesInRounds ==
    /\ Exchanging
    /\ \A t \in Tasks : InRounds(bizcard(t, <<1, 2>>)) /\ ~NoGets(upmi_exchange(3, 2))

ASSUME ProgramsClear == Clearing
=============================================================================
