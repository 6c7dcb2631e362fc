----------------------------- MODULE AllGather ------------------------------
(***************************************************************************)
(* What an exchange promises its callers, without the tree, the sessions   *)
(* and the messages (src/shell/plugins/exchange.h).  Callers make numbered *)
(* calls.  A gather takes one open call of every shell and concatenates    *)
(* what they contribute, in any order.  A call is answered once: with the  *)
(* data of the gather it took part in, or with an error.                   *)
(*                                                                         *)
(* One step may make a call of a shell, make a gather and answer a call of *)
(* the same shell: in a job of one shell they all happen at once.          *)
(***************************************************************************)
EXTENDS Naturals, Sequences, SequencesExt

CONSTANTS Ranks,        \* the shells
          Collect       \* values of pmix.collect

VARIABLES calls,        \* the pmix.collect flag of each call of a shell
          answers,      \* the answers to a shell's calls, in order
          gathers       \* the gathers made

vars == <<calls, answers, gathers>>

Init == /\ calls = [r \in Ranks |-> <<>>]
        /\ answers = [r \in Ranks |-> <<>>]
        /\ gathers = <<>>

-----------------------------------------------------------------------------
\* Call n of shell s has been made, with the calls of c, and is not answered.
Open(c, s, n) == /\ n \in DOMAIN c[s]
                 /\ \A i \in DOMAIN answers[s] : answers[s][i].call # n

\* Gather g takes part in no call that an earlier one took part in, waits for
\* every shell, and holds each contribution once.
Proper(c, g) ==
    /\ \A s \in Ranks : /\ Open(c, s, g.calls[s])
                        /\ \A h \in ToSet(gathers) : h.calls[s] # g.calls[s]
    /\ ToSet(g.data) = {<<s, g.calls[s]>> : s \in {t \in Ranks : c[t][g.calls[t]]}}
    /\ IsInjective(g.data)

\* Answer a to a call of shell s is an error, or the result of its gather.
Just(s, a) ==
    \/ a.status = "PMIX_ERROR"
    \/ /\ a.status = "PMIX_SUCCESS"
       /\ \E g \in ToSet(gathers') : g.calls[s] = a.call /\ g.data = a.data

Call(s) == \/ UNCHANGED calls
           \/ \E collect \in Collect :
                  calls' = [calls EXCEPT ![s] = Append(@, collect)]

MakeGather == \/ UNCHANGED gathers
              \/ /\ gathers' # <<>>
                 /\ gathers' = Append(gathers, Last(gathers'))
                 /\ Proper(calls', Last(gathers'))

AnswerCall(s) ==
    \/ UNCHANGED answers
    \/ /\ answers'[s] # <<>>
       /\ answers' = [answers EXCEPT ![s] = Append(@, Last(answers'[s]))]
       /\ Open(calls', s, Last(answers'[s]).call)
       /\ Just(s, Last(answers'[s]))

Next == \E s \in Ranks : Call(s) /\ MakeGather /\ AnswerCall(s)

Spec == Init /\ [][Next]_vars

=============================================================================
