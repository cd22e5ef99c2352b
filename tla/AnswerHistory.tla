---------------------------- MODULE AnswerHistory ----------------------------
(***************************************************************************)
(* The answers a client has given to the slider (recordAnswer, sweepOnce   *)
(* in slider.go): whoever clicks the same place again and again is taken   *)
(* for a program. The verdict rests on the last Samples answers of the     *)
(* last Window; older ones are dropped when the next comes or the sweep    *)
(* passes, and at most four times Samples are kept.                        *)
(*                                                                         *)
(* Both methods hold the mutex from end to end.                            *)
(***************************************************************************)
EXTENDS Integers, Sequences, FiniteSets, FiniteSetsExt

CONSTANTS
    Client,
    Value,       \* where a click may land
    Samples,     \* sliderAnswerSamples
    Tolerance,   \* cfg.Slider.Tolerance
    Window,      \* sliderAnswerWindow
    MaxTime,     \* bound: the clock stops
    MaxAnswers   \* bound: answers given

ASSUME AnswerAssumption ==
    /\ Value \subseteq Nat
    /\ {Samples, Window} \subseteq Nat \ {0}
    /\ {Tolerance, MaxTime, MaxAnswers} \subseteq Nat

VARIABLES
    now,
    answers,   \* the samples kept of each client
    log        \* history: all answers, with their verdicts

vars == <<now, answers, log>>

Init == now = 0 /\ answers = [client \in Client |-> <<>>] /\ log = <<>>

\* The samples of the last Window, in their order.
Recent(samples) ==
    LET kept == {i \in DOMAIN samples : now - samples[i].at < Window}
    IN  [n \in 1..Cardinality(kept) |->
            samples[CHOOSE i \in kept : Cardinality({j \in kept : j <= i}) = n]]

Latest(samples, n) == SubSeq(samples, Len(samples) - n + 1, Len(samples))

\* Mutant: the oldest are kept.
CutNewest(samples) == SubSeq(samples, 1, Min({Len(samples), 4 * Samples}))

Cut(samples) == Latest(samples, Min({Len(samples), 4 * Samples}))

\* hi - lo <= tolerance.
Alike(samples) ==
    \A i, j \in DOMAIN samples : samples[i].value - samples[j].value <= Tolerance

\* recordAnswer: the verdict is whether the last answers look automated.
RecordAnswer(client, value) ==
    /\ Len(log) < MaxAnswers
    /\ LET sample == [value |-> value, at |-> now]
           kept == Cut(Recent(Append(answers[client], sample)))
           low == Len(kept) >= Samples /\ Alike(Latest(kept, Samples))
       IN /\ answers' = [answers EXCEPT ![client] = kept]
          /\ log' = Append(log, [client |-> client, value |-> value,
                                 at |-> now, low |-> low])
    /\ UNCHANGED now

\* sweepOnce; a client without samples is no longer in the map.
Sweep ==
    /\ answers' = [client \in Client |-> Recent(answers[client])]
    /\ UNCHANGED <<now, log>>

Tick ==
    /\ now < MaxTime
    /\ now' = now + 1
    /\ UNCHANGED <<answers, log>>

Next ==
    \/ \E client \in Client, value \in Value : RecordAnswer(client, value)
    \/ Sweep
    \/ Tick

Spec == Init /\ [][Next]_vars

-----------------------------------------------------------------------------
(* Properties.                                                             *)

\* Every variable keeps its shape, and no client more than it may.
TypeOK ==
    /\ now \in 0..MaxTime
    /\ \A client \in Client :
          /\ Len(answers[client]) <= 4 * Samples
          /\ \A i \in DOMAIN answers[client] :
                answers[client][i] \in [value : Value, at : 0..now]

\* The indices of the answers an answer is judged with, itself among them.
Judged(i) ==
    {j \in 1..i : log[j].client = log[i].client /\ log[i].at - log[j].at < Window}

\* The verdict on an answer is the one on all that the client has ever given:
\* its last Samples answers within the window are there and are alike. Neither
\* the cut, nor the sweep, nor another client's answers change it.
VerdictsRight ==
    \A i \in DOMAIN log :
        LET recent == Judged(i)
            last == {j \in recent :
                       Cardinality({k \in recent : k > j}) < Samples}
        IN log[i].low <=>
             /\ Cardinality(recent) >= Samples
             /\ \A j, k \in last : log[j].value - log[k].value <= Tolerance
=============================================================================
