----------------------------- MODULE RulesReload -----------------------------
(***************************************************************************)
(* Loading the rules (main.go, the goroutine at the head of main, and      *)
(* watchRulesSource): the rules file is read and compiled in the           *)
(* background at start; then its modification time is looked up, and every *)
(* ten seconds compared with the time of the last load.                    *)
(*                                                                         *)
(* The file changes at any moment, also between the steps of a load. Each  *)
(* write gives it a later modification time, which numbers its versions.   *)
(* Compiling a policy file fetches network lists and can take seconds or   *)
(* fail although the file is good; a file of text rules has no such        *)
(* trouble (Flaky).                                                        *)
(***************************************************************************)
EXTENDS Integers

CONSTANTS
    Flaky,        \* a good file may fail to compile, for lack of the network
    MaxVersions,  \* bound on the writes of the file
    Unset,        \* rulesBox holds nothing yet: requests skip the rules
    NoRules       \* rulesBox holds no rules: default_action applies

Version == 1..MaxVersions

ASSUME VersionsAssumption == MaxVersions \in Nat \ {0}
ASSUME FlakyAssumption == Flaky \in BOOLEAN
ASSUME BoxAssumption ==
    Unset \notin Version /\ NoRules \notin Version /\ Unset # NoRules

VARIABLES
    version,   \* the modification time of the rules file
    content,   \* whether the file is good, bad or not there
    box,       \* rulesBox: the version in force
    pc,        \* where the goroutine is
    compiled,  \* its result of loadCompiledRules
    seen,      \* fi.ModTime() of the current round
    lastMod,   \* the modification time of the last load
    good,      \* history: the versions that were ever good
    first      \* history: the version the watcher began with

vars == <<version, content, box, pc, compiled, seen, lastMod, good, first>>
rulesFile == <<version, content, good>>

Content == {"good", "bad", "gone"}
Starting == {"load", "store", "stat"}

Init ==
    /\ version = 1
    /\ content \in Content
    /\ good = IF content = "good" THEN {1} ELSE {}
    /\ box = Unset
    /\ pc = "load"
    /\ compiled = NoRules
    /\ seen = 0 /\ lastMod = 0 /\ first = 0

-----------------------------------------------------------------------------
(* The administrator.                                                      *)

\* The file is written, with good rules or bad.
Edit ==
    /\ version < MaxVersions
    /\ version' = version + 1
    /\ content' \in {"good", "bad"}
    /\ good' = IF content' = "good" THEN good \cup {version'} ELSE good
    /\ UNCHANGED <<box, pc, compiled, seen, lastMod, first>>

Delete ==
    /\ content' = "gone"
    /\ UNCHANGED <<version, good, box, pc, compiled, seen, lastMod, first>>

-----------------------------------------------------------------------------
(* The start.                                                              *)

MayFail == content # "good" \/ Flaky

\* loadCompiledRules of the start; what fails leaves no rules.
Load ==
    /\ pc = "load"
    /\ pc' = "store"
    /\ \/ content = "good" /\ compiled' = version
       \/ MayFail /\ compiled' = NoRules
    /\ UNCHANGED <<rulesFile, box, seen, lastMod, first>>

\* rulesBox.Store, whatever the load gave.
StoreFirst ==
    /\ pc = "store"
    /\ box' = compiled
    /\ pc' = "stat"
    /\ UNCHANGED <<rulesFile, compiled, seen, lastMod, first>>

\* watchRulesSource begins: only now the modification time is looked up.
FirstStat ==
    /\ pc = "stat"
    /\ lastMod' = IF content = "gone" THEN 0 ELSE version
    /\ first' = lastMod'
    /\ pc' = "tick"
    /\ UNCHANGED <<rulesFile, box, compiled, seen>>

-----------------------------------------------------------------------------
(* A round of the watcher.                                                 *)

\* os.Stat finds a later modification time; otherwise the round is over.
Stat ==
    /\ pc = "tick"
    /\ content # "gone" /\ version > lastMod
    /\ seen' = version
    /\ pc' = "reload"
    /\ UNCHANGED <<rulesFile, box, compiled, lastMod, first>>

Reload ==
    /\ pc = "reload" /\ content = "good"
    /\ compiled' = version
    /\ pc' = "swap"
    /\ UNCHANGED <<rulesFile, box, seen, lastMod, first>>

\* Mutant: a version that failed is not tried again.
ReloadFailsForGood ==
    /\ pc = "reload" /\ MayFail
    /\ lastMod' = seen
    /\ pc' = "tick"
    /\ UNCHANGED <<rulesFile, box, compiled, seen, first>>

\* Mutant: what could not be compiled replaces what could.
ReloadClears ==
    /\ pc = "reload" /\ MayFail
    /\ box' = NoRules
    /\ pc' = "tick"
    /\ UNCHANGED <<rulesFile, compiled, seen, lastMod, first>>

\* A failed reload keeps the rules, and is tried again in the next round.
ReloadFails ==
    /\ pc = "reload" /\ MayFail
    /\ pc' = "tick"
    /\ UNCHANGED <<rulesFile, box, compiled, seen, lastMod, first>>

\* Mutant: the modification time is that of the file as it is after the load.
SwapAndStat ==
    /\ pc = "swap"
    /\ box' = compiled
    /\ lastMod' = version
    /\ pc' = "tick"
    /\ UNCHANGED <<rulesFile, compiled, seen, first>>

\* box.Store, then lastMod takes the time that was looked up before the load.
Swap ==
    /\ pc = "swap"
    /\ box' = compiled
    /\ lastMod' = seen
    /\ pc' = "tick"
    /\ UNCHANGED <<rulesFile, compiled, seen, first>>

Loader == Load \/ StoreFirst \/ FirstStat \/ Stat \/ Reload \/ ReloadFails \/ Swap

Next == Edit \/ Delete \/ Loader

Spec == Init /\ [][Next]_vars

\* The goroutine is scheduled and its ticker fires for ever; the network does
\* not fail for ever. Nothing obliges anyone to edit the file.
FairSpec == Spec /\ WF_vars(Loader) /\ SF_vars(Reload)

-----------------------------------------------------------------------------
(* Properties.                                                             *)

\* Every variable keeps its shape.
TypeOK ==
    /\ version \in Version
    /\ content \in Content
    /\ box \in Version \cup {Unset, NoRules}
    /\ pc \in Starting \cup {"tick", "reload", "swap"}
    /\ compiled \in Version \cup {NoRules}
    /\ seen \in Version \cup {0}
    /\ lastMod \in Version \cup {0}
    /\ good \subseteq Version
    /\ first \in Version \cup {0}

\* Once rules are in force they stay, or give way to a later version that
\* compiled: an edit gone wrong, a file deleted or a network that fails never
\* takes the rules away, and no race of edit and load brings back old ones.
GoodRulesStay ==
    [][(box \in Version) => (box' \in good' /\ box' >= box)]_vars

\* When the watcher rests, requests are judged, by rules or by default_action
\* (README, Persistence), and it has loaded the file as it is or will notice
\* that it has not: an edit at any moment of a round is not lost.
NothingMissed ==
    pc = "tick" =>
        /\ box # Unset
        /\ (content = "good" /\ version > first) => (box = version \/ lastMod < version)

\* Every good version written after the watcher began comes into force,
\* unless it is overwritten or deleted first.
LaterEditsArrive ==
    \A v \in Version :
        (pc \notin Starting /\ version = v /\ content = "good" /\ v > first)
            ~> (box = v \/ version # v \/ content # "good")

\* rules.txt: "Edit this file directly and it's picked up within ~10s -- no
\* restart needed." Every good version comes into force, unless it is
\* overwritten or deleted first.
EditsArrive ==
    \A v \in Version :
        (version = v /\ content = "good")
            ~> (box = v \/ version # v \/ content # "good")

=============================================================================
