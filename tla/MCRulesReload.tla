---------------------------- MODULE MCRulesReload ----------------------------
(* Small instances of RulesReload and RuleMatching for TLC: versions whose   *)
(* rules, and whose databases of ASNs, differ by turns.                      *)
EXTENDS RuleMatching

CONSTANTS a, b, c

MCRule(action, nets, asns) ==
    [action |-> action, met |-> Client, onNetwork |-> TRUE, nets |-> nets, asns |-> asns]

Everyone == [MCRule("allow", {}, {}) EXCEPT !.onNetwork = FALSE]

MCRules ==
    [v \in Version |->
        IF v % 2 = 1
        THEN <<MCRule("deny", {}, {1}), MCRule("tarpit", {c}, {2}), Everyone>>
        ELSE <<MCRule("tarpit", {a}, {1}), [MCRule("deny", {}, {2, 3}) EXCEPT !.met = {a, b}]>>]

MCAsn ==
    [v \in Version |-> [x \in Client |-> IF x = a THEN 2 ELSE IF x = b THEN (v % 2) + 1 ELSE 0]]

-----------------------------------------------------------------------------
VARIABLE matched

\* The watch with no requests, or with requests and fewer edits.
WatchAndMatch == MatchInit /\ matched \in BOOLEAN

Changes == IF matched THEN Reloads ELSE UNCHANGED matching

MCNext ==
    /\ \/ Next /\ Changes /\ (matched => version' <= 2 /\ content' # "gone")
       \/ matched /\ Requests
    /\ UNCHANGED matched

allVars == <<vars, matching, matched>>

MCFairSpec ==
    /\ WatchAndMatch /\ [][MCNext]_allVars
    /\ WF_allVars(Loader /\ Changes /\ UNCHANGED matched)
    /\ SF_allVars(Reload /\ Changes /\ UNCHANGED matched)
=============================================================================
