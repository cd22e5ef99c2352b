------------------------------ MODULE MCIPList ------------------------------
(* A small instance of IPList and of PolicyCompile for TLC. One of them runs. *)
(* IPList starts with any short list that never changes and is fetched        *)
(* without failures, or with one of a few that take turns. PolicyCompile      *)
(* starts with networks and no conditions, or with conditions and no networks.*)
EXTENDS IPList, PolicyCompile, TLC

CONSTANTS v4, v6, r1, r2

MCWidth == v4 :> 2 @@ v6 :> 1

\* Every list of up to three lines, in every order.
ShortLists == UNION {[1..n -> Net \cup {NoNet}] : n \in 0..3}

Half(bit) == [family |-> v4, ones |-> 1, bits |-> <<bit>>]
Quarter == [family |-> v4, ones |-> 2, bits |-> <<0, 1>>]

\* A page that is no list, and lists.
FewLists ==
    {<<NoNet, NoNet>>, <<Half(0)>>, <<Quarter, NoNet, Half(0)>>,
     <<Half(0), Quarter, Half(1)>>, <<Half(1), Quarter>>, <<Root(v6), Root(v4)>>}

-----------------------------------------------------------------------------
(* Entries of every kind, alone and in twos; names that refer to each other  *)
(* in every way; rules that use them.                                        *)

FewLines == {<<>>, <<Quarter, NoPrefix>>, <<Half(0), Quarter>>}

Menu == [inline : {<<>>, <<Quarter>>, <<Half(1), NoPrefix>>}, lines : FewLines,
         routes : {<<>>, <<Quarter, Half(0)>>}, source : {"none", "plain", "extract"},
         asn : BOOLEAN]

\* Entries that say what their parts are, and nothing twice.
SomeEntries ==
    {e \in Menu : /\ e.asn \/ e.routes = <<>>
                  /\ e.source # "none" \/ e.lines = <<>>}

GoodEntries == {e \in SomeEntries : NoPrefix \notin Elements(e.inline) /\ e.lines # <<>>}

Networks ==
    {"g" :> <<e>> : e \in SomeEntries} \cup {"g" :> <<e, f>> : e, f \in GoodEntries}
        \cup {"g" :> <<e>> @@ "h" :> <<f>> : e, f \in {x \in GoodEntries : x.asn}}

Ref(n) == [isRef |-> TRUE, name |-> n, negated |-> FALSE, text |-> Always]
Not(x) == [x EXCEPT !.negated = TRUE]
Says(met) == [isRef |-> FALSE, name |-> "", negated |-> FALSE,
              text |-> [parses |-> TRUE, met |-> met]]
Garbage == [Says({}) EXCEPT !.text.parses = FALSE]

Name == {"a", "b", "c"}

Definition ==
    {<<<<Says({r1})>>>>, <<<<Garbage>>>>, <<<<Ref("unknown")>>>>}
        \cup {<<<<Ref(n)>>>> : n \in Name}
        \cup {<<<<Says({r1})>>, <<Not(Ref(n))>>>> : n \in Name}
        \cup {<<<<Ref(m)>>, <<Ref(n), Says({r2})>>>> : m, n \in Name}

Conditions ==
    [{"a", "b"} -> Definition]
        \cup [Name -> {d \in Definition : Garbage \notin Elements(d[1])}]

SomeRules ==
    {<<<<Ref("a")>>, <<Says({r2}), Not(Ref("a"))>>>>, <<<<Ref("unknown")>>>>,
     <<<<Not(Ref("b")), Ref("a")>>, <<>>>>}

SomePolicies ==
    [networks : Networks, conditions : {<<>>}, rules : {<<>>},
     whois : {"off", "lenient", "strict"}]
        \cup [networks : {<<>>}, conditions : Conditions, rules : SomeRules, whois : {"off"}]

NoPolicy == [networks |-> <<>>, conditions |-> <<>>, rules |-> <<>>, whois |-> "off"]

-----------------------------------------------------------------------------
VARIABLES turns, listing

\* A compilation that is over.
Compiled ==
    /\ policy = NoPolicy /\ stage = "done"
    /\ group = "" /\ entry = 0 /\ queue = <<>> /\ tries = <<>> /\ lost = {}
    /\ offline = FALSE /\ stack = <<>> /\ resolving = {} /\ resolved = <<>>
    /\ compiled = <<>>

MCInit ==
    /\ Init
    /\ \/ /\ listing = TRUE /\ turns \in BOOLEAN /\ (turns => served \in FewLists)
          /\ Compiled
       \/ /\ listing = FALSE /\ turns = FALSE /\ served = <<>>
          /\ policy \in SomePolicies /\ PolicyInit

Listing ==
    /\ listing
    /\ IF turns THEN Next /\ served' \in FewLists ELSE Fetching
    /\ UNCHANGED <<policyVars, turns, listing>>

Compiling == ~listing /\ Compile /\ UNCHANGED <<vars, turns, listing>>

allVars == <<vars, policyVars, turns, listing>>

MCFairSpec ==
    /\ MCInit /\ [][Listing \/ Compiling]_allVars
    /\ WF_allVars(listing /\ Fetching /\ UNCHANGED <<policyVars, turns, listing>>)
    /\ WF_allVars(Compiling)
=============================================================================
