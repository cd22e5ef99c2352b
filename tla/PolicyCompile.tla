---------------------------- MODULE PolicyCompile ----------------------------
(***************************************************************************)
(* Compiling a policy file (compilePolicyFile, buildPolicyMatcher,         *)
(* FetchPrefixes and resolveConditionName in policy.go): the networks of   *)
(* every group are collected from the file, from whois and from the net;   *)
(* then named conditions are put in the place of their references; then    *)
(* the rules are compiled. Whatever goes wrong gives up the whole file.    *)
(*                                                                         *)
(* The text of a condition is the set of requests it holds for, and        *)
(* whether it can be parsed. The groups and the conditions are kept in     *)
(* maps, which are gone through in any order.                              *)
(***************************************************************************)
EXTENDS IPTrie, Sequences

CONSTANTS
    Request,       \* what conditions tell apart
    NoPrefix       \* a line or a prefix that does not parse

ASSUME PrefixAssumption == NoPrefix \notin Net

VARIABLES
    policy,      \* policyFile, and asn.whois_enabled and whois_strict
    stage,       \* how far the compilation is
    group,       \* the group being built
    entry,       \* its current entry
    queue,       \* prefixes about to be inserted
    tries,       \* policyMatcher.networks
    lost,        \* history: entries whose whois failed and was passed over
    offline,     \* history: a file or a server failed
    stack,       \* the calls of resolveConditionName, the innermost last
    resolving,
    resolved,    \* resolvedNames
    compiled     \* out

networking == <<group, entry, queue, tries, lost, offline>>
conditioning == <<stack, resolving, resolved>>
policyVars == <<policy, stage, networking, conditioning, compiled>>

Elements(seq) == {seq[i] : i \in DOMAIN seq}

(* A text: parses, and met, the requests it holds for. An expression is a   *)
(* conjunction of literals: a text or a reference ($name), maybe negated.   *)
Text == [parses : BOOLEAN, met : SUBSET Request]
Literal == [isRef : BOOLEAN, name : STRING, negated : BOOLEAN, text : Text]
Line == Net \cup {NoPrefix}
NetworkEntry ==
    [inline : Seq(Line), source : {"none", "plain", "extract"}, lines : Seq(Line),
     asn : BOOLEAN, routes : Seq(Net)]

\* policyFile, as far as the YAML parser vouches for it.
IsPolicy(p) ==
    /\ p.whois \in {"off", "lenient", "strict"}
    /\ \A g \in DOMAIN p.networks : p.networks[g] \in Seq(NetworkEntry)
    /\ \A n \in DOMAIN p.conditions : p.conditions[n] \in Seq(Seq(Literal)) \ {<<>>}
    /\ p.rules \in Seq(Seq(Literal))

PolicyInit ==
    /\ IsPolicy(policy)
    /\ stage = "read"
    /\ group = "" /\ entry = 0 /\ queue = <<>>
    /\ tries = [g \in {} |-> EmptyTrie] /\ lost = {} /\ offline = FALSE
    /\ stack = <<>> /\ resolving = {} /\ resolved = [n \in {} |-> 0]
    /\ compiled = <<>>

Extended(f, x, y) == [i \in DOMAIN f \cup {x} |-> IF i = x THEN y ELSE f[i]]

Fails == stage' = "failed"

\* The file and the database of ASNs are opened and the file is parsed.
Read ==
    /\ stage = "read"
    /\ stage' = "group"
    /\ UNCHANGED <<policy, networking, conditioning, compiled>>

ReadFails ==
    /\ stage = "read"
    /\ Fails /\ offline' = TRUE
    /\ UNCHANGED <<policy, group, entry, queue, tries, lost, conditioning, compiled>>

-----------------------------------------------------------------------------
(* buildPolicyMatcher.                                                      *)

NextGroup ==
    /\ stage = "group"
    /\ \E g \in DOMAIN policy.networks \ DOMAIN tries :
         /\ group' = g
         /\ tries' = Extended(tries, g, EmptyTrie)
    /\ entry' = 0
    /\ stage' = "entry"
    /\ UNCHANGED <<policy, queue, lost, offline, conditioning, compiled>>

AllGroups ==
    /\ stage = "group"
    /\ DOMAIN policy.networks \subseteq DOMAIN tries
    /\ stage' = "conditions"
    /\ UNCHANGED <<policy, networking, conditioning, compiled>>

Entries == policy.networks[group]
Entry == Entries[entry]
AsksWhois == Entry.asn /\ policy.whois # "off"

NextEntry ==
    /\ stage = "entry" /\ queue = <<>>
    /\ IF entry < Len(Entries)
       THEN entry' = entry + 1 /\ stage' = "whois"
       ELSE stage' = "group" /\ UNCHANGED entry
    /\ UNCHANGED <<policy, group, queue, tries, lost, offline, conditioning, compiled>>

\* FetchASNets gives the routes of the ASN, of which there must be one.
Whois ==
    /\ stage = "whois"
    /\ stage' = "fetch"
    /\ queue' = IF AsksWhois THEN Entry.routes ELSE <<>>
    /\ AsksWhois => Entry.routes # <<>>
    /\ UNCHANGED <<policy, group, entry, tries, lost, offline, conditioning, compiled>>

\* Mutant: a strict policy goes on without the routes, too.
WhoisFailsLeniently ==
    /\ stage = "whois" /\ AsksWhois
    /\ lost' = IF policy.whois = "strict" THEN lost ELSE lost \cup {<<group, entry>>}
    /\ stage' = "fetch"
    /\ UNCHANGED <<policy, group, entry, queue, tries, offline, conditioning, compiled>>

\* Unless whois is strict, the entry does without.
WhoisFails ==
    /\ stage = "whois" /\ AsksWhois
    /\ IF policy.whois = "strict"
       THEN Fails /\ offline' = TRUE /\ UNCHANGED lost
       ELSE stage' = "fetch" /\ lost' = lost \cup {<<group, entry>>} /\ UNCHANGED offline
    /\ UNCHANGED <<policy, group, entry, queue, tries, conditioning, compiled>>

\* The prefixes in the file, and the lines of a source.
Prefixes(e) == e.inline \o (IF e.source = "none" THEN <<>> ELSE e.lines)

\* What FetchPrefixes refuses: prefixes that do not parse, in the file or
\* extracted by jq-path or regex; no source at all; and a plain list of no line.
Unusable(e) ==
    \/ NoPrefix \in Elements(e.inline)
    \/ e.source = "extract" /\ NoPrefix \in Elements(e.lines)
    \/ e.source = "none" /\ e.inline = <<>> /\ ~e.asn
    \/ e.source = "plain" /\ Elements(Prefixes(e)) \subseteq {NoPrefix}

FetchPrefixes ==
    /\ stage = "fetch" /\ queue = <<>>
    /\ IF Unusable(Entry)
       THEN Fails /\ UNCHANGED queue
       ELSE stage' = "entry" /\ queue' = Prefixes(Entry)
    /\ UNCHANGED <<policy, group, entry, tries, lost, offline, conditioning, compiled>>

\* No answer, another status, a file that is not there, or a read that fails.
FetchFails ==
    /\ stage = "fetch" /\ queue = <<>>
    /\ Entry.source # "none"
    /\ Fails /\ offline' = TRUE
    /\ UNCHANGED <<policy, group, entry, queue, tries, lost, conditioning, compiled>>

\* A line of a plain list that does not parse is passed over.
InsertPrefix ==
    /\ queue # <<>>
    /\ stage \in {"fetch", "entry"}
    /\ tries' = IF Head(queue) = NoPrefix THEN tries
                ELSE [tries EXCEPT ![group] = Insert(@, Head(queue))]
    /\ queue' = Tail(queue)
    /\ UNCHANGED <<policy, stage, group, entry, lost, offline, conditioning, compiled>>

-----------------------------------------------------------------------------
(* resolveConditionName, called for every name and from itself.             *)

Always == [parses |-> TRUE, met |-> Request]
Never == [parses |-> TRUE, met |-> {}]
And(t, u) == [parses |-> t.parses /\ u.parses, met |-> t.met \cap u.met]
Or(t, u) == [parses |-> t.parses /\ u.parses, met |-> t.met \cup u.met]

\* A literal, once its reference has been replaced.
Value(x) ==
    LET text == IF x.isRef THEN resolved[x.name] ELSE x.text
    IN  IF x.negated THEN [text EXCEPT !.met = Request \ @] ELSE text

\* A call: the alternative and the literal it is at, what the alternative
\* says up to there, and what the alternatives before it say.
Call(n, a, i, t, u) == [name |-> n, alt |-> a, item |-> i, part |-> t, parts |-> u]

Top == stack[Len(stack)]
Below == SubSeq(stack, 1, Len(stack) - 1)
Alternatives == policy.conditions[Top.name]
Literals == Alternatives[Top.alt]
Reads == stage = "conditions" /\ stack # <<>> /\ Top.item <= Len(Literals)

Resolve(n) ==
    /\ stack' = Append(stack, Call(n, 1, 1, Always, Never))
    /\ resolving' = resolving \cup {n}
    /\ UNCHANGED <<stage, resolved>>

NextName ==
    /\ stage = "conditions" /\ stack = <<>>
    /\ \E n \in DOMAIN policy.conditions \ DOMAIN resolved : Resolve(n)
    /\ UNCHANGED <<policy, networking, compiled>>

\* Text stays, and a reference gives way to what is in the cache.
Substitute ==
    LET x == Literals[Top.item]
    IN  /\ Reads
        /\ x.isRef => x.name \in DOMAIN resolved
        /\ stack' = Append(Below, Call(Top.name, Top.alt, Top.item + 1,
                                       And(Top.part, Value(x)), Top.parts))
        /\ UNCHANGED <<policy, stage, networking, resolving, resolved, compiled>>

\* Mutant: a name met before counts as a cycle.
ReferToNew ==
    LET x == Literals[Top.item]
    IN  /\ Reads /\ x.isRef
        /\ IF \/ x.name \in resolving \cup DOMAIN resolved
              \/ x.name \notin DOMAIN policy.conditions
           THEN Fails /\ UNCHANGED conditioning
           ELSE Resolve(x.name)
        /\ UNCHANGED <<policy, networking, compiled>>

\* Mutant: a name that is being resolved is waited for.
ReferAndWait ==
    LET x == Literals[Top.item]
    IN  /\ Reads /\ x.isRef
        /\ x.name \notin resolving \cup DOMAIN resolved
        /\ IF x.name \notin DOMAIN policy.conditions
           THEN Fails /\ UNCHANGED conditioning
           ELSE Resolve(x.name)
        /\ UNCHANGED <<policy, networking, compiled>>

\* A reference to a cyclic or an unknown name is an error.
Refer ==
    LET x == Literals[Top.item]
    IN  /\ Reads /\ x.isRef
        /\ x.name \notin DOMAIN resolved
        /\ IF \/ x.name \in resolving
              \/ x.name \notin DOMAIN policy.conditions
           THEN Fails /\ UNCHANGED conditioning
           ELSE Resolve(x.name)
        /\ UNCHANGED <<policy, networking, compiled>>

AtEnd == stage = "conditions" /\ stack # <<>> /\ Top.item > Len(Literals)

\* Mutant: the next alternative adds to the text of the last.
NextAlternativeJoined ==
    /\ AtEnd /\ Top.alt < Len(Alternatives)
    /\ stack' = Append(Below, Call(Top.name, Top.alt + 1, 1, Top.part,
                                   Or(Top.parts, Top.part)))
    /\ UNCHANGED <<policy, stage, networking, resolving, resolved, compiled>>

NextAlternative ==
    /\ AtEnd /\ Top.alt < Len(Alternatives)
    /\ stack' = Append(Below, Call(Top.name, Top.alt + 1, 1, Always,
                                   Or(Top.parts, Top.part)))
    /\ UNCHANGED <<policy, stage, networking, resolving, resolved, compiled>>

Return ==
    /\ AtEnd /\ Top.alt = Len(Alternatives)
    /\ stack' = Below
    /\ resolving' = resolving \ {Top.name}
    /\ resolved' = Extended(resolved, Top.name, Or(Top.parts, Top.part))
    /\ UNCHANGED <<policy, stage, networking, compiled>>

AllNames ==
    /\ stage = "conditions" /\ stack = <<>>
    /\ DOMAIN policy.conditions \subseteq DOMAIN resolved
    /\ stage' = "rules"
    /\ UNCHANGED <<policy, networking, conditioning, compiled>>

-----------------------------------------------------------------------------
(* The rules: all the conditions of one must hold.                          *)

Rule == policy.rules[Len(compiled) + 1]

Compiles(rule) ==
    \A x \in Elements(rule) :
        (x.isRef => x.name \in DOMAIN resolved) /\ Value(x).parses

CompileRule ==
    /\ stage = "rules" /\ Len(compiled) < Len(policy.rules)
    /\ IF Compiles(Rule)
       THEN /\ compiled' =
                 Append(compiled, {r \in Request : \A x \in Elements(Rule) : r \in Value(x).met})
            /\ UNCHANGED stage
       ELSE Fails /\ UNCHANGED compiled
    /\ UNCHANGED <<policy, networking, conditioning>>

AllRules ==
    /\ stage = "rules" /\ Len(compiled) = Len(policy.rules)
    /\ stage' = "done"
    /\ UNCHANGED <<policy, networking, conditioning, compiled>>

Compile ==
    \/ Read \/ ReadFails \/ NextGroup \/ AllGroups \/ NextEntry \/ Whois \/ WhoisFails
    \/ FetchPrefixes \/ FetchFails \/ InsertPrefix
    \/ NextName \/ Substitute \/ Refer \/ NextAlternative \/ Return \/ AllNames
    \/ CompileRule \/ AllRules

PolicySpec == PolicyInit /\ [][Compile]_policyVars

\* Nothing makes the compilation wait for ever: whois and http have timeouts.
PolicyFairSpec == PolicySpec /\ WF_policyVars(Compile)
-----------------------------------------------------------------------------
(* Properties.                                                             *)

EntryNets(g, i) ==
    LET e == policy.networks[g][i]
    IN  (UNION {Elements(e.inline),
                IF e.source = "none" THEN {} ELSE Elements(e.lines),
                IF e.asn /\ policy.whois # "off" /\ <<g, i>> \notin lost
                THEN Elements(e.routes) ELSE {}}) \ {NoPrefix}

\* Once all the networks have been read, a lookup in a group answers for all
\* that the group's entries name, in whatever order they were put in: a source
\* that failed half-way fails the policy and is never passed over with what it
\* gave so far. The one exception is a whois that fails while asn.whois_strict
\* is off.
GroupsWhole ==
    stage \in {"conditions", "rules", "done"} =>
        /\ DOMAIN tries = DOMAIN policy.networks
        /\ policy.whois = "strict" => lost = {}
        /\ \A g \in DOMAIN tries :
             Answers(tries[g], UNION {EntryNets(g, i) : i \in DOMAIN policy.networks[g]})

\* A literal holds for a request when val says which requests names hold for.
Holds(x, r, val) == (r \in IF x.isRef THEN val[x.name] ELSE x.text.met) # x.negated

AllHold(seq, r, val) == \A x \in Elements(seq) : Holds(x, r, val)

\* The compiled rules mean what the file says: there is a meaning for the names
\* in which each is true of the requests that one of its alternatives is true
\* of, and in it every rule applies to the requests all its conditions hold for.
\* As there are no cycles (RefusedRightly), there is only one such meaning.
RulesMean ==
    stage = "done" =>
        \E val \in [DOMAIN policy.conditions -> SUBSET Request] :
            /\ \A n \in DOMAIN val :
                 val[n] = {r \in Request : \E alt \in Elements(policy.conditions[n]) :
                                             AllHold(alt, r, val)}
            /\ compiled = [i \in DOMAIN policy.rules |->
                             {r \in Request : AllHold(policy.rules[i], r, val)}]

Names == DOMAIN policy.conditions
Used(seq) == {x.name : x \in {y \in Elements(seq) : y.isRef}}
References(n) == UNION {Used(alt) : alt \in Elements(policy.conditions[n])}
Broken(seq) == \E x \in Elements(seq) : ~x.isRef /\ ~x.text.parses

\* The reasons there are for refusing a policy.
NoNetworks ==
    \E g \in DOMAIN policy.networks : \E e \in Elements(policy.networks[g]) :
        \/ NoPrefix \in Elements(e.inline)
        \/ e.source = "extract" /\ NoPrefix \in Elements(e.lines)
        \/ /\ Elements(e.inline) = {}
           /\ \/ e.source = "none" /\ ~e.asn
              \/ e.source = "plain" /\ Elements(e.lines) \subseteq {NoPrefix}

Unknown ==
    \/ \E n \in Names : ~(References(n) \subseteq Names)
    \/ \E rule \in Elements(policy.rules) : ~(Used(rule) \subseteq Names)

Cyclic ==
    \E S \in SUBSET Names : S # {} /\ \A n \in S : References(n) \cap S # {}

\* A rule comes upon an unparsable text, whatever names it goes through.
Unparsable ==
    \E rule \in Elements(policy.rules) : \A S \in SUBSET Names :
        /\ Used(rule) \subseteq S
        /\ \A n \in S : References(n) \subseteq S
        => \/ Broken(rule)
           \/ \E n \in S : \E alt \in Elements(policy.conditions[n]) : Broken(alt)

\* A policy is compiled to the end only if nothing is wrong with it, and is
\* given up only if something is, or a file or a server failed: a name that
\* several others refer to, or a rule several times, is not a cycle, while one
\* that leads back to itself by any way is.
RefusedRightly ==
    LET flawed == NoNetworks \/ Unknown \/ Cyclic \/ Unparsable
    IN  /\ stage = "done" => ~flawed
        /\ stage = "failed" => flawed \/ offline

\* The compilation ends, whatever the names refer to: the watcher that runs it
\* is not held up for ever.
LoadEnds == <>(stage \in {"done", "failed"})
=============================================================================
