----------------------------- MODULE RuleMatching -----------------------------
(***************************************************************************)
(* Requests on their way through the rules, while these are reloaded       *)
(* (RulesReload): evaluate and the match functions of rules.go and         *)
(* policy.go, networkContains and lookupASN, and the cache of ASN lookups  *)
(* in lru.go. Each compilation makes a matcher with a cache of its own,    *)
(* which all the requests share that run under the rules it belongs to.    *)
(***************************************************************************)
EXTENDS RulesReload, Sequences

CONSTANTS
    Proc,      \* requests handled at the same time
    Client,    \* addresses
    Rules,     \* what a version of the file says, compiled
    Asn,       \* what the database of a version says of an address; 0 if nothing
    Capacity   \* maxASNCacheSize

(* A rule holds for a client if its other conditions are met and, if it has  *)
(* one, its network condition: by the trie, or by the ASN.                   *)
Rule == [action : STRING, met : SUBSET Client, onNetwork : BOOLEAN,
         nets : SUBSET Client, asns : SUBSET Nat]

ASSUME MatchingAssumption ==
    /\ Rules \in [Version -> Seq(Rule)]
    /\ Asn \in [Version -> [Client -> Nat]]
    /\ Capacity \in Nat \ {0}

VARIABLES
    caches,   \* lruCache of every matcher made: its list and its map
    inUse,    \* the matcher of the rules in the box
    request,  \* of each process, with the box it loaded and the rule it is at
    recent    \* history: the keys used of every cache, the latest first

matching == <<caches, inUse, request, recent>>

EmptyCache == [list |-> <<>>, items |-> [c \in {} |-> 0]]

Idle == [at |-> "idle", action |-> "none"]

MatchInit ==
    /\ Init
    /\ caches = <<>> /\ recent = <<>> /\ inUse = 0
    /\ request = [p \in Proc |-> Idle]

-----------------------------------------------------------------------------
(* lru.go: an element of the list moves to the front when it is used; a new  *)
(* one comes to the front of the others.                                     *)

ToFront(list, key) ==
    LET found == {i \in DOMAIN list : list[i] = key}
        place == IF found = {} THEN Len(list) + 1 ELSE CHOOSE i \in found : TRUE
        size == IF found = {} THEN Len(list) + 1 ELSE Len(list)
    IN  [i \in 1..size |->
            IF i = 1 THEN key ELSE IF i <= place THEN list[i - 1] ELSE list[i]]

Extended(f, x, y) == [i \in DOMAIN f \cup {x} |-> IF i = x THEN y ELSE f[i]]

\* Mutant: the element leaves the list and stays in the map.
RemoveOldestInList(cache) ==
    [cache EXCEPT !.list = SubSeq(@, 1, Len(@) - 1)]

RemoveOldest(cache) ==
    LET oldest == cache.list[Len(cache.list)]
    IN  [list |-> SubSeq(cache.list, 1, Len(cache.list) - 1),
         items |-> [k \in DOMAIN cache.items \ {oldest} |-> cache.items[k]]]

Put(cache, key, value) ==
    LET put == [list |-> ToFront(cache.list, key), items |-> Extended(cache.items, key, value)]
    IN  IF Len(put.list) > Capacity THEN RemoveOldest(put) ELSE put

-----------------------------------------------------------------------------
(* The rules change.                                                        *)

Compiles == pc \in {"load", "reload"} /\ pc' \in {"store", "swap"} /\ compiled' \in Version

\* Mutant: a new matcher takes over the cache of the last.
NewMatcherKeeps ==
    IF Compiles /\ caches # <<>>
    THEN /\ caches' = Append(caches, caches[Len(caches)])
         /\ recent' = Append(recent, recent[Len(recent)])
    ELSE IF Compiles THEN caches' = <<EmptyCache>> /\ recent' = <<<<>>>>
    ELSE UNCHANGED <<caches, recent>>

\* buildPolicyMatcher makes a cache.
NewMatcher ==
    IF Compiles THEN caches' = Append(caches, EmptyCache) /\ recent' = Append(recent, <<>>)
    ELSE UNCHANGED <<caches, recent>>

\* The box brings the matcher into use, and requests see a time with other rules.
Reloads ==
    /\ NewMatcher
    /\ inUse' = IF pc \in {"store", "swap"} /\ pc' # pc THEN Len(caches) ELSE inUse
    /\ request' = [p \in Proc |-> IF request[p].at = "idle" THEN request[p]
                                  ELSE [request[p] EXCEPT !.inForce = @ \cup {box'}]]

-----------------------------------------------------------------------------
(* A request.                                                               *)

At(p, place) == request[p].at = place
RulesOf(p) == IF request[p].box \in Version THEN Rules[request[p].box] ELSE <<>>
CurrentRule(p) == RulesOf(p)[request[p].rule]

Steps(p, r) == request' = [request EXCEPT ![p] = r]

\* The handler loads the box, once.
Arrive(p) ==
    /\ At(p, "idle")
    /\ \E c \in Client :
         Steps(p, [at |-> "rule", client |-> c, box |-> box, matcher |-> inUse,
                   rule |-> 1, action |-> "none", inForce |-> {box}])
    /\ UNCHANGED <<vars, caches, inUse, recent>>

Decided(p, action) == [request[p] EXCEPT !.at = "decided", !.action = action]

\* A rule that matches decides; after one that does not comes the next.
Match(p, matches) ==
    IF matches THEN Decided(p, CurrentRule(p).action)
    ELSE [request[p] EXCEPT !.at = "rule", !.rule = @ + 1]

\* The rule at hand, up to the point where it needs the ASN; default_action
\* after the last, or if there are no rules.
Evaluate(p) ==
    /\ At(p, "rule")
    /\ IF request[p].rule > Len(RulesOf(p)) THEN Steps(p, Decided(p, "default"))
       ELSE LET rule == CurrentRule(p)
                client == request[p].client
            IN  IF client \in rule.met /\ rule.onNetwork /\ client \notin rule.nets /\ rule.asns # {}
                THEN Steps(p, [request[p] EXCEPT !.at = "get"])
                ELSE Steps(p, Match(p, client \in rule.met /\ (rule.onNetwork => client \in rule.nets)))
    /\ UNCHANGED <<vars, caches, inUse, recent>>

MatchAsn(p, asn) == Steps(p, Match(p, asn # 0 /\ asn \in CurrentRule(p).asns))

Use(p) ==
    recent' = [recent EXCEPT ![request[p].matcher] = ToFront(@, request[p].client)]

\* lookupASN: Get finds the address in the cache.
Hit(p) ==
    LET r == request[p]
    IN  /\ At(p, "get")
        /\ r.client \in DOMAIN caches[r.matcher].items
        /\ caches' = [caches EXCEPT ![r.matcher].list = ToFront(@, r.client)]
        /\ MatchAsn(p, caches[r.matcher].items[r.client])
        /\ Use(p)
        /\ UNCHANGED <<vars, inUse>>

\* Get finds nothing; the database is asked. Others may put meanwhile.
Miss(p) ==
    LET r == request[p]
    IN  /\ At(p, "get")
        /\ r.client \notin DOMAIN caches[r.matcher].items
        /\ Steps(p, [r EXCEPT !.at = "put"])
        /\ UNCHANGED <<vars, caches, inUse, recent>>

PutAsn(p) ==
    LET r == request[p]
        asn == Asn[r.box][r.client]
    IN  /\ At(p, "put")
        /\ caches' = [caches EXCEPT ![r.matcher] = Put(@, r.client, asn)]
        /\ MatchAsn(p, asn)
        /\ Use(p)
        /\ UNCHANGED <<vars, inUse>>

Leave(p) ==
    /\ At(p, "decided")
    /\ Steps(p, Idle)
    /\ UNCHANGED <<vars, caches, inUse, recent>>

Requests ==
    \E p \in Proc : Arrive(p) \/ Evaluate(p) \/ Hit(p) \/ Miss(p) \/ PutAsn(p) \/ Leave(p)

MatchSpec == MatchInit /\ [][(Next /\ Reloads) \/ Requests]_<<vars, matching>>

-----------------------------------------------------------------------------
(* Properties.                                                             *)

Applies(rule, c, asn) ==
    c \in rule.met /\ (rule.onNetwork => c \in rule.nets \/ (asn # 0 /\ asn \in rule.asns))

\* What a version says of a client: its first rule that applies.
Verdict(v, c) ==
    LET rules == IF v \in Version THEN Rules[v] ELSE <<>>
        applying == {i \in DOMAIN rules : Applies(rules[i], c, Asn[v][c])}
    IN  IF applying = {} THEN "default"
        ELSE rules[CHOOSE i \in applying : \A j \in applying : i <= j].action

\* A request is decided by one version of the rules, whole, that was in force
\* while it was handled, with the networks and the database of that version:
\* not by some rules of one and some of another, nor by an ASN that a request
\* under other rules looked up.
DecidedByOne ==
    \A p \in Proc : At(p, "decided") =>
        \E v \in request[p].inForce : request[p].action = Verdict(v, request[p].client)

\* However the lookups of requests interleave, the cache holds the addresses
\* used last, as many as there is room for, and its list and its map hold the
\* same: nothing that was evicted lingers and nothing in use is forgotten.
RecentKept ==
    \A m \in DOMAIN caches :
        LET size == IF Len(recent[m]) < Capacity THEN Len(recent[m]) ELSE Capacity
        IN  /\ caches[m].list = SubSeq(recent[m], 1, size)
            /\ DOMAIN caches[m].items = {caches[m].list[i] : i \in 1..size}
=============================================================================
