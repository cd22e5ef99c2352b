------------------------------- MODULE IPTrie -------------------------------
(***************************************************************************)
(* The binary trie of IP networks (ipTrie in policy.go): allowlists and    *)
(* rules, the Tor exits and the AbuseIPDB blacklist are kept in it.        *)
(*                                                                         *)
(* A network is a family and the bits its mask leaves; an address is a     *)
(* network that uses all the bits of its family. A node is named by the    *)
(* bits that lead to it from the root of its family.                       *)
(***************************************************************************)
EXTENDS Naturals

CONSTANTS
    Family,   \* IPv4 and IPv6
    Width     \* how many bits the addresses of a family have

ASSUME TrieAssumption == Width \in [Family -> Nat]

\* net.IPNet, once masked: ones is Mask.Size().
Network(family, ones) ==
    [family : {family}, ones : {ones}, bits : [1..ones -> {0, 1}]]

Net == UNION {UNION {Network(family, ones) : ones \in 0..Width[family]} :
                family \in Family}

Address == {net \in Net : net.ones = Width[net.family]}

\* The node the walk along net is at after n bits.
Upto(net, n) ==
    [family |-> net.family, ones |-> n, bits |-> [i \in 1..n |-> net.bits[i]]]

Root(family) == [family |-> family, ones |-> 0, bits |-> [i \in 1..0 |-> 0]]

Trie == [nodes : SUBSET Net, marked : SUBSET Net]

\* newIPTrie.
EmptyTrie == [nodes |-> {Root(family) : family \in Family}, marked |-> {}]

\* The loop has not met a marked node before bit n; the root is not looked at.
WalksTo(trie, net, n) ==
    \A m \in 1..(n - 1) : Upto(net, m) \notin trie.marked

\* Insert walks down, making the nodes it lacks, and gives up at a node that is
\* marked, for everything below is covered.
Insert(trie, net) ==
    [nodes |-> trie.nodes \cup
                 {Upto(net, n) : n \in {k \in 0..net.ones : WalksTo(trie, net, k)}},
     marked |-> IF WalksTo(trie, net, net.ones + 1)
                THEN trie.marked \cup {net} ELSE trie.marked]

\* Contains: a marked node lies on the walk, before the first that is missing.
Contains(trie, address) ==
    \E n \in 0..address.ones :
        /\ \A m \in 0..n : Upto(address, m) \in trie.nodes
        /\ Upto(address, n) \in trie.marked

\* What the trie stands for: the address lies within the network.
Covers(net, address) ==
    /\ net.family = address.family
    /\ net.ones <= address.ones
    /\ \A i \in 1..net.ones : net.bits[i] = address.bits[i]

\* The trie answers for the networks as a search through all of them would.
Answers(trie, nets) ==
    \A address \in Address :
        Contains(trie, address) <=> \E net \in nets : Covers(net, address)
=============================================================================
