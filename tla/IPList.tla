------------------------------- MODULE IPList -------------------------------
(***************************************************************************)
(* A list of addresses fetched from elsewhere again and again: the Tor     *)
(* exits (tor.go) and the AbuseIPDB blacklist (abuseipdb.go), both read by *)
(* parseIPList. The trie is built line by line beside the one in use, and  *)
(* takes its place whole: requests look up the trie in the box at any time *)
(* in between.                                                             *)
(*                                                                         *)
(* The server may publish another list, answer with an error or a page     *)
(* that is no list, or break off in the middle.                            *)
(***************************************************************************)
EXTENDS IPTrie, Sequences

CONSTANTS
    NoNet,           \* a line that is no address
    Lists,           \* the lists the server may publish
    Unset,           \* the box before the first list
    Refreshed,       \* the list is fetched again (refresh > 0)
    MaxPublished,    \* bound: how often the server changes its list
    MaxFailures      \* bound: fetches that fail

ASSUME ListAssumption ==
    /\ NoNet \notin Net
    /\ Lists \subseteq Seq(Net \cup {NoNet})
    /\ Unset \notin Trie
    /\ Refreshed \in BOOLEAN
    /\ {MaxPublished, MaxFailures} \subseteq Nat

VARIABLES
    pc,          \* of the fetcher
    served,      \* the list at the server
    list,        \* the one a fetch is reading
    line,        \* how many of its lines have been read
    building,    \* the trie of these lines
    count,
    box,         \* cfg.torExits or the blacklist box
    source,      \* history: the networks of the list the box was made of
    published, failures

vars == <<pc, served, list, line, building, count, box, source, published,
          failures>>

reading == <<list, line, building, count>>

NetsOf(lines) == {lines[i] : i \in DOMAIN lines} \ {NoNet}

Init ==
    /\ pc = "fetch"
    /\ served \in Lists
    /\ list = <<>> /\ line = 0 /\ building = EmptyTrie /\ count = 0
    /\ box = Unset
    /\ source = {}
    /\ published = 0 /\ failures = 0

Publish ==
    /\ published < MaxPublished
    /\ published' = published + 1
    /\ served' \in Lists
    /\ UNCHANGED <<pc, reading, box, source, failures>>

\* Mutant: an answer kept from the first fetch is read again.
FetchKept ==
    /\ pc = "fetch"
    /\ pc' = "read"
    /\ list' = IF list = <<>> THEN served ELSE list
    /\ line' = 0 /\ building' = EmptyTrie /\ count' = 0
    /\ UNCHANGED <<served, box, source, published, failures>>

\* The server answers with status 200.
Fetch ==
    /\ pc = "fetch"
    /\ pc' = "read"
    /\ list' = served /\ line' = 0 /\ building' = EmptyTrie /\ count' = 0
    /\ UNCHANGED <<served, box, source, published, failures>>

\* Mutant: lines are put into the trie in use.
ReadLineInPlace ==
    /\ pc = "read" /\ line < Len(list)
    /\ line' = line + 1
    /\ IF list[line + 1] = NoNet
       THEN UNCHANGED <<building, count, box>>
       ELSE /\ building' = Insert(building, list[line + 1])
            /\ count' = count + 1
            /\ box' = IF box = Unset THEN box ELSE building'
    /\ UNCHANGED <<pc, served, list, source, published, failures>>

\* A line of parseIPList; one that is no address is left out.
ReadLine ==
    /\ pc = "read" /\ line < Len(list)
    /\ line' = line + 1
    /\ IF list[line + 1] = NoNet
       THEN UNCHANGED <<building, count>>
       ELSE building' = Insert(building, list[line + 1]) /\ count' = count + 1
    /\ UNCHANGED <<pc, served, list, box, source, published, failures>>

Rest == pc' = IF Refreshed THEN "sleep" ELSE "done"

\* Mutant: a list without addresses is taken.
TakeAny ==
    /\ pc = "read" /\ line = Len(list)
    /\ Rest
    /\ box' = building /\ source' = NetsOf(list)
    /\ UNCHANGED <<served, reading, published, failures>>

\* The end of a list that holds an address: the new trie takes the box.
Take ==
    /\ pc = "read" /\ line = Len(list)
    /\ count > 0
    /\ Rest
    /\ box' = building /\ source' = NetsOf(list)
    /\ UNCHANGED <<served, reading, published, failures>>

\* The end of one that holds none: "no IPs parsed from response".
Refuse ==
    /\ pc = "read" /\ line = Len(list)
    /\ count = 0
    /\ Rest
    /\ UNCHANGED <<served, reading, box, source, published, failures>>

\* No answer, another status, or an answer that breaks off.
Fail ==
    /\ pc \in {"fetch", "read"}
    /\ failures < MaxFailures
    /\ failures' = failures + 1
    /\ Rest
    /\ UNCHANGED <<served, reading, box, source, published>>

\* The refresh time is over.
Wake ==
    /\ pc = "sleep"
    /\ pc' = "fetch"
    /\ UNCHANGED <<served, reading, box, source, published, failures>>

Next == Publish \/ Fetch \/ ReadLine \/ Take \/ Refuse \/ Fail \/ Wake

Fetching == Fetch \/ ReadLine \/ Take \/ Refuse \/ Wake

Spec == Init /\ [][Next]_vars

\* The fetcher runs on.
FairSpec == Spec /\ WF_vars(Fetching)

-----------------------------------------------------------------------------
(* Properties.                                                             *)

\* Every variable keeps its shape.
TypeOK ==
    /\ pc \in {"fetch", "read", "sleep", "done"}
    /\ {served, list} \subseteq Lists \cup {<<>>}
    /\ line \in 0..Len(list)
    /\ count \in 0..line
    /\ building \in Trie
    /\ box \in Trie \cup {Unset}
    /\ source \subseteq Net
    /\ published \in 0..MaxPublished /\ failures \in 0..MaxFailures

\* A lookup answers for one whole list as a search through its lines would, in
\* whatever order they came, whichever cover others, and whatever a fetch is
\* doing at the time.
WholeList == box # Unset => Answers(box, source)

\* A failed fetch, or a page that holds no address, never leaves the program
\* without the list it had: from the first list on there is always one that
\* contains an address.
NeverWiped ==
    [][box # Unset => box' # Unset /\ \E a \in Address : Contains(box', a)]_vars

\* A list the server goes on publishing comes into force in the end, however
\* many fetches failed before.
ListsArrive ==
    <>[][served' = served]_vars
        => <>[](NetsOf(served) # {} => source = NetsOf(served))
=============================================================================
