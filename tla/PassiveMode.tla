---------------------------- MODULE PassiveMode ----------------------------
(***************************************************************************)
(* Progressive mode: the part of handleRequest (main.go) that trusts a     *)
(* browser at first, and the counters it trusts by (IncrPassiveCount of    *)
(* both stores). A request with a valid passive cookie is counted under    *)
(* the cookie, any other under its network; one within the budget is       *)
(* served, and in the second case gets a cookie.                           *)
(*                                                                         *)
(* A client sends requests in parallel, drops its cookie or presents that  *)
(* of another. A cookie is what signCookie makes of it: its end and the    *)
(* browser it is bound to, and nothing else, so that two browsers alike    *)
(* that get theirs in one second get the same. Its signature is written in *)
(* lower-case hexadecimal and read in any case: a cookie has several       *)
(* spellings, and the stores count each of them apart.                     *)
(*                                                                         *)
(* The two stores differ in when a counter ends and in whether they fail.  *)
(***************************************************************************)
EXTENDS Integers, Sequences, FiniteSets

CONSTANTS
    Client,
    Browser, BrowserOf,   \* user agent, language and ciphers of a client
    Network, NetworkOf,   \* clientNetwork of its address
    Spelling, Lower,      \* of the digits of a signature; signCookie's own
    NoCookie,
    NoKey,
    Worker,
    MaxRequests,          \* cfg.Progressive.MaxRequests
    RequestWindow,        \* cfg.Progressive.RequestWindow
    PassiveTTL,           \* cfg.Progressive.PassiveTTL
    Stores,               \* the kinds of store there may be
    Outages,              \* Redis does not always answer
    MaxTime,              \* bound: the clock stops
    MaxCalls              \* bound: requests that are counted

ASSUME PassiveAssumption ==
    /\ BrowserOf \in [Client -> Browser]
    /\ NetworkOf \in [Client -> Network]
    /\ Lower \in Spelling
    /\ IsFiniteSet(Worker)
    /\ {MaxRequests, RequestWindow, PassiveTTL} \subseteq Nat \ {0}
    /\ {MaxTime, MaxCalls} \subseteq Nat
    /\ Stores \subseteq {"memory", "redis"}
    /\ Outages \in BOOLEAN

VARIABLES
    now,
    store,        \* the one store.go was told to use
    passiveCnt,   \* the counters: how often, and until when
    jar,          \* the passive cookie of each client
    work,         \* the local state of each worker's handler
    log           \* history: the calls of IncrPassiveCount

vars == <<now, store, passiveCnt, jar, work, log>>

\* The values of a cookie that verifyCookie may accept.
Cookies == [browser : Browser, ends : PassiveTTL..(MaxTime + PassiveTTL),
            spelling : Spelling]

\* The stores count under the value as it was sent.
Key == Cookies \cup Network

Counters == [n : 0..(MaxRequests + 1), ends : 0..(MaxTime + RequestWindow)]

Request(place, client, cookie, key, answered) ==
    [pc |-> place, client |-> client, cookie |-> cookie, key |-> key,
     answered |-> answered]

Idle == Request("idle", CHOOSE client \in Client : TRUE, NoCookie, NoKey, TRUE)

Init ==
    /\ now = 0
    /\ store \in Stores
    /\ passiveCnt = [key \in Key |-> [n |-> 0, ends |-> 0]]
    /\ jar = [client \in Client |-> NoCookie]
    /\ work = [w \in Worker |-> Idle]
    /\ log = <<>>

\* A page of passive_paths is asked for, with any cookie or none.
Ask(w, client, cookie) ==
    /\ work[w].pc = "idle"
    /\ work' = [work EXCEPT ![w] =
                  Request("judge", client, cookie, NoKey, TRUE)]
    /\ UNCHANGED <<now, store, passiveCnt, jar, log>>

\* validCookieValue: signed for this browser, and not past its end. The
\* signature is decoded before it is compared, whatever its spelling.
Valid(cookie, client) ==
    /\ cookie # NoCookie
    /\ now < cookie.ends
    /\ cookie.browser = BrowserOf[client]

Challenge(w) == work' = [work EXCEPT ![w] = Idle]

\* A browser that contradicts itself is challenged uncounted; any other is
\* counted under its cookie, as it is spelled, or under its network.
Judge(w) ==
    /\ work[w].pc = "judge"
    /\ \/ Challenge(w)
       \/ /\ Len(log) + Cardinality({v \in Worker : work[v].pc = "count"})
               < MaxCalls
          /\ work' = [work EXCEPT ![w].pc = "count",
                        ![w].key = IF Valid(work[w].cookie, work[w].client)
                                   THEN work[w].cookie
                                   ELSE NetworkOf[work[w].client]]
    /\ UNCHANGED <<now, store, passiveCnt, jar, log>>

Alive(key) == passiveCnt[key].n > 0 /\ now <= passiveCnt[key].ends

\* Mutant: the counter is not started again when it has ended.
CountedOn(key) ==
    [n |-> IF passiveCnt[key].n <= MaxRequests THEN passiveCnt[key].n + 1
           ELSE MaxRequests + 1,
     ends |-> now + RequestWindow]

\* Mutant: every request counts as the first.
CountedAfresh(key) == [n |-> 1, ends |-> now + RequestWindow]

\* The counter after one more request, up to the first that is too many. In
\* memory it ends a window after its first request, in Redis after its last.
Counted(key) ==
    [n |-> IF ~Alive(key) THEN 1
           ELSE IF passiveCnt[key].n <= MaxRequests THEN passiveCnt[key].n + 1
           ELSE MaxRequests + 1,
     ends |-> IF Alive(key) /\ store = "memory" THEN passiveCnt[key].ends
              ELSE now + RequestWindow]

Called(key, pass, answered) ==
    log' = Append(log, [key |-> key, at |-> now, pass |-> pass,
                        answered |-> answered])

\* IncrPassiveCount, and the comparison with the budget.
Count(w) ==
    /\ work[w].pc = "count"
    /\ LET key == work[w].key
           pass == Counted(key).n <= MaxRequests
       IN /\ passiveCnt' = [passiveCnt EXCEPT ![key] = Counted(key)]
          /\ Called(key, pass, TRUE)
          /\ IF pass THEN work' = [work EXCEPT ![w].pc = "serve"]
             ELSE Challenge(w)
    /\ UNCHANGED <<now, store, jar>>

\* Redis counts, its answer is lost, and the client library asks once more.
CountLost(w) ==
    /\ store = "redis" /\ Outages
    /\ work[w].pc = "count"
    /\ LET key == work[w].key
       IN  passiveCnt' = [passiveCnt EXCEPT ![key] = Counted(key)]
    /\ UNCHANGED <<now, store, jar, work, log>>

\* Redis gives no answer in time: the method returns 0.
CountUnanswered(w) ==
    /\ store = "redis" /\ Outages
    /\ work[w].pc = "count"
    /\ Called(work[w].key, TRUE, FALSE)
    /\ work' = [work EXCEPT ![w].pc = "serve", ![w].answered = FALSE]
    /\ UNCHANGED <<now, store, passiveCnt, jar>>

\* setPassiveCookie.
Issued(client) == [browser |-> BrowserOf[client], ends |-> now + PassiveTTL,
                   spelling |-> Lower]

\* The request is passed on; one counted under its network gets a cookie.
Serve(w) ==
    /\ work[w].pc = "serve"
    /\ jar' = IF work[w].key \in Network
              THEN [jar EXCEPT ![work[w].client] = Issued(work[w].client)]
              ELSE jar
    /\ work' = [work EXCEPT ![w] = Idle]
    /\ UNCHANGED <<now, store, passiveCnt, log>>

\* clearPassiveCookie, or the client drops it itself.
Drop(client) ==
    /\ jar[client] # NoCookie
    /\ jar' = [jar EXCEPT ![client] = NoCookie]
    /\ UNCHANGED <<now, store, passiveCnt, work, log>>

Tick ==
    /\ now < MaxTime
    /\ now' = now + 1
    /\ UNCHANGED <<store, passiveCnt, jar, work, log>>

\* No cookie, or one that was issued, in any spelling.
Presented ==
    {NoCookie} \cup
    {[jar[client] EXCEPT !.spelling = spelling] :
        client \in {d \in Client : jar[d] # NoCookie}, spelling \in Spelling}

Next ==
    \/ \E w \in Worker :
          \/ \E client \in Client, cookie \in Presented : Ask(w, client, cookie)
          \/ Judge(w) \/ Count(w) \/ CountLost(w) \/ CountUnanswered(w)
          \/ Serve(w)
    \/ \E client \in Client : Drop(client)
    \/ Tick

Spec == Init /\ [][Next]_vars

-----------------------------------------------------------------------------
(* Properties.                                                             *)

\* Every variable keeps its shape; a cookie lives for PassiveTTL when made.
TypeOK ==
    /\ now \in 0..MaxTime
    /\ store \in Stores
    /\ passiveCnt \in [Key -> Counters]
    /\ jar \in [Client -> Cookies \cup {NoCookie}]
    /\ \A w \in Worker :
          /\ work[w].pc \in {"idle", "judge", "count", "serve"}
          /\ work[w].cookie \in Cookies \cup {NoCookie}
          /\ work[w].key \in Key \cup {NoKey}
    /\ Len(log) <= MaxCalls

Calls(key, from, to) ==
    {i \in DOMAIN log : log[i].key = key /\ log[i].at \in from..to}

\* The first MaxRequests requests for a value of the cookie, or from a network,
\* within a window are served by the memory store: one that is challenged had
\* as many before it. In Redis the window begins anew with every request.
FirstServed ==
    store = "memory" =>
        \A i \in DOMAIN log :
            ~log[i].pass =>
                Cardinality({j \in Calls(log[i].key, log[i].at - RequestWindow,
                                         log[i].at) : j <= i}) > MaxRequests

Served(i) == log[i].pass /\ log[i].answered

\* What can pass in a window's length. In memory one window can begin in it as
\* another ends, whose first request lies outside.
Budget == IF store = "redis" THEN MaxRequests ELSE 2 * MaxRequests - 1

\* However its requests are spread, and whatever was lost on the way, a value
\* of the cookie or a network passes no more than its budget of requests that
\* the store has answered within a window's length. It is about values, as the
\* counters are: a cookie that is sent in two spellings has the budget of each.
BudgetKept ==
    \A i \in DOMAIN log :
        Cardinality({j \in Calls(log[i].key, log[i].at,
                                 log[i].at + RequestWindow) : Served(j)}) <= Budget

\* With Redis out of reach a client without a cookie is still challenged, as
\* the README says.
OutageChallenges ==
    \A w \in Worker :
        work[w].pc = "serve" /\ work[w].key \in Network => work[w].answered
=============================================================================
