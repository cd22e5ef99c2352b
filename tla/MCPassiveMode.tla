---------------------------- MODULE MCPassiveMode ----------------------------
(* Small instances of PassiveMode for TLC.                                 *)
EXTENDS PassiveMode, TLC

CONSTANTS c, d, e   \* clients: c and d are alike, d and e share a network
CONSTANTS firefox, chrome, near, far

MCBrowserOf == c :> firefox @@ d :> firefox @@ e :> chrome

MCNetworkOf == c :> near @@ d :> far @@ e :> far

Alike == [client \in Client |-> firefox]

OneNetwork == [client \in Client |-> near]

\* What keeps the instance small. In memory the clients that are alike send
\* requests in parallel; before Redis, which may fail, those of one network send
\* them one after another and one fewer. Only d spells its cookie anew.
Sends(client, cookie) ==
    /\ client \in IF store = "memory" THEN {c, d} ELSE {d, e}
    /\ cookie # NoCookie => client = d \/ cookie.spelling = Lower

Starts(w) == work[w].pc = "idle" /\ work'[w].pc # "idle"

At(places) == Cardinality({w \in Worker : work[w].pc \in places})

MCNext ==
    /\ Next
    /\ \A w \in Worker : Starts(w) => Sends(work'[w].client, work'[w].cookie)
    /\ store = "redis" =>
          /\ At({"judge", "count", "serve"})' <= 1
          /\ Len(log') + At({"count"})' < MaxCalls

MCSpec == Init /\ [][MCNext]_vars

Symmetric == Permutations(Worker)
=============================================================================
