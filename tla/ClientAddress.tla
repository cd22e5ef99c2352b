---------------------------- MODULE ClientAddress ----------------------------
(***************************************************************************)
(* Whose request it is (peerIP and clientIP in main.go, contains in        *)
(* rules.go). A request comes directly or through proxies; each notes the  *)
(* address it got it from at the end of X-Forwarded-For. What the sender   *)
(* had put into the header itself stays in front of that.                  *)
(***************************************************************************)
EXTENDS Naturals, Sequences

CONSTANTS
    Trusted,   \* trusted_proxies
    Outside,   \* other addresses
    Junk,      \* what is no address
    MaxHops    \* bound on the proxies, and on what senders put in

ASSUME RouteAssumption ==
    /\ Trusted \cap Outside = {}
    /\ Junk \notin Trusted \cup Outside
    /\ MaxHops \in Nat

VARIABLES
    header,   \* X-Forwarded-For
    peer,     \* the address the connection comes from
    hops,
    origin    \* history: the last hop that is not a trusted proxy

routeVars == <<header, peer, hops, origin>>

RouteInit ==
    /\ header \in UNION {[1..n -> Trusted \cup Outside \cup {Junk}] : n \in 0..MaxHops}
    /\ peer \in Outside
    /\ hops = 0
    /\ origin = peer

\* A proxy passes the request on.
Forward ==
    /\ hops < MaxHops
    /\ hops' = hops + 1
    /\ header' = Append(header, peer)
    /\ peer' \in Trusted \cup Outside
    /\ origin' = IF peer' \in Trusted THEN origin ELSE peer'

RouteSpec == RouteInit /\ [][Forward]_routeVars

\* Mutant: the header is read from its beginning.
ClientIPFirst ==
    LET parts == {i \in DOMAIN header : header[i] # Junk /\ header[i] \notin Trusted}
    IN  IF peer \notin Trusted THEN [ip |-> peer, resolved |-> TRUE]
        ELSE IF parts = {} THEN [ip |-> peer, resolved |-> FALSE]
        ELSE [ip |-> header[CHOOSE i \in parts : \A j \in parts : i <= j], resolved |-> TRUE]

\* clientIP with trust_real_ip: the last part that is an address and no trusted
\* proxy; the first part may be one.
ClientIP ==
    LET parts == {i \in DOMAIN header :
                    header[i] # Junk /\ (i = 1 \/ header[i] \notin Trusted)}
    IN  IF peer \notin Trusted THEN [ip |-> peer, resolved |-> TRUE]
        ELSE IF parts = {} THEN [ip |-> peer, resolved |-> FALSE]
        ELSE [ip |-> header[CHOOSE i \in parts : \A j \in parts : j <= i], resolved |-> TRUE]

\* However many proxies a request went through, and whatever its sender wrote
\* into the header, it counts for the hop nearest to the trusted proxies that is
\* none of them: the walk-aways of one are not counted for another.
Attributed == ClientIP = [ip |-> origin, resolved |-> TRUE]
=============================================================================
