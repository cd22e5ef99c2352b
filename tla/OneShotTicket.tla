---------------------------- MODULE OneShotTicket ----------------------------
(***************************************************************************)
(* What the challenge table promises the rest of the program: a challenge  *)
(* is a ticket that is issued once, and then either redeemed for a verified*)
(* cookie or void, once and for good. Who redeems it, when it expires and  *)
(* in how many steps it is examined are left open.                         *)
(***************************************************************************)
EXTENDS Naturals

CONSTANT Ticket

VARIABLES
    status,
    cookies   \* how many verified cookies a ticket has bought

State == {"unissued", "pending", "redeemed", "void"}

Pending == {t \in Ticket : status[t] = "pending"}

Init ==
    /\ status = [t \in Ticket |-> "unissued"]
    /\ cookies = [t \in Ticket |-> 0]

\* Issuing may clear out other tickets to make room.
Issue(t, dropped) ==
    /\ status[t] = "unissued"
    /\ dropped \subseteq Pending
    /\ status' = [u \in Ticket |-> IF u = t THEN "pending"
                                   ELSE IF u \in dropped THEN "void"
                                   ELSE status[u]]
    /\ UNCHANGED cookies

\* Only a pending ticket buys a cookie, and is no longer pending with that.
Redeem(t) ==
    /\ status[t] = "pending"
    /\ status' = [status EXCEPT ![t] = "redeemed"]
    /\ cookies' = [cookies EXCEPT ![t] = @ + 1]

Void(dropped) ==
    /\ dropped \subseteq Pending
    /\ status' = [u \in Ticket |-> IF u \in dropped THEN "void" ELSE status[u]]
    /\ UNCHANGED cookies

Next ==
    \/ \E t \in Ticket : Redeem(t)
    \/ \E dropped \in SUBSET Pending :
          Void(dropped) \/ \E t \in Ticket : Issue(t, dropped)

Spec == Init /\ [][Next]_<<status, cookies>>

=============================================================================
