---------------------------- MODULE MCRequestGate ----------------------------
(* A small instance of RequestGate for TLC. Who sends requests is chosen at  *)
(* the start: an address without fingerprints, that may become an exit, and  *)
(* switches no captchas; a circuit with fingerprints, that is not counted    *)
(* for page loads and fails at no captcha; or the address all .onion         *)
(* visitors share.                                                           *)
EXTENDS RequestGate, TLC

CONSTANTS a, t, o

VARIABLE sender

MCInit == Init /\ sender \in {a, t, o} \cap Ip

Carried == IF sender = t THEN Fp ELSE {NoFp}

\* The requests of other addresses stay away, and so does all else about them.
MCNext ==
    /\ Next
    /\ UNCHANGED sender
    /\ \A w \in Worker :
          /\ work'[w].ip \in {sender, NoIp}
          /\ work'[w].pc # "idle" => work'[w].fp \in Carried
          /\ sender = t => work'[w].penalty # "failed"
    /\ blocked' \cap Ip \subseteq {sender}
    /\ exits' \subseteq {sender}
    /\ sender # a => UNCHANGED exits
    /\ \A ip \in Ip : counts'[<<IF ip = t THEN "load" ELSE "switch", ip>>] = 0

MCSpec == MCInit /\ [][MCNext]_<<vars, sender>>

Symmetric == Permutations(Worker)
=============================================================================
