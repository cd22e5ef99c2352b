---------------------------- MODULE RequestGate ----------------------------
(***************************************************************************)
(* The order of tests and counts that decides what becomes of a request    *)
(* (main.go): handleRequest, handleVerify as far as it touches the store,  *)
(* retryChallenge, banClient, handleTrap and resetWalkaways, over a store  *)
(* whose every method is one step.                                         *)
(*                                                                         *)
(* A request runs in a goroutine of its own, so that other requests, the   *)
(* end of a ban or of a counter, and a new list of Tor exits come between  *)
(* any two of its calls. Time is left out: a counter or a ban may end at   *)
(* any moment. Counters stop at the value their strictest test looks for.  *)
(*                                                                         *)
(* What the rules, the cookie, the passive budget, the throttle and the    *)
(* verifier say is a choice. Requests from allowed addresses and for paths *)
(* that always pass touch nothing of this and are left out.                *)
(***************************************************************************)
EXTENDS Integers

CONSTANTS
    Ip,                   \* client addresses
    Circuit,              \* those that are onion circuits (torCircuitNet)
    Onion,                \* those behind which .onion visitors share one
    Prints,               \* what requests carry: a fingerprint in a network,
    NoFp,                 \* or none that is trusted
    NoIp,                 \* the address of no request
    Worker,               \* requests served at the same time
    Threshold,            \* cfg.Walkaway.Threshold
    FailedAttemptFactor,  \* failedAttemptFactor
    SwitchAllowance,      \* switchAllowance
    ReportAfterBans       \* cfg.AbuseIPDB.ReportAfterBans

ASSUME SetsAssumption ==
    /\ Circuit \subseteq Ip
    /\ Onion \subseteq Ip \ Circuit
    /\ NoIp \notin Ip
    /\ NoFp \notin Ip
    /\ Ip \cap Prints = {}

ASSUME LimitsAssumption ==
    /\ {Threshold, FailedAttemptFactor, ReportAfterBans} \subseteq Nat \ {0}
    /\ SwitchAllowance \in Nat

VARIABLES
    counts,     \* the store's walk-away counters; 0: none, or it has ended
    blocked,    \* the bans in force
    banCounts,  \* bans counted per address
    reported,   \* addresses whose report cooldown runs
    exits,      \* cfg.torExits
    work,       \* the local state of each worker's handler
    held,       \* history: bans in force ever since a request arrived
    listed,     \* history: requests whose address has been shared since
    fresh,      \* history: counts made since a solver's reset of them
    struck      \* history: counters whose limit has led to a ban

store == <<counts, blocked, banCounts, reported>>
vars == <<store, exits, work, held, listed, fresh, struck>>

Fp == Prints \ {NoFp}

IpKind == {"walk", "fail", "load", "switch"}
Key == (IpKind \X Ip) \cup ({"fp"} \X Fp)

Place == {"idle", "gate", "judge", "forward", "switch", "print", "printcount",
          "printban", "load", "walk", "verify", "penalty", "ban", "bancount",
          "report", "reset", "cookie"}

Penalty == {"none", "failed", "walkaway"}

\* torKind and sharedTorIP: an address many people share.
Shared(ip) == ip \in Onion \/ ip \in exits \ Circuit

\* The value a counter must reach for something to happen.
Limit(key) ==
    CASE key[1] = "fail"   -> FailedAttemptFactor * Threshold
      [] key[1] = "switch" -> SwitchAllowance + 1
      [] key[1] = "load"   -> 1
      [] OTHER             -> Threshold

\* The counters that ban at their limit.
Banning == ({"walk", "fail"} \X Ip) \cup ({"fp"} \X Fp)

Request(place, ip, fp, shared, penalty, step) ==
    [pc |-> place, ip |-> ip, fp |-> fp, shared |-> shared,
     penalty |-> penalty, step |-> step]

Requests == [pc : Place, ip : Ip \cup {NoIp}, fp : Fp \cup {NoFp},
             shared : BOOLEAN, penalty : Penalty, step : 0..5]

Idle == Request("idle", NoIp, NoFp, FALSE, "none", 0)

Init ==
    /\ counts = [key \in Key |-> 0]
    /\ blocked = {} /\ reported = {}
    /\ banCounts = [ip \in Ip |-> 0]
    /\ exits = {}
    /\ work = [w \in Worker |-> Idle]
    /\ held = {} /\ listed = {} /\ fresh = {} /\ struck = {}

-----------------------------------------------------------------------------
(* How a handler moves on, and how it counts.                              *)

Move(w, place, penalty, step) ==
    /\ work' = [work EXCEPT ![w] = Request(place, work[w].ip, work[w].fp,
                                          work[w].shared, penalty, step)]
    /\ UNCHANGED <<held, listed>>

Goto(w, place) == Move(w, place, work[w].penalty, work[w].step)

\* The response has gone out.
Answer(w) ==
    /\ work' = [work EXCEPT ![w] = Idle]
    /\ held' = {h \in held : h[1] # w}
    /\ listed' = listed \ {w}

\* What IncrWalkaway returns, up to the limit.
Counted(key) ==
    IF counts[key] < Limit(key) THEN counts[key] + 1 ELSE Limit(key)

Solving == {w \in Worker : work[w].pc \in {"reset", "cookie"}}

IncrWalkaway(key) ==
    /\ counts' = [counts EXCEPT ![key] = Counted(key)]
    /\ fresh' = fresh \cup (Solving \X {key})
    /\ UNCHANGED <<blocked, banCounts, reported, exits, struck>>

ClearKey(key) ==
    /\ counts' = [counts EXCEPT ![key] = 0]
    /\ fresh' = {f \in fresh : f[2] # key}
    /\ struck' = struck \ {key}
    /\ UNCHANGED <<blocked, banCounts, reported, exits>>

Block(who) ==
    /\ blocked' = blocked \cup {who}
    /\ struck' = struck \cup
         {key \in Banning : key[2] = who /\ counts[key] >= Limit(key)}
    /\ UNCHANGED <<counts, banCounts, reported, exits, fresh>>

Reads == UNCHANGED <<store, exits, fresh, struck>>

-----------------------------------------------------------------------------
(* handleRequest.                                                          *)

Arrive(w, place, ip, fp) ==
    /\ work[w].pc = "idle"
    /\ work' = [work EXCEPT ![w] =
                  Request(place, ip, fp, Shared(ip), "none", 0)]
    /\ listed' = IF Shared(ip) THEN listed \cup {w} ELSE listed

\* A page is asked for; torKind is looked up once.
Page(w) ==
    \E ip \in Ip, fp \in Prints :
        /\ Arrive(w, "gate", ip, fp)
        /\ held' = held \cup
             ({w} \X ((IF Shared(ip) THEN {fp} ELSE {ip, fp}) \cap blocked))
        /\ Reads

\* Mutant: the cookie and the rules are asked before the ban.
GateOpen(w) ==
    /\ work[w].pc = "gate"
    /\ Goto(w, "judge")
    /\ Reads

\* IsBlocked, unless the address is shared.
Gate(w) ==
    /\ work[w].pc = "gate"
    /\ IF ~work[w].shared /\ work[w].ip \in blocked
       THEN Answer(w)
       ELSE Goto(w, "judge")
    /\ Reads

\* Blacklist, rules, cookie, bypass paths, rules not loaded, passive pass:
\* the request is refused, forwarded, or to be challenged. A request whose
\* address a proxy has left out is challenged without being counted.
Judge(w) ==
    /\ work[w].pc = "judge"
    /\ Answer(w) \/ Goto(w, "forward") \/ Goto(w, "switch")
    /\ Reads

\* proxy.ServeHTTP has returned.
Forwarded(w) == work[w].pc = "forward" /\ Answer(w) /\ Reads

\* A shared address is challenged without being counted, and so is a visitor
\* who has just switched captchas, for a while.
Switch(w) ==
    /\ work[w].pc = "switch"
    /\ LET key == <<"switch", work[w].ip>> IN
       \/ work[w].shared /\ Answer(w) /\ Reads
       \/ ~work[w].shared /\ Goto(w, "print") /\ Reads
       \/ /\ ~work[w].shared
          /\ IncrWalkaway(key)
          /\ IF Counted(key) <= SwitchAllowance
             THEN Answer(w) ELSE Goto(w, "print")

\* IsBlocked of the fingerprint, if the request has one.
CheckPrint(w) ==
    /\ work[w].pc = "print"
    /\ IF work[w].fp = NoFp THEN Goto(w, "load")
       ELSE IF work[w].fp \in blocked THEN Answer(w)
       ELSE Goto(w, "printcount")
    /\ Reads

CountPrint(w) ==
    /\ work[w].pc = "printcount"
    /\ LET key == <<"fp", work[w].fp>> IN
       /\ IncrWalkaway(key)
       /\ Goto(w, IF Counted(key) >= Limit(key) THEN "printban" ELSE "load")

BanPrint(w) ==
    /\ work[w].pc = "printban"
    /\ Block(work[w].fp)
    /\ Answer(w)

\* Only a page load, one that accepts text/html, is counted as such.
Load(w) ==
    /\ work[w].pc = "load"
    /\ Goto(w, "walk")
    /\ IncrWalkaway(<<"load", work[w].ip>>) \/ Reads

\* The walk-away itself, and then the ban or the challenge page.
Walk(w) ==
    /\ work[w].pc = "walk"
    /\ LET key == <<"walk", work[w].ip>> IN
       /\ IncrWalkaway(key)
       /\ IF Counted(key) >= Limit(key) THEN Goto(w, "ban") ELSE Answer(w)

-----------------------------------------------------------------------------
(* handleVerify, retryChallenge and banClient.                             *)

Post(w) ==
    /\ \E ip \in Ip, fp \in Prints : Arrive(w, "verify", ip, fp)
    /\ UNCHANGED held
    /\ Reads

\* Mutant: shared addresses are penalised too.
PenaltiesForAll(ip) == Penalty \ {"none"}

\* retryChallenge drops the penalty of a shared address.
Penalties(ip) == IF Shared(ip) THEN {} ELSE Penalty \ {"none"}

\* Throttled, not decided, or a wait: the next challenge is served. A click
\* at the origin counts as a load. A failure goes on to its penalty, a
\* solution to resetWalkaways.
Verify(w) ==
    /\ work[w].pc = "verify"
    /\ \/ Answer(w) /\ Reads
       \/ Answer(w) /\ IncrWalkaway(<<"load", work[w].ip>>)
       \/ \E penalty \in Penalties(work[w].ip) :
             Move(w, "penalty", penalty, 0) /\ Reads
       \/ Move(w, "reset", "none", 1) /\ Reads

PenaltyKey(w) ==
    <<IF work[w].penalty = "failed" THEN "fail" ELSE "walk", work[w].ip>>

\* Mutant: one more than the limit.
PenaliseLate(w) ==
    /\ work[w].pc = "penalty"
    /\ IncrWalkaway(PenaltyKey(w))
    /\ IF Counted(PenaltyKey(w)) > Limit(PenaltyKey(w))
       THEN Goto(w, "ban") ELSE Answer(w)

Penalise(w) ==
    /\ work[w].pc = "penalty"
    /\ IncrWalkaway(PenaltyKey(w))
    /\ IF Counted(PenaltyKey(w)) >= Limit(PenaltyKey(w))
       THEN Goto(w, "ban") ELSE Answer(w)

Ban(w) ==
    /\ work[w].pc = "ban"
    /\ Block(work[w].ip)
    /\ Goto(w, "bancount")

\* Bans are counted up to the last number that does not report.
IncrBanCount(w) ==
    /\ work[w].pc = "bancount"
    /\ LET n == banCounts[work[w].ip] + 1 IN
       IF n < ReportAfterBans
       THEN banCounts' = [banCounts EXCEPT ![work[w].ip] = n] /\ Answer(w)
       ELSE UNCHANGED banCounts /\ Goto(w, "report")
    /\ UNCHANGED <<counts, blocked, reported, exits, fresh, struck>>

\* ShouldReport; what follows a second answer is the same page.
Report(w) ==
    /\ work[w].pc = "report"
    /\ reported' = reported \cup {work[w].ip}
    /\ Answer(w)
    /\ UNCHANGED <<counts, blocked, banCounts, exits, fresh, struck>>

\* Mutant: the counter of the fingerprint is forgotten.
ResetKindsButPrint == <<"walk", "fail", "load", "switch", "switch">>

ResetKinds == <<"walk", "fail", "load", "switch", "fp">>

ResetKey(w) ==
    LET kind == ResetKinds[work[w].step] IN
    <<kind, IF kind = "fp" THEN work[w].fp ELSE work[w].ip>>

\* Without a fingerprint there is one counter less.
ResetSteps(w) == IF work[w].fp = NoFp THEN 4 ELSE 5

\* resetWalkaways, one counter at a time.
Reset(w) ==
    /\ work[w].pc = "reset"
    /\ ClearKey(ResetKey(w))
    /\ IF work[w].step < ResetSteps(w)
       THEN Move(w, "reset", "none", work[w].step + 1)
       ELSE Move(w, "cookie", "none", work[w].step)

\* setVerifiedCookie and the redirect.
Cookie(w) ==
    /\ work[w].pc = "cookie"
    /\ Answer(w)
    /\ fresh' = {f \in fresh : f[1] # w}
    /\ UNCHANGED <<store, exits, struck>>

-----------------------------------------------------------------------------
(* The trap, the end of counters and bans, and the exit list.              *)

\* handleTrap of a request that no browser marks as its own.
Trap(ip) == Block(ip) /\ UNCHANGED <<work, held, listed>>

Lapse(key) ==
    /\ counts[key] > 0
    /\ ClearKey(key)
    /\ UNCHANGED <<work, held, listed>>

EndBan(who) ==
    /\ who \in blocked
    /\ blocked' = blocked \ {who}
    /\ held' = {h \in held : h[2] # who}
    /\ UNCHANGED <<counts, banCounts, reported, exits, work, listed, fresh,
                   struck>>

\* A ban count is swept, or the cooldown that ShouldReport looks at is over.
Forget(ip) ==
    /\ \/ banCounts[ip] > 0 /\ banCounts' = [banCounts EXCEPT ![ip] = 0]
          /\ UNCHANGED reported
       \/ ip \in reported /\ reported' = reported \ {ip}
          /\ UNCHANGED banCounts
    /\ UNCHANGED <<counts, blocked, exits, work, held, listed, fresh, struck>>

\* startTorExitFetcher stores a new list.
FetchExits ==
    /\ exits' \in SUBSET Ip
    /\ UNCHANGED <<store, work, held, fresh, struck>>
    /\ listed' = {w \in listed : Shared(work[w].ip)'}

Handler(w) ==
    \/ Gate(w) \/ Judge(w) \/ Forwarded(w) \/ Switch(w) \/ CheckPrint(w)
    \/ CountPrint(w) \/ BanPrint(w) \/ Load(w) \/ Walk(w) \/ Verify(w)
    \/ Penalise(w) \/ Ban(w) \/ IncrBanCount(w) \/ Report(w) \/ Reset(w)
    \/ Cookie(w)

Next ==
    \/ \E w \in Worker : Page(w) \/ Post(w) \/ Handler(w)
    \/ \E ip \in Ip : Trap(ip) \/ Forget(ip)
    \/ \E key \in Key : Lapse(key)
    \/ \E who \in Ip \cup Fp : EndBan(who)
    \/ FetchExits

Spec == Init /\ [][Next]_vars

-----------------------------------------------------------------------------
(* Properties.                                                             *)

\* Every variable keeps its shape.
TypeOK ==
    /\ counts \in [Key -> Nat]
    /\ \A key \in Key : counts[key] <= Limit(key)
    /\ blocked \subseteq Ip \cup Fp
    /\ banCounts \in [Ip -> 0..(ReportAfterBans - 1)]
    /\ reported \subseteq Ip
    /\ exits \subseteq Ip
    /\ work \in [Worker -> Requests]
    /\ held \subseteq Worker \X (Ip \cup Fp)
    /\ listed \subseteq Worker
    /\ fresh \subseteq Worker \X Key
    /\ struck \subseteq Banning

\* A client that was banned when its request arrived, and is so still, does
\* not reach the application, unless its address is shared; and a banned
\* fingerprint gets no counted challenge, from whatever address.
BannedStayOut ==
    \A w \in Worker :
        /\ work[w].pc = "forward" => <<w, work[w].ip>> \notin held
        /\ work[w].pc \in {"printcount", "load", "walk"} =>
              <<w, work[w].fp>> \notin held

\* A request from an address that has been shared since it arrived counts
\* against nobody: no walk-away, no failed attempt, no ban, no report. Loads
\* are counted, which only brings the wait page nearer.
SharedSpared ==
    [][\A w \in listed : work'[w] # work[w] =>
          /\ \A key \in Banning : counts'[key] <= counts[key]
          /\ blocked' = blocked
          /\ banCounts' = banCounts
          /\ reported' = reported]_vars

\* When the verified cookie is set, whatever is still counted against the
\* solver was counted after its counter had been cleared.
SolvingClears ==
    \A w \in Worker : work[w].pc = "cookie" =>
        \A key \in Key :
            /\ key[2] \in {work[w].ip, work[w].fp}
            /\ counts[key] > 0
            => <<w, key>> \in fresh

\* No limit is passed unnoticed: a counter at its limit has led to a ban, or
\* a request is about to ban its client.
LimitBans ==
    \A key \in Banning :
        counts[key] >= Limit(key) =>
            \/ key \in struck
            \/ \E w \in Worker :
                  \/ work[w].pc = "ban" /\ work[w].ip = key[2]
                  \/ work[w].pc = "printban" /\ work[w].fp = key[2]

\* The README says of exit addresses that they are never banned. A request
\* that was under way when the list arrived is excused.
ExitNeverBanned ==
    [][\A ip \in blocked' \ blocked :
          ip \in Ip /\ Shared(ip) =>
             \E w \in Worker \ listed :
                work[w].pc = "ban" /\ work[w].ip = ip]_vars
=============================================================================
