--------------------------- MODULE ChallengeStore ---------------------------
(***************************************************************************)
(* The table of pending puzzles and waits (slider.go, sliderChallengeStore)*)
(* and the request handlers that issue, redeem and expire its entries:     *)
(* serveChallenge, handleSliderVerify, handleJigsawVerify,                 *)
(* handleTimedVerify and handleWait.                                       *)
(*                                                                         *)
(* Every request runs in a goroutine of its own and takes the table's      *)
(* mutex several times. A step below is one critical section, or one read  *)
(* of the clock outside it, so requests interleave where the code lets     *)
(* them. A worker is a slot for one request at a time: it takes up the     *)
(* next request when it has answered the last one.                         *)
(*                                                                         *)
(* State kept elsewhere enters as a choice: whether retryChallenge bans    *)
(* the client, whether waitAllowed finds other evidence of trouble,        *)
(* whether the throttle of the shared store refuses, and whether           *)
(* recordAnswer finds the client's recent answers too similar.             *)
(***************************************************************************)
EXTENDS Integers, FiniteSets

CONSTANTS
    Id,             \* the random challenge ids that can be drawn
    Ip,             \* client addresses
    Worker,         \* requests served at the same time
    SharedIp,       \* the addresses sharedTorIP recognises
    Answers,        \* positions a puzzle may be issued with
    Clicks,         \* positions a client may answer with
    Span,           \* width of the piece: a hit may lie this far right
    Tolerance,      \* slack on either side (cfg.Slider.Tolerance / 2)
    Ttl,            \* cfg.Slider.TTL
    MaxChallenges,  \* cfg.Slider.MaxChallenges
    MinSolve,       \* cfg.Slider.MinSolveTime
    Wait,           \* timedWait
    AttemptWindow,  \* sliderVerifyWindow
    MaxAttempts,    \* sliderVerifyMaxPerMin
    AttemptFactor,  \* torAttemptFactor
    NoId,           \* the empty captcha_id
    MaxTime,        \* bound on the clock
    MaxCount        \* bound on the attempts an address makes in a window

ASSUME SetsAssumption ==
    /\ NoId \notin Id
    /\ Answers \subseteq Int
    /\ Clicks \subseteq Int

ASSUME TimesAssumption ==
    /\ Ttl \in Nat
    /\ MinSolve \in Nat
    /\ Wait \in Nat
    /\ AttemptWindow \in Nat
    /\ MaxTime \in Nat

ASSUME LimitsAssumption ==
    /\ MaxChallenges \in Nat
    /\ MaxAttempts \in Nat
    /\ AttemptFactor \in Nat
    /\ Span \in Nat
    /\ Tolerance \in Nat

VARIABLES
    now,         \* the clock, time.Now()
    challenges,  \* sliderChallengeStore.challenges: pending id -> challenge
    attempts,    \* sliderChallengeStore.attempts: address -> counterEntry
    work,        \* the local state of each worker's handler
    ledger,      \* history: every challenge ever issued
    passes       \* history: how often each id earned a verified cookie

vars == <<now, challenges, attempts, work, ledger, passes>>

Kind == {"spot", "jigsaw", "timed"}
Puzzle == {"spot", "jigsaw"}

Challenge == [kind : Kind, answer : Int, issued : Int, expires : Int]

\* The zero value a map lookup yields for a missing id.
NoChallenge == [kind |-> "none", answer |-> 0, issued |-> 0, expires |-> 0]

Place == {"idle", "look", "gate", "refresh", "attempt", "take", "poll",
          "judge", "record", "serve", "issue"}

Work == [pc      : Place,
         asks    : Kind \cup {"none"},            \* which handler this is
         ip      : Ip \cup {"none"},
         id      : Id \cup {NoId},                \* captcha_id
         value   : Int,                           \* the click, the tile pair
         took    : Challenge \cup {NoChallenge},  \* what consume copied
         verdict : {"none", "passed", "failed", "automated"}]

\* A handler that holds nothing and has decided nothing.
Local(place, kind, ip, id, value) ==
    [pc |-> place, asks |-> kind, ip |-> ip, id |-> id, value |-> value,
     took |-> NoChallenge, verdict |-> "none"]

Idle == Local("idle", "none", "none", NoId, 0)

Expired(e) == now > e.expires

\* There is an unexpired entry of this kind under id.
Live(id, kind) == /\ id \in DOMAIN challenges
                  /\ challenges[id].kind = kind
                  /\ ~Expired(challenges[id])

Remove(ids) == [id \in DOMAIN challenges \ ids |-> challenges[id]]

\* timedRemaining of a running wait.
Remaining(c) == Wait - (now - c.issued)

\* diff <= tolerance in consume; equality of jigsawPair in consumeJigsaw.
Hit(c, value) ==
    IF c.kind = "spot"
    THEN c.answer - Tolerance <= value /\ value <= c.answer + Span + Tolerance
    ELSE value = c.answer

TooFast(c) == MinSolve > 0 /\ now - c.issued < MinSolve

-----------------------------------------------------------------------------
(* How a handler moves on.                                                 *)

\* A handler moves on that has not yet taken anything.
Goto(w, place) ==
    /\ work' = [work EXCEPT ![w] = Local(place, work[w].asks, work[w].ip,
                                         work[w].id, work[w].value)]
    /\ UNCHANGED passes

Finish(w) == work' = [work EXCEPT ![w] = Idle] /\ UNCHANGED passes

\* setVerifiedCookie and the redirect.
Pass(w) ==
    /\ work' = [work EXCEPT ![w] = Idle]
    /\ passes' = [passes EXCEPT ![work[w].id] = @ + 1]

\* On to serveChallenge, which sees the form and none of the other locals.
ToServe(w) ==
    /\ work' = [work EXCEPT ![w] = Local("serve", work[w].asks, work[w].ip,
                                         work[w].id, 0)]
    /\ UNCHANGED passes

\* On with a copy taken from the table and a verdict on it.
Keep(w, place, took, verdict) ==
    /\ work' = [work EXCEPT ![w] =
                   [pc |-> place, asks |-> work[w].asks, ip |-> work[w].ip,
                    id |-> work[w].id, value |-> work[w].value,
                    took |-> took, verdict |-> verdict]]
    /\ UNCHANGED passes

\* retryChallenge with a penalty: the ban page, or another challenge.
Penalised(w) == Finish(w) \/ ToServe(w)

-----------------------------------------------------------------------------
(* Requests arrive. A client sends an id it was given, or none.            *)

Init ==
    /\ now = 0
    /\ challenges = [id \in {} |-> NoChallenge]
    /\ attempts = [ip \in {} |-> [count |-> 0, expires |-> 0]]
    /\ work = [w \in Worker |-> Idle]
    /\ ledger = [id \in {} |-> NoChallenge]
    /\ passes = [id \in Id |-> 0]

\* The bound on attempts: an address that has used up MaxCount keeps quiet
\* until its window is over.
MayCall(ip) == (ip \in DOMAIN attempts /\ ~Expired(attempts[ip]))
                  => attempts[ip].count < MaxCount

Begin(w, place, kind, ip, id, value) ==
    /\ work[w].pc = "idle"
    /\ MayCall(ip)
    /\ work' = [work EXCEPT ![w] = Local(place, kind, ip, id, value)]
    /\ UNCHANGED <<now, challenges, attempts, ledger, passes>>

\* handleRequest decided to challenge: the page carries a fresh puzzle.
Visit(w) == \E kind \in Puzzle, ip \in Ip : Begin(w, "serve", kind, ip, NoId, 0)

\* POST /__verify for the slider, up to its first look at the table; turned
\* away unseen by the throttle, for a keyboard click or for no click (which
\* is penalised: the ban page there leaves no trace here).
AnswerSpot(w) ==
    \E ip \in Ip, id \in DOMAIN ledger \cup {NoId} :
        \/ \E value \in Clicks : Begin(w, "look", "spot", ip, id, value)
        \/ Begin(w, "serve", "spot", ip, id, 0)

\* POST /__verify for the jigsaw; turned away unseen by the throttle or for
\* anything but two tiles.
AnswerJigsaw(w) ==
    \E ip \in Ip, id \in DOMAIN ledger \cup {NoId} :
        \/ \E value \in Clicks : Begin(w, "attempt", "jigsaw", ip, id, value)
        \/ Begin(w, "serve", "jigsaw", ip, id, 0)

\* POST /__verify with wait set, and the page's own refresh GET /__wait.
AskWait(w) ==
    \E ip \in Ip, id \in DOMAIN ledger \cup {NoId}, place \in {"gate", "refresh"} :
        Begin(w, place, "timed", ip, id, 0)

Arrive(w) == Visit(w) \/ AnswerSpot(w) \/ AnswerJigsaw(w) \/ AskWait(w)

-----------------------------------------------------------------------------
(* Handlers: the checks before a challenge is redeemed.                    *)

\* handleSliderVerify reads spotWidth: without a live puzzle of the slider's
\* own kind the attempt has failed.
LookSpot(w) ==
    /\ work[w].pc = "look"
    /\ IF Live(work[w].id, "spot") THEN Goto(w, "attempt") ELSE Penalised(w)
    /\ UNCHANGED <<now, challenges, attempts, ledger>>

\* waitAllowed of a POST: a running wait, or other evidence of trouble. The
\* throttle of the shared store comes after it.
Gate(w) ==
    /\ work[w].pc = "gate"
    /\ Goto(w, "attempt") \/ ToServe(w)
    /\ UNCHANGED <<now, challenges, attempts, ledger>>

\* waitAllowed finds nothing: the wait field is dropped, and the next page is
\* that of the client's provider, a puzzle of ours or an external widget.
DenyWait(w) ==
    /\ work[w].pc = "gate"
    /\ ~Live(work[w].id, "timed")
    /\ \/ Finish(w)
       \/ \E kind \in Puzzle :
             /\ work' = [work EXCEPT ![w] = Local("serve", kind, work[w].ip,
                                                  work[w].id, 0)]
             /\ UNCHANGED passes
    /\ UNCHANGED <<now, challenges, attempts, ledger>>

\* Mutant: the refresh of a wait that is gone is never answered.
RefreshRunningOnly(w) ==
    /\ work[w].pc = "refresh"
    /\ Live(work[w].id, "timed")
    /\ Goto(w, "attempt")
    /\ UNCHANGED <<now, challenges, attempts, ledger>>

\* handleWait goes on only with a running wait.
Refresh(w) ==
    /\ work[w].pc = "refresh"
    /\ IF Live(work[w].id, "timed") THEN Goto(w, "attempt") ELSE Finish(w)
    /\ UNCHANGED <<now, challenges, attempts, ledger>>

Limit(ip) == IF ip \in SharedIp THEN AttemptFactor * MaxAttempts
             ELSE MaxAttempts

\* allowAttempt: the entry of ip after one more attempt.
CountedAttempt(ip) ==
    IF ip \notin DOMAIN attempts \/ Expired(attempts[ip])
    THEN [count |-> 1, expires |-> now + AttemptWindow]
    ELSE [count |-> attempts[ip].count + 1, expires |-> attempts[ip].expires]

\* allowAttempt, then the empty id of handleTimedVerify.
Attempt(w) ==
    /\ work[w].pc = "attempt"
    /\ LET ip == work[w].ip
           e  == CountedAttempt(ip)
       IN  /\ attempts' = [a \in DOMAIN attempts \cup {ip} |->
                             IF a = ip THEN e ELSE attempts[a]]
           /\ IF \/ e.count > Limit(ip)
                 \/ work[w].asks = "timed" /\ work[w].id = NoId
              THEN ToServe(w)
              ELSE Goto(w, IF work[w].asks = "timed" THEN "poll" ELSE "take")
    /\ UNCHANGED <<now, challenges, ledger>>

-----------------------------------------------------------------------------
(* Handlers: redeeming a challenge.                                        *)

\* Mutant: consumeJigsaw deletes whatever it finds, as consume does.
TakesAnyKind(w) == {id \in DOMAIN challenges : id = work[w].id}

\* What the locked part of consume deletes, or that of consumeJigsaw.
Takes(w) ==
    {id \in DOMAIN challenges :
        /\ id = work[w].id
        /\ work[w].asks = "jigsaw" => challenges[id].kind = "jigsaw"}

\* Mutant: the entry is only read, and so can be answered again.
TakeCopyOnly(w) ==
    /\ work[w].pc = "take"
    /\ Keep(w, "judge", IF Takes(w) = {} THEN NoChallenge
                         ELSE challenges[work[w].id], "none")
    /\ UNCHANGED <<now, challenges, attempts, ledger>>

\* The locked part of consume and of consumeJigsaw: the entry is deleted, its
\* copy is judged only after the lock is released.
Take(w) ==
    /\ work[w].pc = "take"
    /\ challenges' = Remove(Takes(w))
    /\ Keep(w, "judge", IF Takes(w) = {} THEN NoChallenge
                         ELSE challenges[work[w].id], "none")
    /\ UNCHANGED <<now, attempts, ledger>>

\* Mutant: expiry is left to the lookup before.
JudgedWithoutExpiry(w) ==
    LET c == work[w].took IN
    IF c.kind # work[w].asks THEN "failed"
    ELSE IF TooFast(c) THEN "automated"
    ELSE IF Hit(c, work[w].value) THEN "passed"
    ELSE "failed"

\* The unlocked rest of consume and consumeJigsaw, by the clock of then.
Judged(w) ==
    LET c == work[w].took IN
    IF c.kind # work[w].asks \/ Expired(c) THEN "failed"
    ELSE IF TooFast(c) THEN "automated"
    ELSE IF Hit(c, work[w].value) THEN "passed"
    ELSE "failed"

JudgeSpot(w) ==
    /\ work[w].pc = "judge" /\ work[w].asks = "spot"
    /\ Keep(w, "record", work[w].took, Judged(w))
    /\ UNCHANGED <<now, challenges, attempts, ledger>>

JudgeJigsaw(w) ==
    /\ work[w].pc = "judge" /\ work[w].asks = "jigsaw"
    /\ IF Judged(w) = "passed" THEN Pass(w) ELSE Penalised(w)
    /\ UNCHANGED <<now, challenges, attempts, ledger>>

\* recordAnswer, then the slider handler's tests: a hit may still be refused
\* because the client's recent answers are too similar.
Record(w) ==
    /\ work[w].pc = "record"
    /\ \/ work[w].verdict = "passed" /\ Pass(w)
       \/ Penalised(w)
    /\ UNCHANGED <<now, challenges, attempts, ledger>>

\* consumeTimed, under one lock: the wait is redeemed once it has run out,
\* and otherwise served again or replaced.
Poll(w) ==
    /\ work[w].pc = "poll"
    /\ IF Live(work[w].id, "timed") /\ Remaining(challenges[work[w].id]) <= 0
       THEN Pass(w) /\ challenges' = Remove({work[w].id})
       ELSE ToServe(w) /\ UNCHANGED challenges
    /\ UNCHANGED <<now, attempts, ledger>>

-----------------------------------------------------------------------------
(* Handlers: serving the next challenge page.                              *)

\* serveChallenge shows a running wait or an unanswered jigsaw again, and
\* draws a new challenge otherwise.
Serve(w) ==
    /\ work[w].pc = "serve"
    /\ IF work[w].asks # "spot" /\ Live(work[w].id, work[w].asks)
       THEN Finish(w)
       ELSE Goto(w, "issue")
    /\ UNCHANGED <<now, challenges, attempts, ledger>>

\* Mutant: a full table waits for the next sweep.
Unpurged == challenges

\* add: a full table is first purged of what has expired.
Purged ==
    IF Cardinality(DOMAIN challenges) >= MaxChallenges
    THEN Remove({id \in DOMAIN challenges : Expired(challenges[id])})
    ELSE challenges

\* Mutant: off by one.
HasRoomForOneMore(table) == Cardinality(DOMAIN table) <= MaxChallenges

HasRoom(table) == Cardinality(DOMAIN table) < MaxChallenges

NewChallenges(kind) ==
    {[kind |-> kind, answer |-> a, issued |-> now, expires |-> now + Ttl] :
        a \in IF kind = "timed" THEN {0} ELSE Answers}

Store(table, id, c) ==
    [i \in DOMAIN table \cup {id} |-> IF i = id THEN c ELSE table[i]]

\* add: refused when the purged table is full; the purge stands. The page is
\* served all the same, with no id. Ids never repeat; when Id is used up, add
\* fails as it does when no random bytes can be read.
Issue(w) ==
    /\ work[w].pc = "issue"
    /\ \/ /\ HasRoom(Purged)
          /\ \E id \in Id \ DOMAIN ledger, c \in NewChallenges(work[w].asks) :
                /\ challenges' = Store(Purged, id, c)
                /\ ledger' = Store(ledger, id, c)
       \/ /\ ~HasRoom(Purged)
          /\ challenges' = Purged
          /\ UNCHANGED ledger
       \/ /\ Id \subseteq DOMAIN ledger
          /\ UNCHANGED <<challenges, ledger>>
    /\ Finish(w)
    /\ UNCHANGED <<now, attempts>>

-----------------------------------------------------------------------------
(* Background: the minute sweep and the clock.                             *)

\* Mutant: the sweep forgets the challenges.
SweepAttempts ==
    /\ attempts' = [ip \in {a \in DOMAIN attempts : ~Expired(attempts[a])} |->
                      attempts[ip]]
    /\ UNCHANGED <<now, challenges, work, ledger, passes>>

\* sweepOnce drops expired challenges and expired attempt counters.
Sweep ==
    /\ challenges' = Remove({id \in DOMAIN challenges : Expired(challenges[id])})
    /\ attempts' = [ip \in {a \in DOMAIN attempts : ~Expired(attempts[a])} |->
                      attempts[ip]]
    /\ UNCHANGED <<now, work, ledger, passes>>

Tick ==
    /\ now < MaxTime
    /\ now' = now + 1
    /\ UNCHANGED <<challenges, attempts, work, ledger, passes>>

\* One step of the goroutine that serves worker w's request.
Handler(w) ==
    \/ LookSpot(w) \/ Gate(w) \/ DenyWait(w) \/ Refresh(w) \/ Attempt(w)
    \/ Take(w) \/ JudgeSpot(w) \/ JudgeJigsaw(w) \/ Record(w) \/ Poll(w)
    \/ Serve(w) \/ Issue(w)

Next ==
    \/ \E w \in Worker : Arrive(w) \/ Handler(w)
    \/ Sweep
    \/ Tick

Spec == Init /\ [][Next]_vars

\* Goroutines are scheduled, the ticker of sweepLoop fires for ever and the
\* clock moves on. Nothing obliges a client to send a request.
Fairness ==
    /\ \A w \in Worker : WF_vars(Handler(w))
    /\ WF_vars(Sweep)
    /\ WF_vars(Tick)

FairSpec == Spec /\ Fairness

-----------------------------------------------------------------------------
(* Properties.                                                             *)

\* Every variable keeps its shape.
TypeOK ==
    /\ now \in Nat
    /\ DOMAIN challenges \subseteq Id
    /\ \A id \in DOMAIN challenges : challenges[id] \in Challenge
    /\ DOMAIN attempts \subseteq Ip
    /\ \A ip \in DOMAIN attempts : attempts[ip] \in [count : Nat, expires : Int]
    /\ work \in [Worker -> Work]
    /\ DOMAIN ledger \subseteq Id
    /\ \A id \in DOMAIN ledger : ledger[id] \in Challenge
    /\ passes \in [Id -> Nat]

\* One solved challenge buys one cookie: of all the requests racing on an id,
\* in any mix of handlers, at most one passes (consume, consumeJigsaw and
\* consumeTimed delete the entry before, or as, they decide).
OneRedemption == \A id \in Id : passes[id] <= 1

\* The table never outgrows cfg.Slider.MaxChallenges.
Bounded == Cardinality(DOMAIN challenges) <= MaxChallenges

\* The moment a handler decides that its client has passed.
Grants(w) ==
    \/ work[w].pc = "judge" /\ work'[w].verdict = "passed"
    \/ work[w].asks # "spot" /\ passes' # passes /\ work[w] # work'[w]

\* Judged against what was once issued under the id, not against the copy.
Honest(w) ==
    /\ work[w].id \in DOMAIN ledger
    /\ work[w].id \notin DOMAIN challenges'
    /\ LET c == ledger[work[w].id] IN
       /\ c.kind = work[w].asks
       /\ now <= c.expires
       /\ IF c.kind = "timed" THEN now - c.issued >= Wait
          ELSE Hit(c, work[w].value) /\ now - c.issued >= MinSolve

\* A pass is honest and timely: the right kind of handler, a hit, not before
\* MinSolve or the full Wait, not after expiry, and the id is gone from the
\* table, however long the handler paused between taking the challenge and
\* reading the clock.
HonestPass == [][\A w \in Worker : Grants(w) => Honest(w)]_vars

\* A challenge that has not expired leaves the table only through a handler
\* of its own kind, and a running wait only by passing: a slider or jigsaw
\* answer that carries the id of a wait cannot destroy it, and an early poll
\* does not lose the time already waited.
NothingLost ==
    [][\A id \in DOMAIN challenges \ DOMAIN challenges' :
        \/ Expired(challenges[id])
        \/ \E w \in Worker :
              /\ work[w].pc \in {"take", "poll"}
              /\ work[w].id = id
              /\ work[w].asks = challenges[id].kind
              /\ work'[w] # work[w]
              /\ challenges[id].kind = "timed" => passes'[id] > passes[id]]_vars

\* The table refuses a challenge only when it is full of live ones: expired
\* entries nobody has swept yet never keep a client from a puzzle.
RefusedOnlyWhenFull ==
    [][\A w \in Worker :
        (work[w].pc = "issue" /\ work'[w].pc = "idle" /\ ledger' = ledger) =>
            \/ Id \subseteq DOMAIN ledger
            \/ /\ Cardinality(DOMAIN challenges) = MaxChallenges
               /\ \A id \in DOMAIN challenges : ~Expired(challenges[id])]_vars

\* Abandoned challenges do not pile up: what has expired is swept.
ExpiredLeave ==
    \A id \in Id :
        (id \in DOMAIN challenges /\ Expired(challenges[id]))
            ~> (id \notin DOMAIN challenges)

\* Every request that arrives is answered: no branch of a handler is left
\* without a next step.
Answered == \A w \in Worker : (work[w].pc # "idle") ~> (work[w].pc = "idle")

-----------------------------------------------------------------------------
(* The inductive invariant behind OneRedemption and HonestPass.            *)

\* Where a handler stands determines what its locals hold.
LocalInv(k) ==
    /\ k.pc \in {"look", "record"} => k.asks = "spot"
    /\ k.pc \in {"gate", "refresh", "poll"} => k.asks = "timed"
    /\ k.pc \in {"take", "judge"} => k.asks \in Puzzle
    /\ k.pc # "idle" => k.asks \in Kind /\ k.ip \in Ip
    /\ k.took # NoChallenge => k.pc \in {"judge", "record"}
    /\ k.verdict # "none" => k.pc = "record"
    /\ k.verdict = "passed" => k.took # NoChallenge

\* A handler still examines the copy it took.
Holding(w) == work[w].took # NoChallenge

\* What is pending is in the ledger unchanged, and was never redeemed.
PendingInv ==
    \A id \in DOMAIN challenges :
        id \in DOMAIN ledger /\ challenges[id] = ledger[id] /\ passes[id] = 0

\* What a handler holds is a true copy, is out of the table, and was never
\* redeemed.
HoldingInv ==
    \A w \in Worker : Holding(w) =>
        /\ work[w].id \in DOMAIN ledger \ DOMAIN challenges
        /\ work[w].took = ledger[work[w].id]
        /\ passes[work[w].id] = 0

\* No two handlers hold the same challenge.
ExclusiveInv ==
    \A w, v \in Worker :
        Holding(w) /\ Holding(v) /\ work[w].id = work[v].id => w = v

\* The ledger is never ahead of the clock, and only what is in it passes.
LedgerInv ==
    /\ \A id \in DOMAIN ledger : ledger[id].issued <= now
    /\ \A id \in Id : passes[id] # 0 => id \in DOMAIN ledger

IndInv ==
    /\ TypeOK
    /\ \A w \in Worker : LocalInv(work[w])
    /\ PendingInv
    /\ HoldingInv
    /\ ExclusiveInv
    /\ LedgerInv
    /\ OneRedemption

-----------------------------------------------------------------------------
(* The table as one-shot tickets.                                          *)

Held(id) == \E w \in Worker : Holding(w) /\ work[w].id = id

\* A ticket is pending until it is out of the table and out of every
\* handler's hands.
TicketStatus ==
    [id \in Id |-> IF passes[id] > 0 THEN "redeemed"
                   ELSE IF id \in DOMAIN challenges \/ Held(id) THEN "pending"
                   ELSE IF id \in DOMAIN ledger THEN "void"
                   ELSE "unissued"]

Tickets == INSTANCE OneShotTicket
              WITH Ticket <- Id, status <- TicketStatus, cookies <- passes

\* Whatever the interleaving of handlers, sweep and purge, every id goes once
\* from unissued to pending and then to redeemed or to void, never back; a
\* cookie is bought in the very step in which its id stops being pending, so
\* that no handler passes on an id that another has redeemed, or that was
\* purged or swept meanwhile.
ImplementsTickets == Tickets!Spec

=============================================================================
