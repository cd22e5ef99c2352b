# verifyngo in TLA+

verifyngo is a reverse proxy that stands in front of a web application and asks
visitors to solve a challenge before it lets them through. This directory is a
TLA+ development of the program: modules that model its stateful parts, TLC
configurations that check them on small instances, and proofs checked by TLAPS.

## 1. The system

| Component | State it keeps | Operations | Talks to |
|---|---|---|---|
| Request gate (`main.go`) | none of its own; the order of its tests is its behaviour | `handleRequest`, `handleVerify`, `retryChallenge`, `banClient`, `handleTrap` | every component below |
| Challenge table (`slider.go`, lines 73-333) | pending challenges, attempts per address, recent answers per address | `issue*`, `spotWidth`, `jigsawSeed`, `timedRemaining`, `consume`, `consumeJigsaw`, `consumeTimed`, `allowAttempt`, `recordAnswer`, `sweepOnce` | called by `serveChallenge` and the verify handlers |
| In-memory store (`store.go`, 39-340) | walk-away counters, bans, reports, ban counts, recent paths, passive counters, a dirty flag; a snapshot file | `Incr*`, `Block`, `IsBlocked`, `ShouldReport`, `LogPath`, `sweepOnce`, `persistSnapshot`, `loadSnapshot` | called by the gate |
| Redis store (`store.go`, 342-495) | the same, in Redis | the same interface; an error yields 0, false or nil | called by the gate |
| Rules (`rules.go`, `policy.go`, `main.go` 63-97, 263-277) | the compiled rules in an `atomic.Value` | load at start, watch the file every 10 s | read by the gate on every request |
| Cookies (`cookie.go`) | none on the server: signed values at the client | sign, verify, bind to the browser | gate |
| Tor exits, AbuseIPDB (`tor.go`, `abuseipdb.go`) | a trie each, replaced whole | fetch loops, lookups, reports | gate |
| Policy compilation (`policy.go`, 155-344, 346-636, `whois.go`) | the file, tries, resolved names; all local to one compilation | `buildPolicyMatcher`, `FetchPrefixes`, `FetchASNets`, `resolveConditionName`, the compilation of rules | servers of lists, whois; its result goes into the box of the rules |
| Rule evaluation (`rules.go`, `policy.go`) | the matcher of the rules in force, with its cache | `evaluate`, `networkContains`, `lookupASN` | gate, LRU, trie |
| IP trie, LRU (`policy.go`, `lru.go`) | a binary trie; a recency list and a map | `Insert`, `Contains`; `Get`, `Put` | rules, Tor, AbuseIPDB, trusted proxies |
| Challenge page and form replay (`challenge.go`, `replay.go`) | none on the server: hidden inputs of the pages, the `cp_provider` cookie | `serveChallenge`, `chosenProvider`, `providerForRequest`, `replayFields`, `replayValues`, `/__set_provider` | gate, challenge table, the browser |
| Slider puzzle (`slider.go`, 347-460, `main.go` 787-857) | width, slot, decoys of one puzzle | `buildSliderChallenge`, `placeDecoy`, `sliderClick`, the judging in `consume` | challenge table |
| Client address (`main.go`, 99-134) | none | `peerIP`, `clientIP` | gate, trusted proxies |
| Pixels, tarpit, metrics, verifiers, fingerprints | none that others read | text, pixels and network exchanges | |

Every HTTP request runs in a goroutine of its own. Three more goroutines sweep
the challenge table (each minute), sweep the store (each five minutes) and save
the store (`save_interval`); one loads and watches the rules; two fetch lists.

What is hard about it: requests that race on one captcha id or on one counter;
verdicts formed on a copy after the lock was released; timers that compete with
late answers; a table at its limit; a snapshot written while the store changes,
by a process that may be killed at any time or a disk that may refuse the write;
a file edited while it is being loaded, and requests judged by rules that are
being replaced; a policy put together from sources of which any may fail half-way;
fields of a form that live only in the pages of a visit. `PROJECT.json` lists these hazards, each
at its line, with the properties that would catch it going wrong.

The component properties this development is after:

- challenge table: one challenge buys at most one cookie, honestly and in time;
  no handler destroys another's challenge; the bound holds and refuses nobody
  for the sake of expired entries; abandoned entries go; every request is answered.
- store: what is saved survives a crash, whole; clean memory is on disk; counters
  and bans live exactly as long as they should, with or without sweeps; reports
  keep their distance.
- rules: an edit reaches the program; a bad file never replaces good rules.
- policy: a compiled policy means what its file says and holds all its networks;
  it is refused exactly when something is wrong with it, and compiling it ends.
- rule evaluation: every request is decided by one version of the rules; the
  cache of lookups keeps what was used last.
- gate: no limit is passed without a ban; a solution clears what was counted;
  shared Tor addresses are neither banned nor reported; a banned client never
  reaches the application; a request counts for the address it came from.
- form replay: fields survive whatever a visit goes through; the provider that
  was picked stays.
- slider puzzle: a click on the slot is right at every width, one on a decoy is
  not, and the slot leaves the centre alone.
- cookies, trie, answer history: each against a reference definition.

## 2. Modules

| Module | What it is |
|---|---|
| `OneShotTicket` | abstract: a challenge as a ticket that is issued once, then void or redeemed for one cookie, for good |
| `ChallengeStore` | the challenge table, the handlers that issue and redeem, the sweep, the clock; refines `OneShotTicket` |
| `MCChallengeStore` | symmetry for TLC |
| `ChallengeStoreProofs` | type correctness, single redemption, honest passes, the refinement, the bound, nothing lost, nobody refused for expired entries |
| `MemoryStore` | the in-memory store, its sweep, its snapshot file, restarts |
| `MCMemoryStore` | what is called in a run |
| `MemoryStoreProofs` | type correctness and all four safety properties of the store |
| `RulesReload` | the first load of the rules, the watcher, and edits of the file |
| `RuleMatching` | requests on their way through the rules while these are reloaded, with the cache of ASN lookups; extends `RulesReload` |
| `MCRulesReload` | versions of rules and databases, and which part runs |
| `RulesReloadProofs` | no edit missed, rules replaced only by good ones; each request decided by one version, the cache of lookups |
| `RequestGate` | the order of tests and counts that decides what becomes of a request |
| `MCRequestGate` | who sends requests in a run |
| `RequestGateProofs` | all five properties of the gate |
| `PassiveMode` | progressive mode: passive cookies and the counters of both stores behind them |
| `PassiveModeProofs` | type correctness, the first requests served, the budget kept |
| `RedisStore` | the store in Redis over a network that may fail |
| `RedisStoreProofs` | type correctness and all four safety properties of it |
| `IPTrie` | the trie of networks, as operators |
| `IPList` | the lists fetched into it: Tor exits, AbuseIPDB blacklist |
| `PolicyCompile` | the compilation of a policy file: networks, names, rules; over `IPTrie` |
| `NetworkProofs` | a trie answers for what was inserted; lists replace each other whole; compiled groups hold what their entries name; compiled rules mean what the file says, and only flawed policies are refused |
| `AnswerHistory` | the recent answers of a client to the slider |
| `FormReplay` | a visit that begins with a form: pages, fields, providers, cookies |
| `SliderPuzzle` | the geometry of the click-the-slot puzzle |
| `ClientAddress` | `X-Forwarded-For` through trusted and other proxies |
| `VisitProofs` | the properties of the last four |
| `MCVisits` | one run of these four, one of them at a time |
| `MCPassiveMode`, `MCRedisStore`, `MCIPList` | values and symmetry for TLC; `MCIPList` is the run of `IPList` and of `PolicyCompile` |

Operators whose comment begins with "Mutant:" are deliberate mistakes. None is
used by a specification; putting one in the place of its original makes the
property it is listed with in `PROJECT.json` fail, which shows that the property
can fail.

### 2.1 ChallengeStore

`challenges` and `attempts` are the maps of `sliderChallengeStore`. A worker is
a slot that serves one request at a time; `work[w]` holds the handler's locals:
where it stands, the `captcha_id` and the answer of the form, the copy `consume`
took, the verdict. Steps are as large as the critical sections of the code and
no larger: between any two steps other requests, the sweep and the clock move.

| Action | Code |
|---|---|
| `Visit`, `AnswerSpot`, `AnswerJigsaw`, `AskWait` | a request arrives: a page, `POST /__verify`, `GET /__wait` |
| `LookSpot` | `spotWidth` in `handleSliderVerify` |
| `Gate`, `DenyWait` | `waitAllowed` and what `handleVerify` does of its result |
| `Refresh` | `timedRemaining` in `handleWait` |
| `Attempt` | `allowAttempt` in the three handlers |
| `Take`, `JudgeSpot`, `JudgeJigsaw`, `Record` | `consume` and `consumeJigsaw`: the locked part; the unlocked verdict; `recordAnswer` and the handler's branches |
| `Poll` | `consumeTimed` and the branches of `handleTimedVerify` |
| `Serve`, `Issue` | the part of `serveChallenge` that shows a challenge again or draws a new one; `add` |
| `Sweep` | `sweepOnce` |

`retryChallenge` is `Penalised`: it bans (and the request ends) or serves the
next challenge. Its decision rests on counters of the store and is a choice
here, as are the throttle of `handleVerify`, the trouble token, and the verdict
of `recordAnswer`. A click is a position; a pair of tiles is a number, as in
`jigsawPair`; drawing the picture is left out. `rand.Read` never repeats an id;
it fails, for the model, when the ids of the instance are used up, and the code
treats that failure like any other. A provider outside the program (Cap,
Turnstile, hCaptcha) does not touch the table; a page for it ends the request.

`ledger` and `passes` are history variables: what was ever issued under an id,
and how often it earned a cookie. `passes` is the `cookies` of `OneShotTicket`,
so that a cookie which is earned in any other step than the one redemption of an
id is a step no ticket can take.

### 2.2 MemoryStore

The six maps of `memoryStore`, the dirty flag, the file and the saver. A method
is one action, since it holds the mutex from end to end; methods that change
nothing are operators (`WalkawayCount`, `PathsOf`). `persistSnapshot` is three
steps: the copy under the lock with the dirty flag cleared (`StartSave`), the
temporary file (`WriteTemp`), the rename (`Rename`), and it can fail after the
first (`FailSave`). `Restart` is the process killed at any moment and started
again: `newMemoryStore` and `loadSnapshot`. A rename that an operating system
lost in a crash of the machine is not modelled. A key stands for an address, or for one of
the prefixed keys of the gate ("fail:", "load:", a fingerprint). One duration of
bans stands for `cfg.Ban.Duration` and the trap's 24 hours, which are equal by
default; `BanOutlivesCrash` speaks of that case, for `Block` lets a shorter ban
replace a longer one.

Two things a reader of the code should know, which no document promises
otherwise: after a failed save the store stays marked clean, so that its
contents are not saved until the next change (`CrashLosesNothing` exempts this
with `failed`); and `IncrBanCount` does not look at the expiry of a ban count,
so that the count of a client who returns after the 30 days goes on until the
sweep has come by. `View`, of which `CleaningUnseen` says that a sweep leaves it
alone, therefore has no ban counts in it. It has what walk-away counts, bans,
reports and passive budgets depend on, and the paths of clients that are counted or
banned; the sweep drops the paths of others, and a later report lacks them.

### 2.3 RulesReload

The goroutine at the head of `main` and `watchRulesSource`. A version of the
file is its modification time, later with every write; a file put back with an
old time, and two writes within the resolution of the file system, are outside
the model. The file may be written, broken or deleted between any two steps.
`Flaky` makes the compilation of a good file fail at times, as it does for a
policy whose network lists cannot be fetched. `box` is `rulesBox`; `Unset` is the
state in which requests skip the rules, `NoRules` an empty list, under which
`default_action` applies.

`RuleMatching` puts requests into this: `Arrive` loads the box once, `Evaluate`
takes one rule up to the point where it needs the ASN, `Hit`, `Miss` and `PutAsn` are
`lookupASN`, whose two critical sections on the cache have the database between them.
`Reloads` is what a compilation adds: a matcher with an empty cache of its
own, which comes into use with the box. A cache is the list and the map of
`lruCache`. A rule is what it does, the clients its other conditions are met for,
and its network condition, by trie or by ASN: the order in which the code asks
is kept, for it decides who uses the cache. `inForce` and `recent` are history
variables.

### 2.4 RequestGate

A request is a worker; its record is what its handler has in hand: the place in
the code, the address, the fingerprint, `shared` (the value `handleRequest`
computes once), the penalty, the step of `resetWalkaways`. Every call of the
store is a step of its own, so that other requests, the end of a counter or of
a ban, the trap and a new exit list come between any two calls.

| Action | Code |
|---|---|
| `Page`, `Gate`, `Judge`, `Forwarded` | `handleRequest` up to the challenge: `torKind`, `IsBlocked`, the tests that refuse or forward |
| `Switch`, `CheckPrint`, `CountPrint`, `BanPrint`, `Load`, `Walk` | the rest of it: the switch allowance, the fingerprint, the load and the walk-away |
| `Post`, `Verify` | `handleVerify` and the handlers of the puzzles |
| `Penalise` | `retryChallenge` with a penalty; `Penalties` is its test of the address |
| `Ban`, `IncrBanCount`, `Report` | `banClient` |
| `Reset`, `Cookie` | `resetWalkaways`, and the cookie set after it |
| `Trap` | `handleTrap` |
| `Lapse`, `EndBan`, `Forget`, `FetchExits` | the end of a counter, a ban, a ban count, a cooldown; a new exit list |

`Shared` is `sharedTorIP` of `torKind`: an address of the list, or the one
address of onion visitors without circuit IDs, but no circuit. What the rules,
the cookie, the passive budget, the throttle and a verifier say is a choice in
`Judge` and `Verify`. There is no clock: what has a duration may end at any
moment, which covers every duration. A counter stops at its limit, and a ban
count at the last number that does not report, for no test looks further.
Requests from allowlisted addresses and for paths that always pass return before
any of this. The recent paths are with the store.

A request whose address an untrusted chain of proxies hides is challenged
without being counted (`Judge`); its POST, though, is counted against the
address of the proxy, for `handleVerify` ignores what `clientIP` says of it.

`held`, `listed`, `fresh` and `struck` are history variables; no guard reads them.

Three things the model shows of the code that no document speaks of. Each of
several requests that find the counter at its limit bans the client and counts a
ban, so that one burst may reach `report_after_bans`. A banned client may go on
to fail at `POST /__verify`, which looks at no ban, and every failure past the
limit counts a ban. And a request that is between its count and `banClient` when
another one solves still bans the client that has just solved.

### 2.5 PassiveMode

The part of `handleRequest` for passive paths, one worker per request: `Ask`,
`Judge` (the switch over mismatch, cookie and network), `Count`
(`IncrPassiveCount`, one critical section or transaction, and the comparison),
`Serve` (the cookie is set and the request passed on). The value of a cookie is its end,
the browser it is bound to, for `signCookie` puts nothing else into it that
could differ, and the spelling of its signature. Two browsers alike that are served in one
second get the same cookie and share its budget. `signCookie` writes the signature in
lower-case hexadecimal; `verifyCookie` decodes it from either case (`Valid`), and the stores
count under the value as it was sent (`Judge`): one cookie has a counter for each
spelling in which it is presented (`Presented`). That a cookie signed without ciphers is valid for a
browser that shows them is left out. Signatures are not forged.

`Counted` is the one place where the stores differ: in memory a counter ends a
window after its first request, in Redis a window after its last. `CountLost` and
`CountUnanswered` are Redis failing: go-redis sends a transaction again when its
answer is lost, and the method returns 0 in the end. `log` is a history
variable.

### 2.6 RedisStore

Every method of `redisStore` but `IncrPassiveCount` that changes a key. `Call`
sends the method's command, `Execute` is Redis executing it and the caller
having the answer; `AndThen` is the second command of `IncrBanCount`. `Lose`,
`GiveUp` and `ExecuteLate` are the network failing: an answer lost and the
command sent again, a caller that gives up (or whose program dies), a command
executed when nobody waits. Two callers may be two instances of the program. `Walkaways` and `RecentPaths` read what `IncrWalkaway` and `LogPath`
left. Paths are counted, not told apart. Equal commands that are both late are one, as
they would follow each other. Redis drops a key as soon as it has ended.

With a network that fails, `IncrBanCount` can leave a ban count without an end:
the expiry is set only by the caller that sees a 1, and a lost answer that is
asked for again is a 2.

### 2.7 IPTrie and IPList

A network is a family and the bits its mask leaves; a node of the trie is named
by the bits that lead to it. `Insert` and `Contains` are the two loops of
`policy.go`; that the first looks for a mark from the first bit on, and the second
from the root, is kept. `Covers` is the reference: `net.IPNet.Contains`. Networks
written as `::ffff:a.b.c.d/n`, on which `Insert` indexes past its four bytes, are not
in the model.

`IPList` is `parseIPList` line by line, within the fetch loops of `tor.go` and
`abuseipdb.go`, which are alike; `Refreshed` is the loop of the second, which ends
if the refresh time is not positive. The list at the server changes at any
time, and a fetch reads the one it found. `Fail` stands for no answer, another
status, and an answer that breaks off. Requests read the box at any moment: they
are the quantifiers of the properties.

### 2.8 PolicyCompile

`compilePolicyFile` as one sequential process, whose inputs (the file, what the
servers say) are any, and whose maps are gone through in any order.

| Action | Code |
|---|---|
| `Read`, `ReadFails` | the file, and the database of ASNs |
| `NextGroup`, `NextEntry`, `AllGroups` | the loops of `buildPolicyMatcher` |
| `Whois`, `WhoisFails` | `FetchASNets`: routes, or a failure that a strict policy does not survive |
| `FetchPrefixes`, `FetchFails` | `FetchPrefixes`; `Unusable` lists what it refuses |
| `InsertPrefix` | `Insert` into the trie of the group |
| `NextName`, `Refer`, `Substitute`, `NextAlternative`, `Return`, `AllNames` | `resolveConditionName`, with the stack of its calls |
| `CompileRule`, `AllRules` | the loop over the rules |

The text of a condition is the set of requests it holds for and whether it
parses, so that putting a condition in the place of a reference is what it means,
not how it is written: `And` and `Or` are what the brackets and signs of the
rewritten text say. Where a jq path or a regular expression extracts the
prefixes, every one must parse; of a plain list the lines that do not are passed
over (`NoPrefix`). A name that no rule uses may be unparsable without harm, for
nothing parses it; `Unparsable` says so. A whois that fails while `asn.whois_strict` is
off leaves the group without the prefixes of that ASN, which is logged and no
more: `GroupsWhole` makes this one exception. A first load that fails leaves
`NoRules`, as in `RulesReload`.

### 2.9 AnswerHistory

`recordAnswer` and `sweepOnce` hold the mutex from end to end, so each is one
action. `log` is the history of all answers.

### 2.10 FormReplay

One visitor and the pages the visitor sees. `Submit` is the form that is
challenged, `Fail`, `Pass` and `WaitInstead` the posts of the challenge page, `Refresh`
the wait page's GET of `/__wait`, `Resubmit` and `Follow` what the pages after a
verification do, `Switch` a link of the switcher, `Expire` and `ExitsChange`
what happens meanwhile. A field's name is how often it begins with `__replay_`
and the rest: a form may have fields that look like the page's own inputs, or
carry the prefix already. Values travel with their names; the limit on their size and
the content type are the choice `taken`.

Two things a reader should know. The pages have `Referrer-Policy: no-referrer`, so a
browser that does not send `Sec-Fetch-Site` posts them with `Origin: null`, fails
`sameOrigin` and loses the fields. And a name is left out as soon as it contains one of the
words for secrets, so that `author` (for `auth`) is not posted again, where
`docs/protection/form-submissions.mdx` speaks of the same POST; `FieldsSurvive`
speaks of the other names.

### 2.11 SliderPuzzle and ClientAddress

`SliderPuzzle` is arithmetic on columns: the slot's width, the places where it may be, the
decoys, and the click, scaled from the width shown to that of the picture and rounded
down. `loadConfig` bounds the settings (`PuzzleInit`); a negative tolerance, which it
lets through, is outside the model. The place of the slot is drawn, and drawn again while it
is central (`Central`), at most 64 times: any place may come out (`Build`), and `clear` says whether
the loop ended with a place it was content with or gave up. A tolerance of 24 or
more would let a click on a decoy pass, which `OnlyTheSlot` exempts.

`ClientAddress` is `clientIP` with `trust_real_ip`: proxies append, senders write what
they like, and the address is read from the end of the header.

## 3. What is checked

| Run | Instance | Shows |
|---|---|---|
| `challenge_races` | 2 ids, 2 workers, 1 shared address with 2 attempts a window, ttl, wait and solve time of 1, clock to 2, room for 2 | `OneRedemption`, `HonestPass`, `NothingLost`, `ImplementsTickets` |
| `challenge_live` | 2 ids, 1 worker, room for 1, 1 attempt a window, clock to 3, fair | `Bounded`, `RefusedOnlyWhenFull`, `ExpiredLeave`, `Answered` |
| `store` | 1 key, 2 bans, counters to 2, 2 paths, log of 1, 2 restarts, 1 failing save, clock to 3, fair | `CrashLosesNothing`, `BanOutlivesCrash`, `ReportsSpaced`, `CleaningUnseen`, `SavedBansReachDisk` |
| `rules_watch` | 4 versions, flaky network, fair; or 2 versions, 2 requests, 3 clients, a cache of 2 | `NothingMissed`, `GoodRulesStay`, `LaterEditsArrive`, `DecidedByOne`, `RecentKept` |
| `rules_start` | 4 versions, sure network, fair | `EditsArrive` is violated |
| `gate` | 1 address, 1 circuit with a fingerprint, 1 shared onion address; 2 workers, threshold 2, factor 2, a free switch, report after 2 bans | `LimitBans`, `BannedStayOut`, `SolvingClears`, `SharedSpared` |
| `gate_trap` | 1 address, 2 workers, threshold 2, factor 2 | `ExitNeverBanned` is violated |
| `passive` | 3 clients, 2 browsers, 2 networks, 2 spellings, 2 workers, budget 2, window 1, clock to 2; 4 requests to memory, or 3 to Redis failing | `FirstServed`, `BudgetKept` |
| `passive_outage` | 2 clients alike in one network, Redis failing, budget 2 | `OutageChallenges` is violated |
| `redis` | 1 key, 2 callers, 4 commands, clock to 4, network failing | `ReportsSpaced`, `BansAnswered`, `CountsGrow`, `BanCountsEnd` |
| `lists` | families of 2 and 1 bits, all lists of up to 3 lines unchanging; 6 lists with 2 changes and 2 failures; policies of up to 2 groups or 2 entries; policies of up to 3 names and 2 rules; fair | `WholeList`, `NeverWiped`, `ListsArrive`, `GroupsWhole`, `RulesMean`, `RefusedRightly`, `LoadEnds` |
| `visits` | 2 clients, 2 positions, samples 2, window 2, 9 answers; any form of names from 3 words with up to one prefix; any providers; 2 widths by 3 additions, 4 tolerances, 3 decoys; 2 trusted proxies, 2 others, 3 hops | `VerdictsRight`, `FieldsSurvive`, `SwitchSticks`, `OnlyTheSlot`, `Attributed` |

`TypeOK` of a module states the shape of its variables. It is in no run: it is proved
of every module that states one (section 4).

One run stands for one component. Where parts of it never touch the same state,
its MC module chooses at the start which of them are used, so that the run
covers all of them without the product of their states:

- `MCMemoryStore`: bans, reports, ban counts and saves that may fail; counters
  and paths over saves; or counters, passive budgets, paths and bans over
  restarts without a file. `SavedBansReachDisk` is `BansReachDisk` where the
  store is saved, and the fairness of saves is likewise.
- `MCRequestGate`: requests of an address without fingerprints that may become a
  Tor exit and switches no captchas; of a circuit with fingerprints, which is
  not counted for page loads and fails at no captcha; or of the address all .onion
  visitors share.
- `MCPassiveMode`: two clients that are alike, in different networks, send
  up to four requests to the memory store, in parallel; two of one network send up to three
  to Redis, one after another, since its failures already multiply the steps of
  each. One client, which belongs to both pairs, spells cookies anew.
- `MCRedisStore`: operations on the same keys. Those of different tables meet in
  no key.
- `MCIPList`: any short list that never changes, fetched without failures; a
  few lists that take turns; a policy with networks and no names; or a policy
  with names and rules and no networks, for neither half of a compilation
  reads the other's state.
- `MCRulesReload`: edits alone, four versions of them; or two versions, of which
  none is deleted, with two requests. Versions alternate between two sets of
  rules and databases that decide every client differently.
- `MCVisits`: one of the four modules. In `FormReplay`, any form at a site with
  every provider or with one, or a few forms at any site.

### Properties

- `OneRedemption`: of all the requests that race on an id, at most one gets a
  cookie. `HonestPass`: and that one with the right kind of handler, a hit, not
  before `MinSolve` or the full wait, not after expiry, and the id gone from the
  table. It compares with the ledger, not with the copy, and with the clock at
  the moment of the decision: a handler may pause between taking and judging.
- `NothingLost`: an unexpired challenge leaves the table only by a handler of
  its own kind, and a wait only by passing.
- `Bounded`, `RefusedOnlyWhenFull`: the table at its limit.
- `ImplementsTickets`: with pending meaning "in the table or in a handler's
  hands", every step of the table and of handlers that race on it is a step of
  `OneShotTicket` or none: a cookie comes only from a pending id, which is redeemed
  by that very step.
- `ExpiredLeave`, `Answered`: abandoned challenges go; every request is answered.
- `CrashLosesNothing`: when the dirty flag is down and no save is under way,
  starting from the file gives what starting from a fresh save would give.
- `BanOutlivesCrash`: a ban in a completed save stays in force to its end.
- `ReportsSpaced`: the cooldown between reports holds over sweeps and restarts.
- `CleaningUnseen`: the sweep and the lazy deletion of `IsBlocked` change no walk-away count, ban,
  cooldown or passive budget, to the very end of each, and no paths of a client that is
  counted or banned.
- `SavedBansReachDisk`: no ban stays out of the file, unless it ends, is lost in
  a restart or falls into a save that fails.
- `NothingMissed`, `LaterEditsArrive`: no edit made after the watcher began is
  lost, whatever it races with. `GoodRulesStay`: rules in force give way only to
  later good ones.
- `DecidedByOne`: a request is decided by one version of the rules, in force
  while it was handled, with that version's networks and database: its
  first rule that applies, or the default. `RecentKept`: the cache holds the addresses used last,
  as many as fit, in its list and its map alike.
- `LimitBans`: a counter that stands at its limit has led to a ban of its client,
  or a request is on its way to impose one, whatever raced to raise it.
- `BannedStayOut`: a ban in force ever since a request arrived keeps it from the
  application, unless the address is shared; a banned fingerprint gets no
  counted challenge.
- `SolvingClears`: when the cookie is set, whatever stands in a counter of the
  solver was counted after `resetWalkaways` had cleared it.
- `SharedSpared`: a request from an address that has been shared since it
  arrived raises no counter that bans, and bans and reports nobody, while the
  exit list changes and others are judged by it.

- `FirstServed`: a request that is challenged for its budget had a full budget
  of requests before it within a window, in memory, under the same value of the cookie or in
  the same network. `BudgetKept`: no value of a cookie and no network
  passes more than its budget within a window's length; in memory, where windows do not
  slide and one can begin as another ends, one less than twice that, which is
  reached: the first request of the earlier window lies before the later one by more than its length.
- `ReportsSpaced` (Redis): through lost answers, commands that come late and
  several instances, no two reports of an address within the cooldown.
- `BansAnswered`: an answer about a ban is right, to the end of the last one.
- `CountsGrow`: a walk-away counter that goes on within its time counts every
  request and forgets none but by a reset.
- `BanCountsEnd`: until the network first fails a caller, no ban count is left
  without an end, however two callers interleave the two commands.
- `WholeList`: at any time lookups answer for one whole published list as a
  search through its lines would, whatever their order and overlap.
- `NeverWiped`: after the first list there is always one, and it contains an
  address. `ListsArrive`: a list the server goes on publishing comes into force.
- `GroupsWhole`: once the networks have been read, a lookup answers for all that
  the entries of a group name, whatever order they came in and whatever failed.
- `RulesMean`: there is a meaning of the names in which each is what its condition
  says, and the compiled rules are what theirs say in it.
- `RefusedRightly`: a policy is refused exactly for an unusable network, an
  unknown name, a cycle, a text that does not parse on a rule's way, or a file or
  server that failed. `LoadEnds`: and the compilation ends.
- `FieldsSurvive`: through failures, waits and cookies that end, the site gets
  the form's fields and nothing else, unless the provider was switched.
- `SwitchSticks`: the provider that was picked is shown from then on.
- `OnlyTheSlot`: at every width shown, every click on the slot is right, none
  on a decoy is, and one on the centre is wrong if the drawing loop was content
  with the place. The loop and the judgement differ in the tolerance they allow and in what
  they round, and must still agree.
- `Attributed`: a request counts for the hop nearest to the trusted proxies.
- `VerdictsRight`: the verdict on an answer is that of the full history: the cut,
  the sweep and other clients do not change it.

### Disagreements with the documentation

`passive_outage`: the README of the program says that with Redis unreachable
"clients without a cookie are still challenged". In progressive mode they are
not: `IncrPassiveCount` returns 0 on an error (`store.go`, 492), which is within
the budget, and the request is passed on and given a cookie. The
counterexample is one request.

`gate_trap`: the README of the program says of Tor exits that "they are never
banned", and a test that "a shared exit IP must never be banned". `handleTrap`
(`main.go`, 452) blocks the address of whoever asks for the trap, and does not
ask whether it is shared. While the address is on the list the ban is not looked
at; it takes effect when the address leaves the list, or after a restart until
the list has been fetched. Every other way to a ban respects the list: with
`Trap` taken out, `ExitNeverBanned` holds in the same run.

`rules_start`: `rules.txt` says of itself that an edit is picked up within about
ten seconds. The goroutine loads the rules and only then looks up the
modification time it will compare with (`main.go`, 264 and 73). An edit in
between is taken for loaded and never picked up; with a policy whose network
lists are fetched over the network, the gap can be many seconds. The
counterexample is five steps: load, store, edit, look, and nothing more.
`LaterEditsArrive` is the same property for edits made after the first look, and
holds.

No run shows three others. The first is what `FirstServed` would show of Redis if it did not
speak of memory only: progressive mode is documented to serve the first
`max_requests` requests within `request_window`, but the Redis store renews the
end of the counter with each request (`store.go`, 488), so that a client that
never lets a window pass in silence is challenged in the end, however slow it is.

The second is about cookies. The README of the program gives `max_requests` requests within
`request_window` to a cookie. The counter is one of its value as it was sent (`main.go`, 578), while
`verifyCookie` (`cookie.go`, 80) takes the hexadecimal digits of a signature in either
case, so that the same cookie in another spelling is valid and counted apart. The model does as the
code does; `BudgetKept` and `FirstServed` therefore speak of values, and hold for each.

The third is about the slider, of which the README of the program says that "the correct slot
never covers the center". The loop that sees to it gives up after 64 redraws
(`slider.go`, 380). With the default tolerance nearly half of the places are clear, and it
practically never does; but the tolerance has no upper limit, and at width 200 one of 38 leaves 2 of
102 places clear, one of 40 none. `Build` allows any place, and `OnlyTheSlot` speaks
of the centre where the loop was content (`clear`).

### Bounds

Named bounds are `MaxTime`, `MaxCount` (both stores), `MaxBans`, `MaxCrashes`,
`MaxFailures`, `MaxVersions`, `MaxCalls`, `MaxSent`, `MaxPublished`, `MaxAnswers`,
`Few`, `MaxHops`, `DecoyAt`, and the sizes of the sets. Two workers are enough for
the races on an id: the properties speak of a challenge and of two
handlers at most, and slots are used again, so that any number of requests
follow each other. Two ids let one handler act on the other's challenge and
fill the table of size one. With durations of one, a clock to two reaches every
relation of now to an entry: too fast, at the boundary, expired in the table,
expired in a handler's hands. In the store a key never meets another, so one
stands for all; the clock lets a ban of 2 end and a report grow old between two
restarts. Four versions suffice for a load, an edit during a load, an edit during
a reload and one after. In the gate two
requests are enough to put one between any two calls of another, and
slots are used again; addresses never meet in the store, so one stands for all,
except that a fingerprint is counted apart, beside the address that carries it. A
threshold of 2 lets both counters grow below their limits. With a
passive budget of 2 and a window of 1 the third request meets a full
counter, one that has ended, or one renewed, and in memory the fourth comes within a window's
length of two others from before and after a window's end, so that one less than
twice the budget passes; two clients alike share a cookie, two of one network
its counter, and two spellings have one each. In Redis two callers put any command between
another's two, or between a command and its repetition. Three lines suffice for
a part before, after and without its whole; two bits for the whole, a part and a
part of the part. Three names close a cycle of any kind, and leave one that others
refer to twice; two entries put one source before another that fails. Three
clients overflow a cache of two. Nine answers exceed the eight that are kept. Three hops
put a trusted proxy before, between and after others. Decoys are tried at eight
columns (`DecoyAt`) of which some touch every slot and some do not; clicks
are all columns of the picture as shown.
`challenge_live` lets requests follow one another: the table is bounded under one
lock, and an answer depends on no other handler; whatever handlers race on is in
`challenge_races`.

### Fairness

Handlers are goroutines, which the Go scheduler runs; the tickers of the sweeps,
of `persistLoop` and of the watcher fire for ever; time passes. These have weak
fairness, and so has the fetcher of a list, whose failures are bounded, and a
compilation, since its exchanges over http and whois have timeouts. `SF(Reload)` says that a network that is tried again and again
succeeds at some time. Nothing obliges a client to send a request, an
administrator to edit, a save to fail or the process to crash. In runs that check safety only there is no fairness.

## 4. What is proved

`ChallengeStoreProofs`, for any sets of ids, addresses and workers and any
values of the times and limits in the assumptions of `ChallengeStore`:

- `Invariance`: `IndInv`, the conjunction of `TypeOK`, `LocalInv` (where a
  handler stands determines what it holds), `PendingInv` (what is in the table is
  in the ledger unchanged and was never redeemed), `HoldingInv` (what a handler
  holds is a true copy, out of the table, never redeemed), `ExclusiveInv` (no two
  handlers hold the same challenge), `LedgerInv` (the ledger is not ahead of the
  clock) and `OneRedemption`. `OneRedemption` alone is not inductive: that a
  handler about to pass is the only one follows from the last four.
- `TypeCorrect`, `RedeemedOnce`, `PassedHonestly`, `Implementation`: `TypeOK`,
  `OneRedemption`, `HonestPass` and `ImplementsTickets` from it. For the last, a step that
  adds to `passes` is shown to be a redemption of a pending ticket.
- `TableBounded`: `Bounded`, with the library's facts about cardinality.
- `NothingIsLost`: `NothingLost`. It needs one fact more, `SeenInv`: a slider
  handler that is past `spotWidth` holds an id under which a slider puzzle was
  issued, so that `consume`, which deletes whatever it finds, finds no other kind.
- `RefusedOnlyIfFull`: `RefusedOnlyWhenFull`, from the purge and the bound, which
  are in one critical section.

`RulesReloadProofs`, for any number of versions and any network: an invariant of
four parts, whose core is `RoundInv`: in a round `seen <= compiled <= version`,
because the modification time is looked up before the file is read. From it
`TypeCorrect`, `NoEditMissed` and `RulesStay`.

For the requests of `RuleMatching`, with any rules, clients and capacity of the
cache, `LoaderGoesOn` says that they leave the loader to itself, and `MatchInvariance` adds
to the invariant of the loader

- `RequestInv`: a request has passed over the rules behind it in the version it
  loaded, which was in force at some time since, and once decided has the verdict of
  that version;
- `MatcherInv`: no two requests under different versions use the same matcher, and its cache
  answers as the database of their version; a matcher that is compiled and not yet in
  the box has an empty one. This makes the gap between `Get` and `Put` harmless;
- `HistoryInv`: every key is once in the list of the keys used.

`OneVersionDecides` (`DecidedByOne`) follows. `LatestKept` (`RecentKept`) is inductive with the
last of these, by lemmas on what moving a key to the front does to a list
without duplicates.

`MemoryStoreProofs`, for any keys, times, restarts and failed saves. The invariant has a
part for each property:

- `BoundInv`: no ban, saved or not, ends later than `BanDuration` from now, so that a new
  one never shortens it. `BanInv`: the bans of the last completed save, and of the copy being
  written, are in force or over. `DiskInv`: the file is that save, whole. `BansOutlive` follows.
- `CleanInv`: when the dirty flag is down, what a start would take from the file, or
  from the copy being written, is what it would take of the tables, not only now but at
  any later time (`LoadedAt`): the clock may move before the crash. `NothingLost` follows.
- `ReportInv`: the last report is in the table for as long as a cooldown asks for it,
  for `Cooldown <= ReportKeep`. `ReportsApart` follows.

`CleaningGoesUnseen` (`CleaningUnseen`) needs only the types. It is about `View`, and so
not about ban counts.

`RedisStoreProofs`, for any callers, keys, times, lost answers and late commands. What
Redis has answered is a log; each part of the invariant says what the log obliges Redis to hold
now, and as Redis executes one command at a time, it does not matter who is still waiting:

- `ReportInv`: a key that was told to be reported is there until the cooldown is over.
  `OneReport` (`ReportsSpaced`) follows.
- `BanInv`: a key that is there ends when some ban ends, and none ends before a ban that was
  imposed. `BanRight` (`BansAnswered`).
- `CountInv`: a count since the last reset is at least what was answered, and ends no
  sooner than a full time after the answer. `CountRight` (`CountsGrow`).
- `BanCountsEnd` is inductive with `CallInv`: no command is late until the
  network has failed a caller, so that an `Expire` is still to come. `CountEnds`.

`TypeCorrect` is here about ends, too: no key is there after its own.

`PassiveModeProofs`, for any clients, workers, budget and window, either store, with
and without outages. What is known of a counter speaks of the calls of its own key only, so
that a step touches one key and a lemma carries the others along:

- `MemoryOk`: a counter stands for no more requests than its window has seen, what has passed in
  the window is within the count and the budget, and so is what passed in any
  window's length before it began. A stretch of that length meets two windows at most, and if two, the
  first request of the earlier one came before it: one less than twice the budget.
- `RedisOk`: a counter outlives each request it answered by a window, and bounds what passed
  in every window's length that reaches to the present.

`ServedFirst` (`FirstServed`) and `WithinBudget` (`BudgetKept`) follow, with the library's facts about
cardinality. Both are about a value of a cookie, as it is spelled, or a network. `TypeCorrect` adds `ShapeInv`: who is about to count has a call left of the bound.

`RequestGateProofs`, for any sets of addresses, fingerprints and requests and any
limits. `Good` adds to `TypeOK` what a handler has in hand at each place (an
address, a fingerprint where one is counted, a step of the reset that exists).
`Hop` lists where a handler goes from each place and under what condition; the
rest is argued on it:

- `TypeCorrect`: `TypeOK`, from `Good`.
- `BansHold`: `BannedStayOut`, from `HeldInv`: a ban that has held since the
  arrival is in force, and no handler past the test of it has such a ban.
- `SharedAreSpared`: `SharedSpared`, from `ListedInv`: a request that has been
  listed throughout stands only at places that penalise nobody.
- `LimitsBan`: `LimitBans`, which is inductive given `Good`.
- `SolutionsClear`: `SolvingClears`, from `SolverInv`, which says the same of the
  counters a solver has behind it at each step of the reset.

`NetworkProofs` begins with the trie and the lists, for any families, widths, lists and failures. `Faithful` says what it
is for a trie to hold a set of networks: only members are marked, each member
has a mark on its walk, marked nodes can be reached. `InsertKeeps` proves that
Insert keeps it, with a case for each way the walk ends; `Answering` that a faithful trie
contains what the set covers. `ListInv` carries both along the fetch, and yields
`TypeCorrect`, `WholeListAlways` and `WipedNever`.

It goes on with the groups of any policy. `TriesInv` says that a group that is complete holds
what its entries name, and of the group being built that what its trie holds and what is
queued make up what the entries so far give (`MakeUp`): neither half is enough, for a
whois inserts its routes before the entry is fetched. Over the lemmas of the trie it
gives `GroupsAreWhole`.

For the rules, with any number of names that refer to each other in any way, it adds:

- `ResolvedInv`: a resolved name has the meaning of its condition (`Meaning`), all it
  refers to is resolved, the resolved names contain no cycle, and one that does not
  parse leads to a text that does not.
- `StackInv`: the calls of the stack are for different names, none resolved; each has
  gathered the meaning of what it has gone through, and each but the last waits
  for the one above it. A reference to a name on the stack therefore closes
  a cycle (`CycleFound`), and a call that returns has the meaning of its condition
  (`ReturnMeans`); that what a call gathered stays true while others return is `FrameKept`.
- `RuleInv`, `StageInv`, and for the refusals `UsableInv` and `FailInv`.

From these `RulesHaveTheirMeaning` and `RefusalsAreRight`. The resolution is recursive in the
code; here its stack is a variable, so that the argument is one about steps.

`VisitProofs` has the parts of a visit:

- `RequestsAttributed` (`Attributed`), for headers of any length: `RouteInv` says that
  behind trusted proxies the header ends with the hop that counts and trusted ones after it.
  No walk through the header is needed, only which position is the last that is not trusted.
- `FieldsDoSurvive` and `SwitchesStick` (`FieldsSurvive`, `SwitchSticks`), for any names of fields,
  configuration and browser. `VisitInv` says what each kind of page carries: the
  fields the site would get, or none, and these only where the site has them already, the form was
  not taken up or the provider was switched. A prefix is added and taken away again,
  so a field named like a replayed one comes back as itself.
- `OnlyTheSlotSolves` (`OnlyTheSlot`), for any width and tolerance and any place of slot
  and decoys. `PuzzleInv` keeps decoys apart from the slot, and the slot off the centre if the drawing loop was
  content; the rest is what rounding to columns can do, by lemmas on quotients. That the loop is always
  content is not true, and not claimed.
- `VerdictsAreRight` (`VerdictsRight`), for any clients and any number of answers. `HistoryInv` says that
  the samples of a client are the end of its answers in their order, and that what
  is missing is too old to count or is made up for by enough that came later: `recordAnswer` cuts by time
  and by number, the sweep by time, and neither touches what a later verdict takes.
  - `AnswersBounded`: the samples of a client stay within four times what a verdict takes.

The assumptions are those named in the modules: `NoId` is no id, the sets of
addresses and fingerprints of the gate are apart, times and limits are natural
numbers (the limits of the gate positive), positions are integers, the values of the box that
are no version differ from versions and from each other, what stands for a missing or torn file
is no snapshot, what stands for a line that does not parse is no network, the cooldown
of reports is not longer than they are remembered, trusted proxies are not among the other addresses and
what is no address is neither, and the widths a puzzle is shown at are even, as `sliderSpotWidths` are:
at an odd width the middle is half a pixel off the centre. In `PassiveMode` finitely many requests
are handled at once.

Only model-checked: the liveness properties `ExpiredLeave`, `Answered`, `SavedBansReachDisk`,
`LaterEditsArrive`, `ListsArrive` and `LoadEnds` (liveness under fairness is out of the prover's
reach). Every other property of a passing run is a theorem.

## 5. The plan

All modules of the original plan are there but one. What would come next, in this order:

1. `Cookies`: scopes, binding and ends of the verified cookie and the trouble
   token, beside the passive cookie of `PassiveMode`.
2. A composition of the gate, the challenge table and the store, end to end.
3. The lines of text rules (`loadRulesFile`, `compileLegacyRules`).

## 6. What is not modelled, and why

Pictures, sounds, pages, colours and the content security policy have no
state that a property could be about; of the puzzles the geometry of the slider is
modelled, and the jigsaw's pair of tiles as a number. The tarpit, metrics and the
external verifiers are single exchanges or plain output. The fingerprint script
runs in another program. Configuration defaults enter as constants, the limits of
the slider as initial states. Networks written as `::ffff:a.b.c.d/n` are outside `IPTrie`.
`PROJECT.json` lists every component with its status.
