------------------------------ MODULE FormReplay ------------------------------
(***************************************************************************)
(* A visit that begins with a form and is challenged on the way:           *)
(* serveChallenge and providerForRequest in challenge.go, replay.go,       *)
(* /__set_provider, and the ends of the verify handlers in main.go. The    *)
(* server keeps nothing of the form: its fields travel as hidden inputs of *)
(* every challenge page, and are posted again in the end.                  *)
(*                                                                         *)
(* A name is how often it begins with __replay_, and the rest; among the   *)
(* rests some look sensitive. Whether an answer is right, in time or       *)
(* throttled is for ChallengeStore and RequestGate: here a verification    *)
(* passes or fails.                                                        *)
(***************************************************************************)
EXTENDS Naturals, FiniteSets

CONSTANTS
    Plain, Sensitive,  \* rests of field names
    Inputs             \* names of the inputs of the challenge page itself

Provider == {"cap", "turnstile", "hcaptcha", "slider", "jigsaw"}
Keyed == {"cap", "turnstile", "hcaptcha"}

VARIABLES
    cfg,       \* the site keys that are set, slider.enabled, provider
    browser,   \* whether it sends Sec-Fetch-Site and whether it is too old for cap
    form,      \* the names of its fields, and whether replayValues takes them
    exit,      \* torKind names the client
    cookie,    \* cp_provider, "" if not set
    verified,  \* the browser has a verified cookie
    page,      \* what the browser shows
    got,       \* the fields the site has received
    chosen,    \* history: the provider picked last
    switched   \* history: the fields were on a page that was switched away from

visitVars == <<cfg, browser, form, exit, cookie, verified, page, got, chosen, switched>>
given == <<cfg, browser, form>>

FieldName == [prefixes : 0..1, rest : Plain \cup Sensitive \cup Inputs]

Blank == [kind |-> "form", provider |-> "", timed |-> FALSE, fields |-> {}]

VisitInit ==
    /\ cfg \in [keys : SUBSET Keyed, slider : BOOLEAN, provider : Keyed \cup {"", "slider"}]
    /\ cfg.provider # "" => cfg.provider \in cfg.keys \/ (cfg.slider /\ cfg.provider = "slider")
    /\ browser \in [metadata : BOOLEAN, old : BOOLEAN]
    /\ form \in [fields : SUBSET FieldName, taken : BOOLEAN]
    /\ exit \in BOOLEAN
    /\ cookie = "" /\ verified = FALSE /\ page = Blank /\ got = {}
    /\ chosen = "" /\ switched = FALSE

-----------------------------------------------------------------------------
(* The provider of a request.                                               *)

\* availableProviders, which the switcher offers.
Available == cfg.keys \cup IF cfg.slider THEN {"slider", "jigsaw"} ELSE {}

\* chosenProvider: the cookie, if that provider is set up; the slider for Tor;
\* the configured one; or the first there is.
ChosenProvider(ck) ==
    IF ck \in Available THEN ck
    ELSE IF cfg.slider /\ exit THEN "slider"
    ELSE IF cfg.provider # "" THEN cfg.provider
    ELSE IF "cap" \in cfg.keys THEN "cap"
    ELSE IF "hcaptcha" \in cfg.keys THEN "hcaptcha"
    ELSE IF cfg.slider THEN "slider" ELSE "turnstile"

\* Mutant: an old browser never gets cap.
ProviderByBrowser(ck) ==
    IF ChosenProvider(ck) = "cap" /\ cfg.slider /\ browser.old THEN "slider"
    ELSE ChosenProvider(ck)

\* providerForRequest: an old browser gets the slider, unless it asked for cap.
ProviderFor(ck) ==
    IF ChosenProvider(ck) = "cap" /\ cfg.slider /\ browser.old /\ ck # "cap" THEN "slider"
    ELSE ChosenProvider(ck)

-----------------------------------------------------------------------------
(* The fields.                                                              *)

\* replayFields: names that look sensitive are left out.
ReplayFields(names) == {name \in names : name.rest \notin Sensitive}

\* The inputs of a challenge page's form: its own, and the fields with one more
\* prefix.
Sent(fields) ==
    [prefixes : {0}, rest : Inputs]
        \cup {[name EXCEPT !.prefixes = @ + 1] : name \in fields}

\* sameOrigin of what a challenge page posts: it has Referrer-Policy
\* no-referrer, so that the browser's Origin says null.
SameOrigin == browser.metadata

\* replayValues of /__verify: the prefixed names, without their prefix.
ReplayValues(sent) ==
    IF SameOrigin
    THEN {[name EXCEPT !.prefixes = @ - 1] : name \in {n \in sent : n.prefixes > 0}}
    ELSE {}

\* The fields a post from the page carries on.
Posted == ReplayFields(ReplayValues(Sent(page.fields)))

Shows(kind, fields) ==
    page' = [kind |-> kind, provider |-> "", timed |-> FALSE, fields |-> fields]

Challenged(fields, timed, ck) ==
    page' = [kind |-> "challenge", provider |-> IF timed THEN "timed" ELSE ProviderFor(ck),
             timed |-> timed, fields |-> fields]

\* A page of the site, for a GET or a POST of these fields: the site's own for
\* a verified browser, which receives the fields of a POST.
Visit(method, names, taken) ==
    IF verified
    THEN /\ Shows("site", {}) /\ got' = IF method = "POST" THEN names ELSE got
    ELSE /\ Challenged(IF method = "POST" /\ taken THEN ReplayFields(names) ELSE {}, FALSE, cookie)
         /\ UNCHANGED got

-----------------------------------------------------------------------------
(* The visitor and time.                                                    *)

Submit ==
    /\ page.kind = "form"
    /\ Visit("POST", form.fields, form.taken)
    /\ UNCHANGED <<given, exit, cookie, verified, chosen, switched>>

\* Any answer that does not pass: the page comes again, with the fields, and a
\* wait goes on or has to be asked for again.
Fail ==
    /\ page.kind = "challenge"
    /\ \E timed \in {page.timed, FALSE} : Challenged(Posted, timed, cookie)
    /\ UNCHANGED <<given, exit, cookie, verified, got, chosen, switched>>

\* finishVerify and finishPuzzle: the fields are posted again, or, if there are
\* none, the page is asked for.
Pass ==
    /\ page.kind = "challenge"
    /\ verified' = TRUE
    /\ Shows(IF Posted = {} THEN "redirect" ELSE "resubmit", Posted)
    /\ UNCHANGED <<given, exit, cookie, got, chosen, switched>>

\* "Wait instead"; if it is not allowed yet, the page comes again.
WaitInstead ==
    /\ page.kind = "challenge" /\ ~page.timed
    /\ \E allowed \in BOOLEAN : Challenged(Posted, allowed, cookie)
    /\ UNCHANGED <<given, exit, cookie, verified, got, chosen, switched>>

\* Mutant: every wait page refreshes itself.
RefreshAlways ==
    /\ page.kind = "challenge" /\ page.timed
    /\ \/ Challenged({}, TRUE, cookie) /\ UNCHANGED verified
       \/ Shows("redirect", {}) /\ verified' \in {verified, TRUE}
    /\ UNCHANGED <<given, exit, cookie, got, chosen, switched>>

\* A wait page that carries nothing refreshes itself by /__wait: the wait goes
\* on, is over, or is gone.
Refresh ==
    /\ page.kind = "challenge" /\ page.timed /\ page.fields = {}
    /\ \/ Challenged({}, TRUE, cookie) /\ UNCHANGED verified
       \/ Shows("redirect", {}) /\ verified' \in {verified, TRUE}
    /\ UNCHANGED <<given, exit, cookie, got, chosen, switched>>

\* The resubmit page posts the fields, by script or by its button; it has
\* Referrer-Policy no-referrer, too.
Resubmit ==
    /\ page.kind = "resubmit"
    /\ Visit("POST", page.fields, SameOrigin)
    /\ UNCHANGED <<given, exit, cookie, verified, chosen, switched>>

Follow ==
    /\ page.kind = "redirect"
    /\ Visit("GET", {}, FALSE)
    /\ UNCHANGED <<given, exit, cookie, verified, chosen, switched>>

\* A link of the switcher, which is there for more than one provider.
Switch ==
    /\ page.kind = "challenge" /\ Cardinality(Available) > 1
    /\ \E p \in Available \ {page.provider} : cookie' = p /\ chosen' = p
    /\ Shows("redirect", {})
    /\ switched' = (switched \/ page.fields # {})
    /\ UNCHANGED <<given, exit, verified, got>>

\* The verified cookie ends.
Expire ==
    /\ verified /\ verified' = FALSE
    /\ UNCHANGED <<given, exit, cookie, page, got, chosen, switched>>

\* The exit list is replaced.
ExitsChange ==
    /\ exit' = ~exit
    /\ UNCHANGED <<given, cookie, verified, page, got, chosen, switched>>

VisitNext ==
    \/ Submit \/ Fail \/ Pass \/ WaitInstead \/ Refresh \/ Resubmit \/ Follow
    \/ Switch \/ Expire \/ ExitsChange

VisitSpec == VisitInit /\ [][VisitNext]_visitVars

-----------------------------------------------------------------------------
(* Properties.                                                             *)

\* docs/protection/form-submissions.mdx: after any number of failed attempts,
\* of waits, of cookies that end before the form is posted again, the site gets
\* the fields of the form and nothing else, but for those that look sensitive;
\* and the visitor is not sent on without them, unless the provider was
\* switched. (A browser that does not send Sec-Fetch-Site posts with Origin
\* null from the challenge page, and loses the fields.)
FieldsSurvive ==
    LET kept == ReplayFields(form.fields)
    IN  /\ got \in {{}, kept}
        /\ form.taken /\ browser.metadata /\ page.kind = "site" /\ ~switched => got = kept

\* A provider picked in the switcher is the one shown from then on, whatever the
\* configuration, the browser and the exit list say, until another is picked.
SwitchSticks ==
    page.kind = "challenge" /\ ~page.timed /\ chosen # "" => page.provider = chosen
=============================================================================
