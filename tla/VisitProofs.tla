----------------------------- MODULE VisitProofs -----------------------------
(***************************************************************************)
(* Theorems about the parts of a visit: whose request it is                *)
(* (ClientAddress), what a challenge carries along (FormReplay), which     *)
(* clicks solve a puzzle (SliderPuzzle), and whose answers look like a     *)
(* program's (AnswerHistory).                                              *)
(***************************************************************************)
EXTENDS AnswerHistory, FormReplay, SliderPuzzle, ClientAddress, FiniteSetTheorems, TLAPS

-----------------------------------------------------------------------------
(* Whose request it is.                                                    *)

\* Behind trusted proxies, the header ends with the hop that counts, followed by
\* trusted ones only.
RouteInv ==
    /\ header \in Seq(Trusted \cup Outside \cup {Junk})
    /\ peer \in Trusted \cup Outside
    /\ peer \notin Trusted => origin = peer
    /\ peer \in Trusted =>
         \E i \in 1..Len(header) :
            /\ header[i] = origin /\ origin \in Outside
            /\ \A j \in (i + 1)..Len(header) : header[j] \in Trusted

LEMMA RouteInitInv == RouteInit => RouteInv
<1> SUFFICES ASSUME RouteInit PROVE RouteInv
  OBVIOUS
<1>1. PICK n \in 0..MaxHops : header \in [1..n -> Trusted \cup Outside \cup {Junk}]
  BY DEF RouteInit
<1>2. header \in Seq(Trusted \cup Outside \cup {Junk})
  BY <1>1, RouteAssumption
<1> QED
  BY <1>2, RouteAssumption DEF RouteInit, RouteInv

LEMMA ForwardKeeps == RouteInv /\ [Forward]_routeVars => RouteInv'
<1> SUFFICES ASSUME RouteInv, [Forward]_routeVars PROVE RouteInv'
  OBVIOUS
<1>1. CASE UNCHANGED routeVars
  BY <1>1 DEF RouteInv, routeVars
<1>2. CASE Forward
  <2>1. /\ header' \in Seq(Trusted \cup Outside \cup {Junk})
        /\ Len(header') = Len(header) + 1 /\ Len(header) \in Nat
        /\ header'[Len(header) + 1] = peer
        /\ \A i \in 1..Len(header) : header'[i] = header[i]
        /\ peer' \in Trusted \cup Outside
    BY <1>2 DEF Forward, RouteInv
  <2>2. CASE peer' \notin Trusted
    BY <1>2, <2>1, <2>2 DEF Forward, RouteInv
  <2>3. CASE peer' \in Trusted /\ peer \in Trusted
    <3>1. PICK i \in 1..Len(header) :
             /\ header[i] = origin /\ origin \in Outside
             /\ \A j \in (i + 1)..Len(header) : header[j] \in Trusted
      BY <2>3 DEF RouteInv
    <3>2. /\ i \in 1..Len(header') /\ header'[i] = origin
          /\ \A j \in (i + 1)..Len(header') : header'[j] \in Trusted
      BY <2>1, <2>3, <3>1
    <3>3. origin' = origin
      BY <1>2, <2>3 DEF Forward
    <3> QED
      BY <2>1, <2>3, <3>1, <3>2, <3>3 DEF RouteInv
  <2>4. CASE peer' \in Trusted /\ peer \notin Trusted
    <3>1. /\ origin' = peer /\ peer \in Outside
          /\ Len(header') \in 1..Len(header') /\ header'[Len(header')] = origin'
          /\ \A j \in (Len(header') + 1)..Len(header') : header'[j] \in Trusted
      BY <1>2, <2>1, <2>4 DEF Forward, RouteInv
    <3> QED
      BY <2>1, <2>4, <3>1 DEF RouteInv
  <2> QED
    BY <2>2, <2>3, <2>4
<1> QED
  BY <1>1, <1>2

LEMMA RouteInvAttributes == RouteInv => Attributed
<1> SUFFICES ASSUME RouteInv PROVE Attributed
  OBVIOUS
<1> DEFINE parts == {i \in DOMAIN header :
                       header[i] # Junk /\ (i = 1 \/ header[i] \notin Trusted)}
<1>1. CASE peer \notin Trusted
  BY <1>1 DEF Attributed, ClientIP, RouteInv
<1>2. CASE peer \in Trusted
  <2>1. PICK i \in 1..Len(header) :
             /\ header[i] = origin /\ origin \in Outside
             /\ \A j \in (i + 1)..Len(header) : header[j] \in Trusted
    BY <1>2 DEF RouteInv
  <2>2. Len(header) \in Nat /\ DOMAIN header = 1..Len(header)
    BY DEF RouteInv
  <2>3. i \in parts /\ \A j \in parts : j \in Int /\ j <= i
    BY <2>1, <2>2, RouteAssumption
  <2>4. \A k \in parts : (\A j \in parts : j <= k) => k = i
    BY <2>3
  <2>5. (CHOOSE k \in parts : \A j \in parts : j <= k) = i
    BY <2>3, <2>4
  <2>6. parts # {}
    BY <2>3
  <2> HIDE DEF parts
  <2>7. Attributed <=> [ip |-> header[CHOOSE k \in parts : \A j \in parts : j <= k],
                        resolved |-> TRUE] = [ip |-> origin, resolved |-> TRUE]
    BY <1>2, <2>6 DEF Attributed, ClientIP, parts
  <2> QED
    BY <2>1, <2>5, <2>7
<1> QED
  BY <1>1, <1>2

\* However many proxies a request went through and whatever its sender wrote
\* into X-Forwarded-For, clientIP answers with the hop nearest to the trusted
\* proxies that is none of them.
THEOREM RequestsAttributed == RouteSpec => []Attributed
<1>1. RouteSpec => []RouteInv
  BY RouteInitInv, ForwardKeeps, PTL DEF RouteSpec
<1> QED
  BY <1>1, RouteInvAttributes, PTL


-----------------------------------------------------------------------------
(* What a challenge carries along.                                         *)

Kept == ReplayFields(form.fields)

\* What the properties rest on. Every page carries the fields of the form or
\* none, and only a verified browser gets past the challenge; if the fields are
\* taken up and no page with them was switched away from, they are on the page
\* or with the site.
VisitInv ==
    /\ form.fields \subseteq FieldName /\ form.taken \in BOOLEAN
    /\ browser.metadata \in BOOLEAN /\ browser.old \in BOOLEAN
    /\ verified \in BOOLEAN /\ switched \in BOOLEAN /\ page.timed \in BOOLEAN
    /\ page.fields \in {{}, Kept}
    /\ got \in {{}, Kept}
    /\ page.kind = "form" => verified = FALSE
    /\ form.taken /\ browser.metadata /\ ~switched =>
         /\ page.kind = "challenge" => page.fields = Kept \/ got = Kept
         /\ page.kind = "resubmit" => page.fields = Kept
         /\ page.kind \in {"redirect", "site"} => got = Kept
    /\ cookie = chosen
    /\ chosen # "" => chosen \in Available
    /\ page.kind = "challenge" /\ page.timed = FALSE /\ chosen # "" => page.provider = chosen

\* A name travels with one more prefix, and comes back without it.
LEMMA PrefixGoes ==
    ASSUME NEW name \in FieldName
    PROVE  /\ [name EXCEPT !.prefixes = @ + 1].prefixes > 0
           /\ [[name EXCEPT !.prefixes = @ + 1] EXCEPT !.prefixes = @ - 1] = name
<1> DEFINE sent == [name EXCEPT !.prefixes = @ + 1]
           back == [sent EXCEPT !.prefixes = @ - 1]
<1>1. /\ name.prefixes \in 0..1 /\ name.prefixes \in Int
      /\ name = [prefixes |-> name.prefixes, rest |-> name.rest]
  BY DEF FieldName
<1>2. sent.prefixes = name.prefixes + 1 /\ sent.rest = name.rest
      /\ sent = [prefixes |-> sent.prefixes, rest |-> sent.rest]
  BY <1>1
<1> HIDE DEF sent
<1>3. back.prefixes = sent.prefixes - 1 /\ back.rest = sent.rest
      /\ back = [prefixes |-> back.prefixes, rest |-> back.rest]
  BY <1>2
<1> HIDE DEF back
<1>4. sent.prefixes > 0 /\ back = name
  BY <1>1, <1>2, <1>3
<1> USE DEF back, sent
<1> QED
  BY <1>4

\* The fields of a page are posted from it as they are, by a browser that says
\* where the post comes from, and not at all by another.
LEMMA RoundTrip ==
    ASSUME form.fields \subseteq FieldName, NEW fields, fields \subseteq Kept
    PROVE  /\ browser.metadata = TRUE => ReplayFields(ReplayValues(Sent(fields))) = fields
           /\ browser.metadata = FALSE => ReplayFields(ReplayValues(Sent(fields))) = {}
<1>1. fields \subseteq FieldName /\ \A name \in fields : name.rest \notin Sensitive
  BY DEF Kept, ReplayFields
<1>2. CASE browser.metadata = FALSE
  BY <1>2 DEF ReplayFields, ReplayValues, SameOrigin
<1>3. CASE browser.metadata = TRUE
  <2> DEFINE back == {[name EXCEPT !.prefixes = @ - 1] :
                        name \in {n \in Sent(fields) : n.prefixes > 0}}
  <2>1. ASSUME NEW name \in fields
        PROVE  name \in back
    <3>1. [name EXCEPT !.prefixes = @ + 1] \in Sent(fields)
      BY DEF Sent
    <3> QED
      BY <1>1, <3>1, PrefixGoes
  <2>2. ASSUME NEW name \in back
        PROVE  name \in fields
    <3>1. PICK sent \in Sent(fields) :
             sent.prefixes > 0 /\ name = [sent EXCEPT !.prefixes = @ - 1]
      OBVIOUS
    <3>2. sent \notin [prefixes : {0}, rest : Inputs]
      BY <3>1
    <3>3. PICK first \in fields : sent = [first EXCEPT !.prefixes = @ + 1]
      BY <3>2 DEF Sent
    <3> QED
      BY <1>1, <3>1, <3>3, PrefixGoes
  <2>3. ReplayValues(Sent(fields)) = back
    BY <1>3 DEF ReplayValues, SameOrigin
  <2>4. back = fields
    BY <2>1, <2>2
  <2> HIDE DEF back
  <2> QED
    BY <1>1, <1>3, <2>3, <2>4 DEF ReplayFields
<1> QED
  BY <1>2, <1>3

\* Nothing sensitive is among what is kept.
LEMMA KeptTwice == ReplayFields(Kept) = Kept /\ ReplayFields({}) = {}
  BY DEF Kept, ReplayFields

\* A post from a page carries on the page's fields, or nothing.
LEMMA PostedCarries ==
    ASSUME VisitInv
    PROVE  /\ Posted \in {{}, Kept}
           /\ browser.metadata => Posted = page.fields
           /\ page.fields = {} => Posted = {}
<1>1. page.fields \subseteq Kept
  BY DEF VisitInv
<1>2. /\ browser.metadata = TRUE => Posted = page.fields
      /\ browser.metadata = FALSE => Posted = {}
  BY <1>1, RoundTrip DEF VisitInv, Posted
<1> QED
  BY <1>2 DEF VisitInv

\* A cookie that names a provider there is settles the choice.
LEMMA CookieSettles ==
    ASSUME VisitInv, chosen # ""
    PROVE  ProviderFor(cookie) = chosen
  BY DEF VisitInv, ProviderFor, ChosenProvider

LEMMA VisitInitInv == VisitInit => VisitInv
<1> SUFFICES ASSUME VisitInit PROVE VisitInv
  OBVIOUS
<1>1. form.fields \subseteq FieldName /\ form.taken \in BOOLEAN
  BY DEF VisitInit
<1>2. browser.metadata \in BOOLEAN /\ browser.old \in BOOLEAN
  BY DEF VisitInit
<1> QED
  BY <1>1, <1>2 DEF VisitInit, VisitInv, Blank

\* What a challenge page with such fields needs to be right.
LEMMA ChallengedKeeps ==
    ASSUME VisitInv, NEW fields \in {{}, Kept}, NEW timed \in BOOLEAN,
           Challenged(fields, timed, cookie),
           UNCHANGED <<given, cookie, got, chosen, switched>>, verified' \in BOOLEAN,
           form.taken /\ browser.metadata /\ ~switched => fields = Kept \/ got = Kept
    PROVE  VisitInv'
<1>1. /\ page'.kind = "challenge" /\ page'.timed = timed /\ page'.fields = fields
      /\ timed = FALSE => page'.provider = ProviderFor(cookie)
  BY DEF Challenged
<1>2. Kept' = Kept /\ Available' = Available /\ FieldName' = FieldName
  BY DEF Kept, ReplayFields, Available, given, FieldName
<1>3. form' = form /\ browser' = browser
  BY DEF given
<1> QED
  BY <1>1, <1>2, <1>3, CookieSettles DEF VisitInv

\* And any other page.
LEMMA ShowsKeeps ==
    ASSUME VisitInv, NEW kind \in {"redirect", "resubmit", "site"}, NEW fields \in {{}, Kept},
           Shows(kind, fields),
           UNCHANGED <<given, cookie, chosen, switched>>, verified' \in BOOLEAN,
           got' \in {{}, Kept},
           form.taken /\ browser.metadata /\ ~switched =>
             IF kind = "resubmit" THEN fields = Kept ELSE got' = Kept
    PROVE  VisitInv'
<1>1. /\ page'.kind = kind /\ page'.timed = FALSE /\ page'.fields = fields
  BY DEF Shows
<1>2. Kept' = Kept /\ Available' = Available /\ FieldName' = FieldName
  BY DEF Kept, ReplayFields, Available, given, FieldName
<1>3. form' = form /\ browser' = browser
  BY DEF given
<1> QED
  BY <1>1, <1>2, <1>3 DEF VisitInv

LEMMA VisitKeeps == VisitInv /\ [VisitNext]_visitVars => VisitInv'
<1> SUFFICES ASSUME VisitInv, [VisitNext]_visitVars PROVE VisitInv'
  OBVIOUS
<1>1. CASE Submit
  <2>1. verified = FALSE /\ verified' = verified
    BY <1>1 DEF Submit, VisitInv
  <2>2. /\ Challenged(IF form.taken THEN Kept ELSE {}, FALSE, cookie) /\ UNCHANGED got
        /\ UNCHANGED <<given, cookie, chosen, switched>>
    BY <1>1, <2>1 DEF Submit, Visit, Kept
  <2> DEFINE fields == IF form.taken THEN Kept ELSE {}
  <2>3. /\ fields \in {{}, Kept} /\ verified' \in BOOLEAN
        /\ form.taken /\ browser.metadata /\ ~switched => fields = Kept \/ got = Kept
    BY <2>1 DEF VisitInv
  <2> HIDE DEF fields
  <2> QED
    BY <2>2, <2>3, ChallengedKeeps DEF fields
<1>2. CASE Fail
  <2>1. PICK timed \in {page.timed, FALSE} : Challenged(Posted, timed, cookie)
    BY <1>2 DEF Fail
  <2>2. timed \in BOOLEAN /\ verified' \in BOOLEAN
    BY <1>2 DEF VisitInv, Fail
  <2>3. /\ Posted \in {{}, Kept}
        /\ form.taken /\ browser.metadata /\ ~switched => Posted = Kept \/ got = Kept
    BY <1>2, PostedCarries DEF VisitInv, Fail
  <2> QED
    BY <1>2, <2>1, <2>2, <2>3, ChallengedKeeps DEF Fail
<1>3. CASE Pass
  <2>1. Shows(IF Posted = {} THEN "redirect" ELSE "resubmit", Posted)
    BY <1>3 DEF Pass
  <2>2. verified' \in BOOLEAN /\ got' \in {{}, Kept} /\ Posted \in {{}, Kept}
    BY <1>3, PostedCarries DEF Pass, VisitInv
  <2>3. /\ form.taken /\ browser.metadata /\ ~switched =>
             IF Posted # {} THEN Posted = Kept ELSE got' = Kept
    BY <1>3, PostedCarries DEF Pass, VisitInv
  <2> QED
    BY <1>3, <2>1, <2>2, <2>3, ShowsKeeps DEF Pass
<1>4. CASE WaitInstead
  <2>1. PICK allowed \in BOOLEAN : Challenged(Posted, allowed, cookie)
    BY <1>4 DEF WaitInstead
  <2>2. verified' \in BOOLEAN
    BY <1>4 DEF VisitInv, WaitInstead
  <2>3. /\ Posted \in {{}, Kept}
        /\ form.taken /\ browser.metadata /\ ~switched => Posted = Kept \/ got = Kept
    BY <1>4, PostedCarries DEF VisitInv, WaitInstead
  <2> QED
    BY <1>4, <2>1, <2>2, <2>3, ChallengedKeeps DEF WaitInstead
<1>5. CASE Refresh
  <2>1. /\ page.kind = "challenge" /\ page.fields = {} /\ verified' \in BOOLEAN
        /\ got' \in {{}, Kept} /\ got' = got
        /\ form.taken /\ browser.metadata /\ ~switched => got = Kept
    BY <1>5 DEF Refresh, VisitInv
  <2>2. CASE Challenged({}, TRUE, cookie)
    BY <1>5, <2>1, <2>2, ChallengedKeeps DEF Refresh
  <2>3. CASE Shows("redirect", {})
    BY <1>5, <2>1, <2>3, ShowsKeeps DEF Refresh
  <2> QED
    BY <1>5, <2>2, <2>3 DEF Refresh
<1>6. CASE Resubmit
  <2>1. /\ page.kind = "resubmit" /\ page.fields \in {{}, Kept} /\ verified' = verified
        /\ verified' \in BOOLEAN /\ browser.metadata \in BOOLEAN
        /\ form.taken /\ browser.metadata /\ ~switched => page.fields = Kept
    BY <1>6 DEF Resubmit, VisitInv
  <2>2. ReplayFields(page.fields) = page.fields
    BY <2>1, KeptTwice
  <2>3. CASE verified
    <3>1. Shows("site", {}) /\ got' = page.fields
      BY <1>6, <2>3 DEF Resubmit, Visit
    <3> QED
      BY <1>6, <2>1, <3>1, ShowsKeeps DEF Resubmit
  <2>4. CASE ~verified
    <3> DEFINE fields == IF browser.metadata THEN page.fields ELSE {}
    <3>1. Challenged(fields, FALSE, cookie) /\ UNCHANGED got
      BY <1>6, <2>2, <2>4 DEF Resubmit, Visit, SameOrigin
    <3>2. /\ fields \in {{}, Kept}
          /\ form.taken /\ browser.metadata /\ ~switched => fields = Kept \/ got = Kept
      BY <2>1
    <3> HIDE DEF fields
    <3> QED
      BY <1>6, <2>1, <3>1, <3>2, ChallengedKeeps DEF Resubmit
  <2> QED
    BY <2>3, <2>4
<1>7. CASE Follow
  <2>1. /\ page.kind = "redirect" /\ verified' = verified /\ verified' \in BOOLEAN
        /\ got \in {{}, Kept}
        /\ form.taken /\ browser.metadata /\ ~switched => got = Kept
    BY <1>7 DEF Follow, VisitInv
  <2>2. CASE verified
    <3>1. Shows("site", {}) /\ got' = got
      BY <1>7, <2>2 DEF Follow, Visit
    <3> QED
      BY <1>7, <2>1, <3>1, ShowsKeeps DEF Follow
  <2>3. CASE ~verified
    <3>1. Challenged({}, FALSE, cookie) /\ UNCHANGED got
      BY <1>7, <2>3 DEF Follow, Visit
    <3> QED
      BY <1>7, <2>1, <3>1, ChallengedKeeps DEF Follow
  <2> QED
    BY <2>2, <2>3
<1>8. CASE Switch
  <2>1. PICK p \in Available \ {page.provider} : cookie' = p /\ chosen' = p
    BY <1>8 DEF Switch
  <2>2. /\ page'.kind = "redirect" /\ page'.timed = FALSE /\ page'.fields = {}
        /\ switched' = (switched \/ page.fields # {}) /\ got' = got /\ verified' = verified
        /\ page.kind = "challenge"
    BY <1>8 DEF Switch, Shows
  <2>3. form' = form /\ browser' = browser /\ Kept' = Kept /\ Available' = Available
    BY <1>8 DEF Switch, given, Kept, ReplayFields, Available
  <2> QED
    BY <2>1, <2>2, <2>3 DEF VisitInv, FieldName
<1>9. CASE Expire \/ ExitsChange \/ UNCHANGED visitVars
  <2>1. /\ page' = page /\ got' = got /\ cookie' = cookie /\ chosen' = chosen
        /\ switched' = switched /\ form' = form /\ browser' = browser /\ cfg' = cfg
        /\ verified' \in {verified, FALSE}
    BY <1>9 DEF Expire, ExitsChange, visitVars, given
  <2>2. Kept' = Kept /\ Available' = Available
    BY <2>1 DEF Kept, ReplayFields, Available
  <2> QED
    BY <2>1, <2>2, ZenonT(30) DEF VisitInv, FieldName
<1> QED
  BY <1>1, <1>2, <1>3, <1>4, <1>5, <1>6, <1>7, <1>8, <1>9 DEF VisitNext

LEMMA VisitAlways == VisitSpec => []VisitInv
  BY VisitInitInv, VisitKeeps, PTL DEF VisitSpec

\* After any number of failed attempts, of waits, and of cookies that end before
\* the form is posted again, the site has the fields of the form but for those
\* that look sensitive, and never another field.
THEOREM FieldsDoSurvive == VisitSpec => []FieldsSurvive
<1>1. VisitInv => FieldsSurvive
  BY DEF VisitInv, FieldsSurvive, Kept
<1> QED
  BY <1>1, VisitAlways, PTL

\* What providerForRequest shows is what was last picked in the switcher, at any
\* configuration, for any browser and exit list.
THEOREM SwitchesStick == VisitSpec => []SwitchSticks
<1>1. VisitInv => SwitchSticks
  BY DEF VisitInv, SwitchSticks
<1> QED
  BY <1>1, VisitAlways, PTL


-----------------------------------------------------------------------------
(* Which clicks solve a puzzle.                                            *)

LEMMA LessTimes ==
    ASSUME NEW a \in Int, NEW b \in Int, NEW s \in Nat \ {0}, a * s < b * s
    PROVE  a < b
<1>1. SUFFICES ASSUME b <= a PROVE FALSE
  OBVIOUS
<1>2. b * s <= a * s
  BY <1>1
<1> QED
  BY <1>2

\* What a quotient is between.
LEMMA QuotientBetween ==
    ASSUME NEW n \in Nat, NEW s \in Nat \ {0}
    PROVE  /\ n \div s \in Nat
           /\ \A low \in Int : low * s <= n => low <= n \div s
           /\ \A high \in Int : n <= high * s => n \div s <= high
<1> DEFINE q == n \div s
<1>1. q \in Int /\ q * s <= n /\ n < (q + 1) * s /\ q \in Nat
  OBVIOUS
<1> HIDE DEF q
<1>2. ASSUME NEW low \in Int, low * s <= n PROVE low <= q
  <2>1. low * s < (q + 1) * s
    BY <1>1, <1>2
  <2>2. low < q + 1
    BY <1>1, <2>1, LessTimes
  <2> QED
    BY <1>1, <2>2
<1>3. ASSUME NEW high \in Int, n <= high * s PROVE q <= high
  <2>1. q * s < (high + 1) * s
    BY <1>1, <1>3
  <2>2. q < high + 1
    BY <1>1, <2>1, LessTimes
  <2> QED
    BY <1>1, <2>2
<1> QED
  BY <1>1, <1>2, <1>3 DEF q

\* The slot's width.
LEMMA SpanShape == ASSUME NEW width \in Nat PROVE Span(width) \in Nat \ {0}
<1> DEFINE piece == Clamp(width \div 5, 40, 80)
<1>1. piece \in Nat /\ piece >= 40
  BY DEF Clamp
<1> HIDE DEF piece
<1>2. piece + piece \div 2 \in Nat \ {0}
  BY <1>1
<1> QED
  BY <1>2 DEF Span, piece

\* A place for the slot is a number.
PlaceOk(place) ==
    /\ place.width \in Nat /\ place.width >= 200
    /\ place.span = Span(place.width)
    /\ place.answer \in Nat

\* What OnlyTheSlot rests on: where the slot is, and the decoys away from it.
PuzzleInv ==
    /\ setting \in [width : Nat, tolerance : Nat]
    /\ setting.width >= 200 /\ setting.tolerance > 0
    /\ puzzle = NoPuzzle => decoys = {}
    /\ puzzle # NoPuzzle => PlaceOk(puzzle)
    /\ puzzle.clear => ~Central(puzzle.width, puzzle.answer)
    /\ \A left \in decoys : left \in Nat /\ Apart(left, puzzle.answer)

LEMMA AnswersShape ==
    ASSUME NEW width \in Nat, setting.tolerance \in Nat PROVE Answers(width) \subseteq Nat
<1>1. Span(width) \in Nat
  BY SpanShape
<1> QED
  BY <1>1 DEF Answers

LEMMA PuzzleInitInv == PuzzleInit => PuzzleInv
  BY DEF PuzzleInit, PuzzleInv, NoPuzzle

LEMMA PuzzleKeeps == PuzzleInv /\ [PuzzleNext]_puzzleVars => PuzzleInv'
<1> SUFFICES ASSUME PuzzleInv, [PuzzleNext]_puzzleVars PROVE PuzzleInv'
  OBVIOUS
<1>1. CASE Build
  <2>1. puzzle = NoPuzzle /\ decoys = {} /\ decoys' = {} /\ setting' = setting
    BY <1>1 DEF Build, PuzzleInv
  <2>2. PICK extra \in Extra :
          \E answer \in Answers(setting.width + extra) :
            puzzle' = [width |-> setting.width + extra, span |-> Span(setting.width + extra),
                       answer |-> answer,
                       clear |-> ~Central(setting.width + extra, answer)]
    BY <1>1 DEF Build
  <2> DEFINE width == setting.width + extra
  <2>3. PICK answer \in Answers(width) :
            puzzle' = [width |-> width, span |-> Span(width), answer |-> answer,
                       clear |-> ~Central(width, answer)]
    BY <2>2
  <2>4. width \in Nat /\ width >= 200 /\ setting.tolerance \in Nat
    BY PuzzleAssumption DEF PuzzleInv
  <2> HIDE DEF width
  <2>5. answer \in Nat
    BY <2>3, <2>4, AnswersShape
  <2>6. /\ puzzle'.width = width /\ puzzle'.span = Span(width) /\ puzzle'.answer = answer
    BY <2>3
  <2>7. PlaceOk(puzzle')
    BY <2>4, <2>5, <2>6 DEF PlaceOk
  <2>8. PlaceOk(puzzle)'
    BY <2>1, <2>7 DEF PlaceOk
  <2>9. puzzle' # NoPuzzle
    BY <2>4, <2>6 DEF NoPuzzle
  <2>10. (puzzle.clear => ~Central(puzzle.width, puzzle.answer))'
    BY <2>1, <2>3 DEF Central
  <2> QED
    BY <2>1, <2>8, <2>9, <2>10 DEF PuzzleInv, NoPuzzle
<1>2. CASE PlaceDecoy
  <2>1. puzzle # NoPuzzle /\ setting' = setting /\ puzzle' = puzzle
    BY <1>2 DEF PlaceDecoy
  <2>2. PICK x \in DecoyAt :
          /\ \A y \in decoys \cup {puzzle.answer} : Apart(x, y)
          /\ decoys' = decoys \cup {x}
    BY <1>2 DEF PlaceDecoy
  <2>3. \A left \in decoys' : left \in Nat /\ Apart(left, puzzle.answer)
    BY <2>2, PuzzleAssumption DEF PuzzleInv
  <2>4. PlaceOk(puzzle)
    BY <2>1 DEF PuzzleInv
  <2>5. PlaceOk(puzzle)'
    BY <2>1, <2>4 DEF PlaceOk
  <2>6. \A left \in decoys' : Apart(left, puzzle.answer)'
    BY <2>1, <2>3 DEF Apart, Separation
  <2>7. (puzzle.clear => ~Central(puzzle.width, puzzle.answer))'
    BY <2>1 DEF PuzzleInv, Central
  <2> QED
    BY <2>1, <2>3, <2>5, <2>6, <2>7 DEF PuzzleInv, NoPuzzle
<1>3. CASE UNCHANGED puzzleVars
  <2>1. setting' = setting /\ puzzle' = puzzle /\ decoys' = decoys
    BY <1>3 DEF puzzleVars
  <2>2. puzzle # NoPuzzle => PlaceOk(puzzle)'
    BY <2>1 DEF PuzzleInv, PlaceOk
  <2>3. \A left \in decoys : Apart(left, puzzle.answer)'
    BY <2>1 DEF PuzzleInv, Apart, Separation
  <2>4. (puzzle.clear => ~Central(puzzle.width, puzzle.answer))'
    BY <2>1 DEF PuzzleInv, Central
  <2> QED
    BY <2>1, <2>2, <2>3, <2>4 DEF PuzzleInv, NoPuzzle
<1> QED
  BY <1>1, <1>2, <1>3 DEF PuzzleNext

LEMMA PuzzleInvHits == PuzzleInv => OnlyTheSlot
<1> SUFFICES ASSUME PuzzleInv, puzzle # NoPuzzle, NEW shown \in Shown
             PROVE  /\ \A x \in 0..shown :
                         /\ On(x, shown, puzzle.answer) => Hits(x, shown)
                         /\ (\E left \in decoys : On(x, shown, left)) /\ setting.tolerance < 24
                              => ~Hits(x, shown)
                    /\ puzzle.clear => ~Hits(shown \div 2, shown)
  BY DEF OnlyTheSlot
<1> DEFINE W == puzzle.width
           S == puzzle.span
           a == puzzle.answer
           T == setting.tolerance
           m == T \div 2
<1>1. /\ W \in Nat /\ S \in Nat \ {0} /\ a \in Nat /\ T \in Nat /\ m \in Nat
      /\ m <= T /\ (T < 24 => m < 12)
      /\ S = Span(W)
  BY SpanShape DEF PuzzleInv, PlaceOk
<1>2. shown \in Nat \ {0} /\ shown % 2 = 0
  BY PuzzleAssumption
<1>3. ASSUME NEW x \in 0..shown
      PROVE  /\ x * W \in Nat
             /\ Hits(x, shown) <=> a <= (x * W) \div shown + m /\ (x * W) \div shown <= a + S + m
             /\ (x * W) \div shown \in Nat
  <2>1. x * W \in Nat
    BY <1>1, <1>2
  <2> QED
    BY <2>1, <1>2, QuotientBetween DEF Hits
<1>4. ASSUME NEW x \in 0..shown, NEW left \in Nat, On(x, shown, left)
      PROVE  left <= (x * W) \div shown /\ (x * W) \div shown <= left + S
  <2>1. left * shown <= x * W /\ x * W <= (left + S) * shown
    BY <1>4 DEF On
  <2>2. x * W \in Nat /\ left \in Int /\ left + S \in Int
    BY <1>1, <1>3
  <2> HIDE DEF W, S
  <2> QED
    BY <1>2, <2>1, <2>2, QuotientBetween
<1>5. ASSUME NEW x \in 0..shown, On(x, shown, a)
      PROVE  Hits(x, shown)
  <2>1. a <= (x * W) \div shown /\ (x * W) \div shown <= a + S
    BY <1>1, <1>4, <1>5
  <2>2. (x * W) \div shown \in Nat
    BY <1>3
  <2> HIDE DEF W, S, a, m
  <2> QED
    BY <1>1, <1>3, <2>1, <2>2
<1>6. ASSUME NEW x \in 0..shown, NEW left \in decoys, On(x, shown, left), T < 24
      PROVE  ~Hits(x, shown)
  <2>1. left \in Nat /\ (left < a + S + 12 => left + S + 12 <= a)
    <3>1. left \in Nat /\ Apart(left, puzzle.answer)
      BY DEF PuzzleInv
    <3> QED
      BY <1>1, <3>1 DEF Apart, Separation
  <2>2. left <= (x * W) \div shown /\ (x * W) \div shown <= left + S
    BY <1>4, <1>6, <2>1
  <2>3. (x * W) \div shown \in Nat
    BY <1>3
  <2> HIDE DEF W, S, a, m
  <2> QED
    BY <1>1, <1>3, <1>6, <2>1, <2>2, <2>3
<1>7. ASSUME puzzle.clear
      PROVE  ~Hits(shown \div 2, shown)
  <2> DEFINE half == shown \div 2
  <2>1. half \in Nat \ {0} /\ shown = 2 * half /\ half \in 0..shown
    BY <1>2
  <2>2. (half * W) \div shown = W \div 2
    <3> DEFINE q == W \div 2
    <3>1. q \in Nat /\ q \in Int /\ 2 * q <= W /\ W <= 2 * q + 1
      BY <1>1
    <3> HIDE DEF q, W, half
    <3>2. half * W \in Nat /\ q * shown = half * (2 * q) /\ (q + 1) * shown = half * (2 * q + 2)
      BY <1>1, <2>1, <3>1
    <3>3. half * (2 * q) <= half * W /\ half * W < half * (2 * q + 2)
      BY <1>1, <2>1, <3>1
    <3>4. q <= (half * W) \div shown /\ (half * W) \div shown \in Nat
      BY <1>2, <3>1, <3>2, <3>3, QuotientBetween
    <3>5. (half * W) \div shown <= q
      <4>1. ((half * W) \div shown) * shown <= half * W
        BY <1>2, <3>2
      <4>2. ((half * W) \div shown) * shown < (q + 1) * shown
        BY <1>2, <3>1, <3>2, <3>3, <3>4, <4>1
      <4>3. (half * W) \div shown < q + 1
        BY <1>2, <3>1, <3>4, <4>2, LessTimes
      <4> QED
        BY <3>1, <3>4, <4>3
    <3> QED
      BY <3>1, <3>4, <3>5 DEF q
  <2>3. ~(a <= W \div 2 + T /\ W \div 2 <= a + S + T)
    BY <1>1, <1>7 DEF Central, PuzzleInv
  <2>4. Hits(half, shown) <=> a <= W \div 2 + m /\ W \div 2 <= a + S + m
    BY <1>3, <2>1, <2>2
  <2>5. W \div 2 \in Nat
    BY <1>1
  <2> HIDE DEF W, S, a, m, half, T
  <2>6. ~Hits(half, shown)
    BY <1>1, <2>3, <2>4, <2>5
  <2> QED
    BY <2>6 DEF half
<1> QED
  BY <1>5, <1>6, <1>7

\* Whatever the configured width and tolerance, and wherever the slot and the
\* decoys were put: every click on the slot solves the puzzle, at every width
\* the picture is shown at, and none on a decoy does below a tolerance of 24.
\* One on the centre does not if the drawing loop found the place clear; a place
\* it kept after its last draw may be hit there.
THEOREM OnlyTheSlotSolves == PuzzleSpec => []OnlyTheSlot
<1>1. PuzzleSpec => []PuzzleInv
  BY PuzzleInitInv, PuzzleKeeps, PTL DEF PuzzleSpec
<1> QED
  BY <1>1, PuzzleInvHits, PTL


-----------------------------------------------------------------------------
(* The answers of a client.                                                *)

Sample == [value : Value, at : Nat]
Answer == [client : Client, value : Value, at : Nat, low : BOOLEAN]

\* A log of answers in the order of their times.
CallsOk(calls, time) ==
    /\ time \in Nat
    /\ calls \in Seq(Answer)
    /\ \A i \in DOMAIN calls : calls[i].at <= time
    /\ \A i, j \in DOMAIN calls : i <= j => calls[i].at <= calls[j].at

\* Samples are answers of the client, in their order: f says which.
Follows(samples, calls, client, f) ==
    /\ \A p, q \in 1..Len(samples) : p < q => f[p] < f[q]
    /\ \A p \in 1..Len(samples) :
          /\ calls[f[p]].client = client
          /\ samples[p].value = calls[f[p]].value
          /\ samples[p].at = calls[f[p]].at

\* An answer that is no longer among them came before all of them, and either
\* there are enough of them or it is too old.
Complete(samples, calls, client, f, time) ==
    \A j \in DOMAIN calls : calls[j].client = client =>
        \/ \E p \in 1..Len(samples) : f[p] = j
        \/ /\ \A p \in 1..Len(samples) : j < f[p]
           /\ Len(samples) >= Samples \/ time - calls[j].at >= Window

KeptBy(samples, calls, client, time, f) ==
    /\ f \in [1..Len(samples) -> DOMAIN calls]
    /\ Follows(samples, calls, client, f)
    /\ Complete(samples, calls, client, f, time)

KeptOk(samples, calls, client, time) ==
    /\ samples \in Seq(Sample)
    /\ \E f : KeptBy(samples, calls, client, time, f)

\* The end of some samples does for them, if what is left is enough or what is
\* left out is too old.
LEMMA EndOk ==
    ASSUME NEW time, NEW calls, CallsOk(calls, time), NEW client, NEW samples,
           KeptOk(samples, calls, client, time),
           NEW d \in 0..Len(samples), NEW new \in Seq(Sample),
           Len(new) = Len(samples) - d,
           \A p \in 1..Len(new) : new[p] = samples[p + d],
           Len(new) >= Samples \/ d = 0 \/ time - samples[d].at >= Window
    PROVE  KeptOk(new, calls, client, time)
<1>1. PICK f : KeptBy(samples, calls, client, time, f)
  BY DEF KeptOk
<1> DEFINE m == Len(samples)
           g == [p \in 1..Len(new) |-> f[p + d]]
<1>2. /\ m \in Nat /\ d \in Nat /\ d <= m /\ Len(new) \in Nat
      /\ \A p \in 1..Len(new) : p + d \in 1..m
      /\ f \in [1..m -> DOMAIN calls]
      /\ Len(calls) \in Nat /\ DOMAIN calls = 1..Len(calls)
  BY <1>1 DEF KeptOk, KeptBy, CallsOk
<1>3. g \in [1..Len(new) -> DOMAIN calls] /\ \A p \in 1..Len(new) : g[p] = f[p + d]
  BY <1>2
<1> HIDE DEF g
<1>4. Follows(new, calls, client, g)
  <2>1. \A p, q \in 1..Len(new) : p < q => g[p] < g[q]
    BY <1>1, <1>2, <1>3 DEF KeptBy, Follows
  <2>2. \A p \in 1..Len(new) : /\ calls[g[p]].client = client
                               /\ new[p].value = calls[g[p]].value
                               /\ new[p].at = calls[g[p]].at
    <3>1. \A p \in 1..m : /\ calls[f[p]].client = client
                          /\ samples[p].value = calls[f[p]].value
                          /\ samples[p].at = calls[f[p]].at
      BY <1>1 DEF KeptBy, Follows
    <3>2. \A p \in 1..Len(new) : p + d \in 1..m /\ g[p] = f[p + d] /\ new[p] = samples[p + d]
      BY <1>2, <1>3
    <3> HIDE DEF g, m
    <3> QED
      BY <3>1, <3>2, Zenon
  <2> QED
    BY <2>1, <2>2, Zenon DEF Follows
<1>5. ASSUME NEW j \in DOMAIN calls, calls[j].client = client,
             ~\E p \in 1..Len(new) : g[p] = j
      PROVE  /\ \A p \in 1..Len(new) : j < g[p]
             /\ Len(new) >= Samples \/ time - calls[j].at >= Window
  <2>1. \/ \E p \in 1..m : f[p] = j
        \/ /\ \A p \in 1..m : j < f[p]
           /\ m >= Samples \/ time - calls[j].at >= Window
    BY <1>1, <1>5 DEF KeptBy, Complete
  <2>2. CASE \E p \in 1..m : f[p] = j
    <3>1. PICK p \in 1..m : f[p] = j
      BY <2>2
    <3>2. p <= d
      <4>1. SUFFICES ASSUME p > d PROVE FALSE
        BY <1>2
      <4>2. p - d \in 1..Len(new) /\ (p - d) + d = p
        BY <1>2, <4>1
      <4> QED
        BY <1>3, <1>5, <3>1, <4>2
    <3>3. \A q \in 1..Len(new) : j < g[q]
      <4>1. \A q \in 1..Len(new) : p < q + d /\ q + d \in 1..m
        BY <1>2, <3>2
      <4> QED
        BY <1>1, <1>3, <3>1, <4>1 DEF KeptBy, Follows
    <3>4. d \in 1..m /\ f[d] \in DOMAIN calls /\ j <= f[d]
      <4>1. d \in 1..m
        BY <1>2, <3>2
      <4>2. p = d \/ p < d
        BY <1>2, <3>2
      <4> QED
        BY <1>1, <1>2, <3>1, <4>1, <4>2 DEF KeptBy, Follows
    <3>5. calls[j].at <= samples[d].at
      BY <1>1, <3>4 DEF KeptBy, Follows, CallsOk
    <3>6. calls[j] \in Answer /\ samples[d] \in Sample
      BY <1>2, <3>4 DEF CallsOk, KeptOk
    <3>7. calls[j].at \in Nat /\ samples[d].at \in Nat /\ time \in Nat
      BY <3>6 DEF CallsOk, Answer, Sample
    <3>8. time - samples[d].at >= Window => time - calls[j].at >= Window
      BY <3>5, <3>7, AnswerAssumption, SMTT(30)
    <3>9. d # 0
      BY <3>4
    <3> QED
      BY <3>3, <3>8, <3>9
  <2>3. CASE /\ \A p \in 1..m : j < f[p]
             /\ m >= Samples \/ time - calls[j].at >= Window
    <3>1. \A q \in 1..Len(new) : j < g[q]
      BY <1>2, <1>3, <2>3
    <3>2. CASE d = 0
      BY <1>2, <2>3, <3>1, <3>2
    <3>3. CASE d # 0
      <4>1. d \in 1..m /\ f[d] \in DOMAIN calls /\ j <= f[d]
        <5>1. d \in 1..m
          BY <1>2, <3>3
        <5>2. f[d] \in DOMAIN calls /\ f[d] \in Int /\ j \in Int
          BY <1>2, <5>1
        <5>3. j < f[d]
          BY <2>3, <5>1
        <5> QED
          BY <5>1, <5>2, <5>3
      <4>2. calls[j].at <= samples[d].at
        BY <1>1, <4>1 DEF KeptBy, Follows, CallsOk
      <4>3. calls[j] \in Answer /\ samples[d] \in Sample
        BY <1>2, <4>1 DEF CallsOk, KeptOk
      <4>4. calls[j].at \in Nat /\ samples[d].at \in Nat /\ time \in Nat
        BY <4>3 DEF CallsOk, Answer, Sample
      <4>5. time - samples[d].at >= Window => time - calls[j].at >= Window
        BY <4>2, <4>4, AnswerAssumption, SMTT(30)
      <4> QED
        BY <3>1, <3>3, <4>5
    <3> QED
      BY <3>2, <3>3
  <2> QED
    BY <2>1, <2>2, <2>3
<1>6. Complete(new, calls, client, g, time)
  BY <1>5 DEF Complete
<1> QED
  BY <1>3, <1>4, <1>6 DEF KeptOk, KeptBy

\* In a set that goes on to the end, the place of a member is its distance from
\* the beginning.
LEMMA EndOfInterval ==
    ASSUME NEW n \in Nat, NEW kept \in SUBSET (1..n),
           \A i \in kept : \A j \in 1..n : i <= j => j \in kept
    PROVE  \E d \in 0..n :
             /\ kept = (d + 1)..n /\ Cardinality(kept) = n - d
             /\ \A p \in 1..(n - d) :
                   (CHOOSE i \in kept : Cardinality({j \in kept : j <= i}) = p) = p + d
<1>1. IsFiniteSet(1..n) /\ Cardinality(1..n) = n
  BY FS_Interval
<1>2. /\ IsFiniteSet(kept) /\ Cardinality(kept) \in Nat /\ Cardinality(kept) <= n
  BY <1>1, FS_Subset, FS_CardinalityType
<1> DEFINE d == n - Cardinality(kept)
<1>3. d \in 0..n /\ d \in Int /\ Cardinality(kept) = n - d
  BY <1>2
<1>4. kept = (d + 1)..n
  <2>1. ASSUME NEW i \in kept
        PROVE  i \in (d + 1)..n
    <3>1. i..n \in SUBSET kept
      OBVIOUS
    <3>2. Cardinality(i..n) = n - i + 1 /\ i \in Int
      BY FS_Interval
    <3>3. Cardinality(i..n) <= Cardinality(kept)
      BY <1>2, <3>1, FS_Subset
    <3> HIDE DEF d
    <3> QED
      BY <1>3, <3>2, <3>3
  <2>2. /\ IsFiniteSet((d + 1)..n) /\ Cardinality((d + 1)..n) = n - d
    <3> HIDE DEF d
    <3>1. d + 1 \in Int /\ n \in Int /\ d \in Int /\ d <= n
      BY <1>3
    <3>2. /\ IsFiniteSet((d + 1)..n)
          /\ Cardinality((d + 1)..n) = IF d + 1 > n THEN 0 ELSE n - (d + 1) + 1
      BY <3>1, FS_Interval
    <3> QED
      BY <3>1, <3>2
  <2>3. kept \in SUBSET ((d + 1)..n)
    BY <2>1
  <2> HIDE DEF d
  <2> QED
    BY <1>3, <2>2, <2>3, FS_Subset
<1> HIDE DEF d
<1>5. ASSUME NEW i \in kept
      PROVE  Cardinality({j \in kept : j <= i}) = i - d
  <2>1. {j \in kept : j <= i} = (d + 1)..i /\ i \in Int /\ d < i
    BY <1>3, <1>4
  <2>2. d + 1 \in Int /\ ~(d + 1 > i)
    BY <1>3, <2>1
  <2>3. Cardinality((d + 1)..i) = IF d + 1 > i THEN 0 ELSE i - (d + 1) + 1
    BY <2>1, <2>2, FS_Interval
  <2>4. Cardinality((d + 1)..i) = i - d
    BY <1>3, <2>1, <2>2, <2>3
  <2> QED
    BY <2>1, <2>4
<1>6. ASSUME NEW p \in 1..(n - d)
      PROVE  (CHOOSE i \in kept : Cardinality({j \in kept : j <= i}) = p) = p + d
  <2>1. p + d \in kept /\ (p + d) - d = p
    BY <1>3, <1>4
  <2>2. ASSUME NEW i \in kept
        PROVE  Cardinality({j \in kept : j <= i}) = p <=> i = p + d
    <3>1. Cardinality({j \in kept : j <= i}) = i - d
      BY <1>5
    <3>2. i \in Int /\ p \in Int
      BY <1>4
    <3> QED
      BY <1>3, <3>1, <3>2
  <2> QED
    BY <2>1, <2>2
<1> QED
  BY <1>3, <1>4, <1>6

\* What is recent is the end of the samples.
LEMMA RecentEnds ==
    ASSUME NEW calls, CallsOk(calls, now), NEW client, NEW samples,
           KeptOk(samples, calls, client, now)
    PROVE  /\ KeptOk(Recent(samples), calls, client, now)
           /\ \A p \in 1..Len(Recent(samples)) : now - Recent(samples)[p].at < Window
           /\ Len(Recent(samples)) <= Len(samples)
<1> DEFINE n == Len(samples)
           kept == {i \in DOMAIN samples : now - samples[i].at < Window}
           new == Recent(samples)
<1>1. PICK f : KeptBy(samples, calls, client, now, f)
  BY DEF KeptOk
<1>2. /\ n \in Nat /\ DOMAIN samples = 1..n /\ samples \in Seq(Sample) /\ now \in Nat
      /\ \A p \in 1..n : samples[p] \in Sample
      /\ Window \in Nat
  BY AnswerAssumption DEF KeptOk, CallsOk
<1>3. \A p \in 1..n : samples[p].at \in Nat
  BY <1>2 DEF Sample
<1>4. \A p, q \in 1..n : p <= q => samples[p].at <= samples[q].at
  <2>1. /\ \A p, q \in 1..n : p <= q => f[p] <= f[q]
        /\ \A p \in 1..n : f[p] \in DOMAIN calls /\ f[p] \in Int
    <3>1. Len(calls) \in Nat /\ DOMAIN calls = 1..Len(calls)
      BY DEF CallsOk
    <3>2. \A p \in 1..n : f[p] \in DOMAIN calls /\ f[p] \in Int
      BY <1>1, <3>1 DEF KeptBy
    <3>3. ASSUME NEW p \in 1..n, NEW q \in 1..n, p <= q PROVE f[p] <= f[q]
      <4>1. p = q \/ p < q
        BY <3>3
      <4> QED
        BY <1>1, <3>2, <4>1 DEF KeptBy, Follows
    <3> QED
      BY <3>2, <3>3
  <2> QED
    BY <1>1, <2>1 DEF KeptBy, Follows, CallsOk
<1>5. /\ kept \in SUBSET (1..n)
      /\ \A i \in kept : \A j \in 1..n : i <= j => j \in kept
  BY <1>2, <1>3, <1>4
<1>6. PICK d \in 0..n :
             /\ kept = (d + 1)..n /\ Cardinality(kept) = n - d
             /\ \A p \in 1..(n - d) :
                   (CHOOSE i \in kept : Cardinality({j \in kept : j <= i}) = p) = p + d
  BY <1>2, <1>5, EndOfInterval
<1>7. n - d \in Nat /\ \A p \in 1..(n - d) : p + d \in 1..n /\ p + d \in kept
  BY <1>2, <1>6
<1>8. new = [p \in 1..(n - d) |-> samples[p + d]]
  <2>1. new = [p \in 1..Cardinality(kept) |->
                 samples[CHOOSE i \in kept : Cardinality({j \in kept : j <= i}) = p]]
    BY DEF Recent
  <2> DEFINE Nth(p) == CHOOSE i \in kept : Cardinality({j \in kept : j <= i}) = p
  <2>2. new = [p \in 1..Cardinality(kept) |-> samples[Nth(p)]]
    BY <2>1
  <2>3. Cardinality(kept) = n - d /\ \A p \in 1..(n - d) : Nth(p) = p + d
    BY <1>6
  <2> HIDE DEF new, kept, Nth
  <2> QED
    BY <2>2, <2>3
<1>9. /\ new \in Seq(Sample) /\ Len(new) = n - d
      /\ \A p \in 1..Len(new) : new[p] = samples[p + d]
  <2> HIDE DEF new
  <2> QED
    BY <1>2, <1>7, <1>8
<1>10. d = 0 \/ now - samples[d].at >= Window
  <2>1. CASE d # 0
    <3>1. d \in 1..n /\ d \notin kept
      BY <1>2, <1>6, <2>1
    <3> QED
      BY <1>2, <1>3, <3>1
  <2> QED
    BY <2>1
<1>11. \A p \in 1..Len(new) : now - new[p].at < Window
  BY <1>7, <1>9
<1> HIDE DEF new, kept
<1>12. KeptOk(new, calls, client, now)
  BY <1>6, <1>9, <1>10, EndOk
<1>13. Len(new) <= n
  BY <1>2, <1>6, <1>9
<1> QED
  BY <1>11, <1>12, <1>13 DEF new


\* The cut leaves enough of the samples, if there are.
LEMMA CutEnds ==
    ASSUME NEW calls, NEW time, CallsOk(calls, time), NEW client, NEW samples,
           KeptOk(samples, calls, client, time),
           \A p \in 1..Len(samples) : time - samples[p].at < Window
    PROVE  /\ KeptOk(Cut(samples), calls, client, time)
           /\ \A p \in 1..Len(Cut(samples)) : time - Cut(samples)[p].at < Window
           /\ Len(Cut(samples)) <= 4 * Samples
<1> DEFINE n == Len(samples)
           size == Min({n, 4 * Samples})
           d == n - size
           new == Cut(samples)
<1>1. n \in Nat /\ samples \in Seq(Sample) /\ Samples \in Nat
  BY AnswerAssumption DEF KeptOk
<1>2. /\ size \in 0..n /\ size \in {n, 4 * Samples}
      /\ size <= 4 * Samples
      /\ n <= 4 * Samples => size = n
  <2>1. 4 * Samples \in Nat
    BY <1>1
  <2>2. CASE n <= 4 * Samples
    <3>1. size = n
      BY <1>1, <2>1, <2>2 DEF Min
    <3> QED
      BY <1>1, <2>2, <3>1
  <2>3. CASE ~(n <= 4 * Samples)
    <3>1. size = 4 * Samples
      BY <1>1, <2>1, <2>3 DEF Min
    <3> QED
      BY <1>1, <2>1, <2>3, <3>1
  <2> QED
    BY <2>2, <2>3
<1>3. new = SubSeq(samples, n - size + 1, n)
  BY DEF Cut, Latest
<1> HIDE DEF size
<1>4. d \in 0..n /\ n - size + 1 = d + 1 /\ n - d = size
  BY <1>1, <1>2
<1>5. /\ new \in Seq(Sample) /\ Len(new) = n - d
      /\ \A p \in 1..Len(new) : new[p] = samples[p + d]
  <2>1. new = SubSeq(samples, d + 1, n)
    BY <1>3, <1>4
  <2> HIDE DEF new, d
  <2> QED
    BY <1>1, <1>4, <2>1
<1>6. Len(new) >= Samples \/ d = 0
  BY <1>1, <1>2, <1>4, <1>5
<1>7. \A p \in 1..Len(new) : p + d \in 1..n
  BY <1>1, <1>4, <1>5
<1> HIDE DEF new, d
<1>8. KeptOk(new, calls, client, time)
  BY <1>4, <1>5, <1>6, EndOk
<1>9. \A p \in 1..Len(new) : time - new[p].at < Window
  BY <1>5, <1>7
<1>10. Len(new) <= 4 * Samples
  <2>1. Len(new) = size
    BY <1>4, <1>5
  <2> QED
    BY <1>1, <1>2, <2>1
<1> QED
  BY <1>8, <1>9, <1>10 DEF new

\* An answer is added to the log.
LEMMA LogLonger ==
    ASSUME NEW calls, NEW time, CallsOk(calls, time), NEW call \in Answer, call.at = time
    PROVE  LET after == Append(calls, call)
           IN  /\ CallsOk(after, time) /\ Len(calls) \in Nat /\ DOMAIN calls = 1..Len(calls)
               /\ Len(after) = Len(calls) + 1 /\ DOMAIN after = 1..(Len(calls) + 1)
               /\ after[Len(calls) + 1] = call /\ \A i \in DOMAIN calls : after[i] = calls[i]
<1> DEFINE after == Append(calls, call)
<1>1. /\ after \in Seq(Answer) /\ Len(calls) \in Nat /\ DOMAIN calls = 1..Len(calls)
      /\ Len(after) = Len(calls) + 1 /\ DOMAIN after = 1..(Len(calls) + 1)
      /\ after[Len(calls) + 1] = call /\ \A i \in DOMAIN calls : after[i] = calls[i]
  BY DEF CallsOk
<1> HIDE DEF after
<1>2. \A i \in DOMAIN after : i \in DOMAIN calls \/ i = Len(calls) + 1
  BY <1>1
<1>3. \A i \in DOMAIN after : after[i].at <= time
  BY <1>1, <1>2 DEF CallsOk
<1>4. \A i, j \in DOMAIN after : i <= j => after[i].at <= after[j].at
  BY <1>1, <1>2, <1>3 DEF CallsOk
<1>5. CallsOk(after, time)
  BY <1>1, <1>3, <1>4 DEF CallsOk
<1> QED
  BY <1>1, <1>5 DEF after

\* It is the last sample of its client, and none of another.
LEMMA AnswerAdds ==
    ASSUME NEW calls, NEW time, CallsOk(calls, time), NEW call \in Answer, call.at = time,
           NEW client, NEW samples, KeptOk(samples, calls, client, time)
    PROVE  /\ client # call.client => KeptOk(samples, Append(calls, call), client, time)
           /\ client = call.client =>
                KeptOk(Append(samples, [value |-> call.value, at |-> time]),
                       Append(calls, call), client, time)
<1> DEFINE after == Append(calls, call)
           n == Len(calls)
           m == Len(samples)
<1>1. PICK f : KeptBy(samples, calls, client, time, f)
  BY DEF KeptOk
<1>2. /\ n \in Nat /\ DOMAIN calls = 1..n /\ DOMAIN after = 1..(n + 1)
      /\ after[n + 1] = call /\ \A i \in 1..n : after[i] = calls[i]
  BY LogLonger
<1>3. m \in Nat /\ f \in [1..m -> 1..n] /\ samples \in Seq(Sample)
  BY <1>1, <1>2 DEF KeptBy, KeptOk
<1>4. /\ \A p, q \in 1..m : p < q => f[p] < f[q]
      /\ \A p \in 1..m : /\ calls[f[p]].client = client
                         /\ samples[p].value = calls[f[p]].value
                         /\ samples[p].at = calls[f[p]].at
  BY <1>1 DEF KeptBy, Follows
<1>5. \A j \in 1..n : calls[j].client = client =>
        \/ \E p \in 1..m : f[p] = j
        \/ /\ \A p \in 1..m : j < f[p]
           /\ m >= Samples \/ time - calls[j].at >= Window
  BY <1>1, <1>2 DEF KeptBy, Complete
<1> HIDE DEF after, n
<1>6. CASE client # call.client
  <2>1. f \in [1..m -> DOMAIN after]
    BY <1>2, <1>3
  <2>2. Follows(samples, after, client, f)
    BY <1>2, <1>3, <1>4 DEF Follows
  <2>3. ASSUME NEW j \in DOMAIN after, after[j].client = client
        PROVE  \/ \E p \in 1..m : f[p] = j
               \/ /\ \A p \in 1..m : j < f[p]
                  /\ m >= Samples \/ time - after[j].at >= Window
    <3>1. j \in 1..n /\ after[j] = calls[j]
      BY <1>2, <1>6, <2>3
    <3> QED
      BY <1>5, <2>3, <3>1
  <2>4. Complete(samples, after, client, f, time)
    BY <2>3 DEF Complete
  <2>5. KeptOk(samples, after, client, time)
    BY <1>3, <2>1, <2>2, <2>4 DEF KeptOk, KeptBy
  <2> QED
    BY <1>6, <2>5 DEF after
<1>7. CASE client = call.client
  <2> DEFINE sample == [value |-> call.value, at |-> time]
             new == Append(samples, sample)
             g == [p \in 1..(m + 1) |-> IF p = m + 1 THEN n + 1 ELSE f[p]]
  <2>1. sample \in Sample /\ sample.value = call.value /\ sample.at = time
    BY DEF CallsOk, Sample, Answer
  <2> HIDE DEF sample
  <2>2. /\ new \in Seq(Sample) /\ Len(new) = m + 1 /\ new[m + 1] = sample
        /\ \A p \in 1..m : new[p] = samples[p]
    BY <1>3, <2>1
  <2> HIDE DEF new
  <2>3. /\ g \in [1..(m + 1) -> 1..(n + 1)] /\ g[m + 1] = n + 1
        /\ \A p \in 1..m : g[p] = f[p] /\ g[p] < n + 1 /\ g[p] \in 1..n
    BY <1>2, <1>3
  <2> HIDE DEF g
  <2>4. \A p \in 1..(m + 1) : p \in 1..m \/ p = m + 1
    BY <1>3
  <2>5. ASSUME NEW p \in 1..(m + 1), NEW q \in 1..(m + 1), p < q PROVE g[p] < g[q]
    <3>1. p \in 1..m
      BY <1>3, <2>5
    <3> QED
      BY <1>4, <2>3, <2>4, <2>5, <3>1
  <2>6. ASSUME NEW p \in 1..(m + 1)
        PROVE  /\ after[g[p]].client = client
               /\ new[p].value = after[g[p]].value
               /\ new[p].at = after[g[p]].at
    <3>1. CASE p \in 1..m
      BY <1>2, <1>4, <2>2, <2>3, <3>1
    <3>2. CASE p = m + 1
      BY <1>2, <1>7, <2>1, <2>2, <2>3, <3>2
    <3> QED
      BY <2>4, <3>1, <3>2
  <2>7. Follows(new, after, client, g)
    BY <2>2, <2>5, <2>6 DEF Follows
  <2>8. ASSUME NEW j \in DOMAIN after, after[j].client = client,
               ~\E p \in 1..Len(new) : g[p] = j
        PROVE  /\ \A p \in 1..Len(new) : j < g[p]
               /\ Len(new) >= Samples \/ time - after[j].at >= Window
    <3>1. j # n + 1
      <4>1. m + 1 \in 1..Len(new)
        BY <1>3, <2>2
      <4> QED
        BY <2>3, <2>8, <4>1
    <3>2. j \in 1..n /\ after[j] = calls[j]
      BY <1>2, <2>8, <3>1
    <3>3. ~\E p \in 1..m : f[p] = j
      <4>1. \A p \in 1..m : p \in 1..Len(new)
        BY <1>3, <2>2
      <4> QED
        BY <2>3, <2>8, <4>1
    <3>4. /\ \A p \in 1..m : j < f[p]
          /\ m >= Samples \/ time - calls[j].at >= Window
      BY <1>5, <2>8, <3>2, <3>3
    <3>5. \A p \in 1..(m + 1) : j < g[p]
      BY <1>2, <2>3, <2>4, <3>2, <3>4
    <3>6. m >= Samples => m + 1 >= Samples
      BY <1>3, AnswerAssumption
    <3> QED
      BY <2>2, <3>2, <3>4, <3>5, <3>6
  <2>9. Complete(new, after, client, g, time)
    BY <2>8 DEF Complete
  <2>10. KeptOk(new, after, client, time)
    BY <1>2, <2>2, <2>3, <2>7, <2>9 DEF KeptOk, KeptBy
  <2> QED
    BY <1>7, <2>10 DEF after, new, sample
<1> QED
  BY <1>6, <1>7

-----------------------------------------------------------------------------
(* The verdict on an answer.                                               *)

JudgedIn(calls, i) ==
    {j \in 1..i : calls[j].client = calls[i].client /\ calls[i].at - calls[j].at < Window}

LastIn(calls, i) ==
    {j \in JudgedIn(calls, i) :
        Cardinality({k \in JudgedIn(calls, i) : k > j}) < Samples}

\* What VerdictsRight asks of the verdict on the i-th answer.
Guilty(calls, i) ==
    /\ Cardinality(JudgedIn(calls, i)) >= Samples
    /\ \A j, k \in LastIn(calls, i) : calls[j].value - calls[k].value <= Tolerance

\* Later answers do not change it.
LEMMA VerdictStays ==
    ASSUME NEW calls, NEW time, CallsOk(calls, time), NEW call \in Answer, call.at = time,
           NEW i \in DOMAIN calls
    PROVE  Guilty(Append(calls, call), i) <=> Guilty(calls, i)
<1> DEFINE after == Append(calls, call)
<1>1. /\ Len(calls) \in Nat /\ DOMAIN calls = 1..Len(calls)
      /\ \A j \in DOMAIN calls : after[j] = calls[j]
  BY LogLonger
<1>2. i \in 1..Len(calls) /\ \A j \in 1..i : j \in DOMAIN calls
  BY <1>1
<1> HIDE DEF after
<1>3. JudgedIn(after, i) = JudgedIn(calls, i)
  BY <1>1, <1>2 DEF JudgedIn
<1>4. LastIn(after, i) = LastIn(calls, i)
  BY <1>3 DEF LastIn
<1>5. \A j \in LastIn(calls, i) : after[j] = calls[j]
  BY <1>1, <1>2 DEF LastIn, JudgedIn
<1>6. Guilty(after, i) <=> Guilty(calls, i)
  BY <1>3, <1>4, <1>5 DEF Guilty
<1> QED
  BY <1>6 DEF after

\* The last places of an increasing function are as many.
LEMMA LastPlaces ==
    ASSUME NEW n \in Nat, NEW m \in Nat, NEW f \in [1..m -> 1..n],
           \A p, q \in 1..m : p < q => f[p] < f[q],
           NEW a \in 0..m
    PROVE  Cardinality({f[p] : p \in (a + 1)..m}) = m - a
<1> DEFINE D == (a + 1)..m
           T == {f[p] : p \in D}
           g == [p \in D |-> f[p]]
<1>1. IsFiniteSet(D) /\ Cardinality(D) = m - a
  <2>1. a + 1 \in Int /\ m \in Int /\ a \in Int /\ a <= m
    OBVIOUS
  <2>2. IsFiniteSet(D) /\ Cardinality(D) = IF a + 1 > m THEN 0 ELSE m - (a + 1) + 1
    BY <2>1, FS_Interval
  <2> QED
    BY <2>1, <2>2
<1>2. \A p \in D : p \in 1..m /\ p \in Int
  OBVIOUS
<1>3. \A p, q \in D : f[p] = f[q] => p = q
  <2>1. SUFFICES ASSUME NEW p \in D, NEW q \in D, f[p] = f[q], p # q PROVE FALSE
    OBVIOUS
  <2>2. p < q \/ q < p
    BY <1>2, <2>1
  <2>3. f[p] \in Int /\ f[q] \in Int
    BY <1>2
  <2> QED
    BY <1>2, <2>1, <2>2, <2>3
<1>4. g \in Bijection(D, T)
  <2>1. g \in [D -> T] /\ \A p \in D : g[p] = f[p]
    OBVIOUS
  <2> HIDE DEF g
  <2>2. \A p, q \in D : g[p] = g[q] => p = q
    BY <1>3, <2>1
  <2>3. \A t \in T : \E p \in D : g[p] = t
    BY <2>1
  <2> HIDE DEF D, T
  <2> QED
    BY <2>1, <2>2, <2>3 DEF Bijection, Injection, Surjection, IsInjective
<1> HIDE DEF D, T, g
<1>5. ExistsBijection(D, T)
  BY <1>4 DEF ExistsBijection
<1>6. Cardinality(T) = m - a
  BY <1>1, <1>5, FS_Bijection
<1> QED
  BY <1>6 DEF T, D


\* The last samples are alike if their values are.
LEMMA LatestAlike ==
    ASSUME NEW samples \in Seq(Sample), Len(samples) >= Samples
    PROVE  Alike(Latest(samples, Samples)) <=>
             \A p, q \in (Len(samples) - Samples + 1)..Len(samples) :
                samples[p].value - samples[q].value <= Tolerance
<1> DEFINE m == Len(samples)
           d == m - Samples
           last == Latest(samples, Samples)
<1>1. m \in Nat /\ Samples \in Nat /\ d \in 0..m /\ m - Samples + 1 = d + 1 /\ m - d = Samples
  BY AnswerAssumption
<1>2. DOMAIN last = 1..Samples /\ \A p \in 1..Samples : last[p] = samples[p + d]
  <2>1. last = SubSeq(samples, d + 1, m)
    BY <1>1 DEF Latest
  <2> HIDE DEF last, d
  <2>2. last \in Seq(Sample) /\ Len(last) = Samples
    BY <1>1, <2>1
  <2> QED
    BY <1>1, <2>1, <2>2
<1> HIDE DEF last, d
<1>3. /\ \A p \in 1..Samples : p + d \in (d + 1)..m
      /\ \A p \in (d + 1)..m : p - d \in 1..Samples /\ (p - d) + d = p
  BY <1>1
<1>4. ASSUME Alike(last), NEW p \in (d + 1)..m, NEW q \in (d + 1)..m
      PROVE  samples[p].value - samples[q].value <= Tolerance
  <2>1. last[p - d] = samples[p] /\ last[q - d] = samples[q]
    BY <1>2, <1>3
  <2> QED
    BY <1>2, <1>3, <1>4, <2>1 DEF Alike
<1>5. ASSUME \A p, q \in (d + 1)..m : samples[p].value - samples[q].value <= Tolerance
      PROVE  Alike(last)
  BY <1>2, <1>3, <1>5 DEF Alike
<1>6. Alike(last) <=>
        \A p, q \in (d + 1)..m : samples[p].value - samples[q].value <= Tolerance
  BY <1>4, <1>5
<1> QED
  BY <1>1, <1>6 DEF last

\* The samples kept judge the last answer as all answers do.
LEMMA KeptJudge ==
    ASSUME NEW calls, NEW time, CallsOk(calls, time), NEW client, NEW samples,
           KeptOk(samples, calls, client, time),
           \A p \in 1..Len(samples) : time - samples[p].at < Window,
           NEW n \in DOMAIN calls, n = Len(calls),
           calls[n].client = client, calls[n].at = time
    PROVE  Len(samples) >= Samples /\ Alike(Latest(samples, Samples)) <=> Guilty(calls, n)
<1> DEFINE m == Len(samples)
           R == JudgedIn(calls, n)
           After(j) == {k \in R : k > j}
           last == LastIn(calls, n)
<1>1. PICK f : KeptBy(samples, calls, client, time, f)
  BY DEF KeptOk
<1>2. n \in Nat /\ DOMAIN calls = 1..n /\ m \in Nat /\ f \in [1..m -> 1..n]
      /\ samples \in Seq(Sample) /\ Samples \in Nat /\ Samples > 0
  BY <1>1, AnswerAssumption DEF KeptBy, KeptOk, CallsOk
<1>3. \A p, q \in 1..m : p < q => f[p] < f[q]
  BY <1>1 DEF KeptBy, Follows
<1>4. \A p \in 1..m : /\ f[p] \in R /\ f[p] \in Int
                      /\ samples[p].value = calls[f[p]].value
  BY <1>1, <1>2 DEF KeptBy, Follows, JudgedIn
<1>5. ASSUME NEW j \in R, ~\E p \in 1..m : f[p] = j
      PROVE  (\A p \in 1..m : j < f[p]) /\ m >= Samples
  <2>1. j \in DOMAIN calls /\ calls[j].client = client /\ time - calls[j].at < Window
    BY <1>2 DEF JudgedIn
  <2>2. calls[j] \in Answer /\ time \in Nat
    BY <2>1 DEF CallsOk
  <2>3. ~(time - calls[j].at >= Window)
    BY <2>1, <2>2, AnswerAssumption DEF Answer
  <2> QED
    BY <1>1, <1>5, <2>1, <2>3 DEF KeptBy, Complete
<1>6. IsFiniteSet(R) /\ R \in SUBSET (1..n)
  <2>1. R \in SUBSET (1..n)
    BY DEF JudgedIn
  <2> HIDE DEF R
  <2>2. IsFiniteSet(1..n)
    BY <1>2, FS_Interval
  <2> QED
    BY <2>1, <2>2, FS_Subset
<1> HIDE DEF R
<1>7. ASSUME NEW a \in 0..m
      PROVE  Cardinality({f[p] : p \in (a + 1)..m}) = m - a
  BY <1>2, <1>3, LastPlaces, ZenonT(30)
<1>8. ASSUME NEW p \in 1..m
      PROVE  Cardinality(After(f[p])) = m - p
  <2>1. ASSUME NEW k \in After(f[p])
        PROVE  k \in {f[q] : q \in (p + 1)..m}
    <3>1. k \in R /\ k > f[p] /\ k \in Int
      BY <1>6
    <3>2. PICK q \in 1..m : f[q] = k
      BY <1>4, <1>5, <3>1
    <3>3. q > p
      <4>1. SUFFICES ASSUME q <= p PROVE FALSE
        OBVIOUS
      <4>2. q = p \/ q < p
        BY <4>1
      <4> QED
        BY <1>3, <1>4, <3>1, <3>2, <4>2
    <3> QED
      BY <3>2, <3>3
  <2>2. ASSUME NEW q \in (p + 1)..m
        PROVE  f[q] \in After(f[p])
    <3>1. q \in 1..m /\ p < q
      OBVIOUS
    <3> QED
      BY <1>3, <1>4, <3>1
  <2>3. After(f[p]) = {f[q] : q \in (p + 1)..m}
    BY <2>1, <2>2
  <2>4. p \in 0..m
    OBVIOUS
  <2> QED
    BY <1>7, <2>3, <2>4
<1>9. /\ {f[p] : p \in 1..m} \in SUBSET R
      /\ Cardinality({f[p] : p \in 1..m}) = m
  <2>1. 0 \in 0..m /\ 0 + 1 = 1 /\ m - 0 = m
    BY <1>2
  <2>2. Cardinality({f[p] : p \in (0 + 1)..m}) = m - 0
    BY <1>7, <2>1
  <2> QED
    BY <1>4, <2>1, <2>2
<1>10. Cardinality(R) \in Nat /\ m <= Cardinality(R)
  BY <1>6, <1>9, FS_Subset, FS_CardinalityType
<1>11. CASE m < Samples
  <2>1. R = {f[p] : p \in 1..m}
    <3>1. \A j \in R : \E p \in 1..m : f[p] = j
      BY <1>2, <1>5, <1>11
    <3> QED
      BY <1>9, <3>1
  <2>2. Cardinality(R) = m
    BY <1>9, <2>1
  <2> QED
    BY <1>2, <1>11, <2>2 DEF Guilty, R
<1>12. CASE m >= Samples
  <2>1. ASSUME NEW p \in (m - Samples + 1)..m
        PROVE  p \in 1..m /\ f[p] \in last
    <3>1. p \in 1..m /\ m - p < Samples
      BY <1>2, <1>12
    <3> QED
      BY <1>4, <1>8, <3>1 DEF LastIn, R
  <2>2. ASSUME NEW j \in last
        PROVE  \E p \in (m - Samples + 1)..m : f[p] = j
    <3>1. j \in R /\ Cardinality(After(j)) < Samples
      BY DEF LastIn, R
    <3>2. CASE \E p \in 1..m : f[p] = j
      <4>1. PICK p \in 1..m : f[p] = j
        BY <3>2
      <4>2. m - p < Samples
        BY <1>8, <3>1, <4>1
      <4> QED
        BY <1>2, <4>1, <4>2
    <3>3. CASE ~\E p \in 1..m : f[p] = j
      <4>1. {f[p] : p \in 1..m} \in SUBSET After(j)
        BY <1>4, <1>5, <3>1, <3>3
      <4>2. After(j) \in SUBSET R
        OBVIOUS
      <4>3. IsFiniteSet(After(j)) /\ Cardinality(After(j)) \in Nat
        BY <1>6, <4>2, FS_Subset, FS_CardinalityType
      <4>4. m <= Cardinality(After(j))
        BY <1>9, <4>1, <4>3, FS_Subset
      <4> QED
        BY <1>2, <1>12, <3>1, <4>3, <4>4
    <3> QED
      BY <3>2, <3>3
  <2>3. (\A j, k \in last : calls[j].value - calls[k].value <= Tolerance) <=>
          \A p, q \in (m - Samples + 1)..m : samples[p].value - samples[q].value <= Tolerance
    <3> DEFINE places == (m - Samples + 1)..m
    <3> HIDE DEF last
    <3>1. \A p \in places : f[p] \in last /\ samples[p].value = calls[f[p]].value
      BY <1>4, <2>1
    <3>2. \A j \in last : \E p \in places : f[p] = j
      BY <2>2
    <3> HIDE DEF places
    <3>3. (\A j, k \in last : calls[j].value - calls[k].value <= Tolerance) <=>
            \A p, q \in places : samples[p].value - samples[q].value <= Tolerance
      BY <3>1, <3>2
    <3> QED
      BY <3>3 DEF places
  <2>4. Cardinality(R) >= Samples
    BY <1>2, <1>10, <1>12
  <2>5. Alike(Latest(samples, Samples)) <=>
          \A p, q \in (m - Samples + 1)..m : samples[p].value - samples[q].value <= Tolerance
    BY <1>2, <1>12, LatestAlike
  <2>6. Guilty(calls, n) <=> \A j, k \in last : calls[j].value - calls[k].value <= Tolerance
    BY <2>4 DEF Guilty, R
  <2> QED
    BY <1>12, <2>3, <2>5, <2>6
<1> QED
  BY <1>2, <1>11, <1>12

-----------------------------------------------------------------------------
(* What VerdictsRight rests on.                                            *)

HistoryInv ==
    /\ CallsOk(log, now)
    /\ DOMAIN answers = Client
    /\ \A client \in Client : KeptOk(answers[client], log, client, now)
    /\ \A i \in DOMAIN log : log[i].low <=> Guilty(log, i)

LEMMA HistoryInitInv == Init => HistoryInv
<1> SUFFICES ASSUME Init PROVE HistoryInv
  OBVIOUS
<1>1. log = <<>> /\ now = 0 /\ DOMAIN log = {}
  BY DEF Init
<1>2. CallsOk(log, now)
  BY <1>1 DEF CallsOk
<1>3. ASSUME NEW client \in Client
      PROVE  KeptOk(answers[client], log, client, now)
  <2> DEFINE f == [p \in {} |-> p]
             none == answers[client]
  <2>1. none = <<>>
    BY DEF Init
  <2>2. none \in Seq(Sample) /\ Len(none) = 0 /\ 1..Len(none) = {}
    BY <2>1
  <2>3. f \in [{} -> DOMAIN log]
    OBVIOUS
  <2> HIDE DEF f, none
  <2>4. KeptBy(none, log, client, now, f)
    BY <1>1, <2>2, <2>3 DEF KeptBy, Follows, Complete
  <2>5. KeptOk(none, log, client, now)
    BY <2>2, <2>4 DEF KeptOk
  <2> QED
    BY <2>5 DEF none
<1> QED
  BY <1>1, <1>2, <1>3 DEF Init, HistoryInv

LEMMA RecordKeeps ==
    ASSUME HistoryInv, NEW who \in Client, NEW value \in Value, RecordAnswer(who, value)
    PROVE  HistoryInv'
<1> DEFINE sample == [value |-> value, at |-> now]
           kept == Cut(Recent(Append(answers[who], sample)))
           low == Len(kept) >= Samples /\ Alike(Latest(kept, Samples))
           call == [client |-> who, value |-> value, at |-> now, low |-> low]
           after == Append(log, call)
           last == Len(log) + 1
<1>1. /\ log' = after /\ now' = now
      /\ answers' = [answers EXCEPT ![who] = kept]
  BY DEF RecordAnswer
<1>2. /\ DOMAIN answers' = Client /\ answers'[who] = kept
      /\ \A client \in Client : client # who => answers'[client] = answers[client]
  BY <1>1 DEF HistoryInv
<1> HIDE DEF kept
<1>3. now \in Nat /\ CallsOk(log, now)
  BY DEF HistoryInv, CallsOk
<1>4. low \in BOOLEAN
  OBVIOUS
<1> HIDE DEF low
<1>5. /\ call \in Answer /\ call.at = now /\ call.client = who /\ call.value = value
      /\ call.low = low
  BY <1>3, <1>4 DEF Answer
<1> HIDE DEF call
<1>6. /\ CallsOk(after, now) /\ Len(log) \in Nat /\ DOMAIN log = 1..Len(log)
      /\ Len(after) = last /\ DOMAIN after = 1..last
      /\ after[last] = call /\ \A i \in DOMAIN log : after[i] = log[i]
  BY <1>3, <1>5, LogLonger
<1>7. ASSUME NEW client \in Client, client # who
      PROVE  KeptOk(answers[client], after, client, now)
  <2>1. KeptOk(answers[client], log, client, now)
    BY DEF HistoryInv
  <2> QED
    BY <1>3, <1>5, <1>7, <2>1, AnswerAdds
<1>8. KeptOk(Append(answers[who], sample), after, who, now)
  <2>1. KeptOk(answers[who], log, who, now)
    BY DEF HistoryInv
  <2> QED
    BY <1>3, <1>5, <2>1, AnswerAdds
<1>9. /\ KeptOk(Recent(Append(answers[who], sample)), after, who, now)
      /\ \A p \in 1..Len(Recent(Append(answers[who], sample))) :
            now - Recent(Append(answers[who], sample))[p].at < Window
  BY <1>6, <1>8, RecentEnds
<1>10. /\ KeptOk(kept, after, who, now)
       /\ \A p \in 1..Len(kept) : now - kept[p].at < Window
  BY <1>6, <1>9, CutEnds DEF kept
<1>11. low <=> Guilty(after, last)
  <2>1. last \in DOMAIN after /\ last = Len(after)
    BY <1>6
  <2> HIDE DEF after, last
  <2> QED
    BY <1>5, <1>6, <1>10, <2>1, KeptJudge DEF low
<1>12. \A i \in DOMAIN log : after[i].low <=> Guilty(after, i)
  BY <1>3, <1>5, <1>6, VerdictStays DEF HistoryInv
<1>13. \A i \in DOMAIN after : i \in DOMAIN log \/ i = last
  BY <1>6
<1> HIDE DEF after, last
<1>14. \A i \in DOMAIN after : after[i].low <=> Guilty(after, i)
  BY <1>5, <1>6, <1>11, <1>12, <1>13
<1>15. \A client \in Client : KeptOk(answers'[client], log', client, now')
  BY <1>1, <1>2, <1>7, <1>10
<1>16. CallsOk(log', now') /\ \A i \in DOMAIN log' : log'[i].low <=> Guilty(log', i)
  BY <1>1, <1>6, <1>14
<1> QED
  BY <1>2, <1>15, <1>16 DEF HistoryInv

LEMMA SweepKeeps == ASSUME HistoryInv, Sweep PROVE HistoryInv'
<1>1. /\ answers' = [client \in Client |-> Recent(answers[client])]
      /\ now' = now /\ log' = log
  BY DEF Sweep
<1>2. ASSUME NEW client \in Client
      PROVE  KeptOk(Recent(answers[client]), log, client, now)
  BY RecentEnds DEF HistoryInv
<1>3. \A client \in Client : KeptOk(answers'[client], log', client, now')
  BY <1>1, <1>2
<1>4. /\ CallsOk(log', now') /\ DOMAIN answers' = Client
      /\ \A i \in DOMAIN log' : log'[i].low <=> Guilty(log', i)
  BY <1>1 DEF HistoryInv
<1> QED
  BY <1>3, <1>4 DEF HistoryInv

LEMMA ClockKeeps == ASSUME HistoryInv, Tick PROVE HistoryInv'
<1>1. answers' = answers /\ now' = now + 1 /\ log' = log
  BY DEF Tick
<1>2. now \in Nat /\ now' \in Nat /\ CallsOk(log, now)
  BY <1>1 DEF HistoryInv, CallsOk
<1>3. \A i \in DOMAIN log : log[i].at \in Nat
  <2>1. \A i \in DOMAIN log : log[i] \in Answer
    BY <1>2 DEF CallsOk
  <2> QED
    BY <2>1 DEF Answer
<1>4. CallsOk(log', now')
  BY <1>1, <1>2, <1>3 DEF CallsOk
<1>5. ASSUME NEW client \in Client
      PROVE  KeptOk(answers[client], log, client, now')
  <2>1. KeptOk(answers[client], log, client, now)
    BY DEF HistoryInv
  <2>2. PICK f : KeptBy(answers[client], log, client, now, f)
    BY <2>1 DEF KeptOk
  <2>3. ASSUME NEW j \in DOMAIN log
        PROVE  now - log[j].at >= Window => now' - log[j].at >= Window
    BY <1>1, <1>2, <1>3, AnswerAssumption
  <2>4. Complete(answers[client], log, client, f, now')
    BY <2>2, <2>3 DEF KeptBy, Complete
  <2> QED
    BY <2>1, <2>2, <2>4 DEF KeptOk, KeptBy
<1>6. \A client \in Client : KeptOk(answers'[client], log', client, now')
  BY <1>1, <1>5
<1>7. DOMAIN answers' = Client /\ \A i \in DOMAIN log' : log'[i].low <=> Guilty(log', i)
  BY <1>1 DEF HistoryInv
<1> QED
  BY <1>4, <1>6, <1>7 DEF HistoryInv

LEMMA HistoryKeeps == HistoryInv /\ [Next]_vars => HistoryInv'
<1> SUFFICES ASSUME HistoryInv, [Next]_vars PROVE HistoryInv'
  OBVIOUS
<1>1. CASE UNCHANGED vars
  <2>1. answers' = answers /\ now' = now /\ log' = log
    BY <1>1 DEF vars
  <2>2. /\ CallsOk(log', now') /\ DOMAIN answers' = Client
        /\ \A client \in Client : KeptOk(answers'[client], log', client, now')
        /\ \A i \in DOMAIN log' : log'[i].low <=> Guilty(log', i)
    BY <2>1 DEF HistoryInv
  <2> QED
    BY <2>2 DEF HistoryInv
<1> QED
  BY <1>1, RecordKeeps, SweepKeeps, ClockKeeps DEF Next

LEMMA HistoryIsRight == HistoryInv => VerdictsRight
<1> SUFFICES ASSUME HistoryInv, NEW i \in DOMAIN log
             PROVE  LET recent == Judged(i)
                        last == {j \in recent :
                                   Cardinality({k \in recent : k > j}) < Samples}
                    IN log[i].low <=>
                         /\ Cardinality(recent) >= Samples
                         /\ \A j, k \in last : log[j].value - log[k].value <= Tolerance
  BY DEF VerdictsRight
<1>1. Judged(i) = JudgedIn(log, i)
  BY DEF Judged, JudgedIn
<1>2. log[i].low <=> Guilty(log, i)
  BY DEF HistoryInv
<1> QED
  BY <1>1, <1>2 DEF Guilty, LastIn

\* recordAnswer's verdict is the one on all answers the client has ever given,
\* however many there were, whatever has been cut or swept, and whoever answered
\* in between.
THEOREM VerdictsAreRight == Spec => []VerdictsRight
<1>1. Spec => []HistoryInv
  BY HistoryInitInv, HistoryKeeps, PTL DEF Spec
<1> QED
  BY <1>1, HistoryIsRight, PTL


\* No more is kept of a client than may be.
SizeInv ==
    /\ now \in 0..MaxTime
    /\ \A client \in Client : Len(answers[client]) <= 4 * Samples

LEMMA SizeKeeps ==
    ASSUME HistoryInv, HistoryInv', SizeInv, [Next]_vars
    PROVE  SizeInv'
<1>0. 4 * Samples \in Nat /\ \A client \in Client : Len(answers[client]) \in Nat
  BY AnswerAssumption DEF HistoryInv, KeptOk
<1>1. ASSUME NEW who \in Client, NEW value \in Value, RecordAnswer(who, value)
      PROVE  SizeInv'
  <2> DEFINE sample == [value |-> value, at |-> now]
             kept == Cut(Recent(Append(answers[who], sample)))
             call == [client |-> who, value |-> value, at |-> now,
                      low |-> Len(kept) >= Samples /\ Alike(Latest(kept, Samples))]
             after == Append(log, call)
  <2>1. /\ log' = after /\ now' = now
        /\ answers' = [answers EXCEPT ![who] = kept]
    BY <1>1 DEF RecordAnswer
  <2>2. now \in Nat /\ CallsOk(log, now) /\ KeptOk(answers[who], log, who, now)
    BY DEF HistoryInv, CallsOk
  <2>3. call \in Answer /\ call.at = now /\ call.client = who /\ call.value = value
    BY <2>2 DEF Answer
  <2> HIDE DEF call
  <2>4. CallsOk(after, now) /\ KeptOk(Append(answers[who], sample), after, who, now)
    BY <2>2, <2>3, LogLonger, AnswerAdds
  <2>5. /\ KeptOk(Recent(Append(answers[who], sample)), after, who, now)
        /\ \A p \in 1..Len(Recent(Append(answers[who], sample))) :
              now - Recent(Append(answers[who], sample))[p].at < Window
    BY <2>4, RecentEnds
  <2>6. Len(kept) <= 4 * Samples
    BY <2>4, <2>5, CutEnds
  <2> HIDE DEF kept
  <2>7. \A client \in Client : answers'[client] = IF client = who THEN kept ELSE answers[client]
    BY <2>1 DEF HistoryInv
  <2> QED
    BY <2>1, <2>6, <2>7 DEF SizeInv
<1>2. CASE Sweep
  <2>1. answers' = [client \in Client |-> Recent(answers[client])] /\ now' = now
    BY <1>2 DEF Sweep
  <2>2. ASSUME NEW client \in Client
        PROVE  Len(Recent(answers[client])) <= 4 * Samples
    <3>1. KeptOk(answers[client], log, client, now) /\ CallsOk(log, now)
      BY DEF HistoryInv
    <3>2. Len(Recent(answers[client])) <= Len(answers[client])
      BY <3>1, RecentEnds
    <3>3. Len(Recent(answers[client])) \in Nat
      BY <3>1, RecentEnds DEF KeptOk
    <3> QED
      BY <1>0, <3>2, <3>3 DEF SizeInv
  <2> QED
    BY <2>1, <2>2 DEF SizeInv
<1>3. CASE Tick
  BY <1>3, AnswerAssumption DEF Tick, SizeInv
<1>4. CASE UNCHANGED vars
  BY <1>4 DEF vars, SizeInv
<1> QED
  BY <1>1, <1>2, <1>3, <1>4 DEF Next

\* A client's samples are values with times of the past, and never more than four
\* times as many as a verdict takes.
THEOREM AnswersBounded == Spec => []TypeOK
<1>1. Init => SizeInv
  BY AnswerAssumption DEF Init, SizeInv
<1>2. HistoryInv /\ SizeInv => TypeOK
  <2> SUFFICES ASSUME HistoryInv, SizeInv, NEW client \in Client,
                      NEW i \in DOMAIN answers[client]
               PROVE  answers[client][i] \in [value : Value, at : 0..now]
    BY DEF TypeOK, SizeInv
  <2> DEFINE samples == answers[client]
  <2>1. KeptOk(samples, log, client, now) /\ CallsOk(log, now)
    BY DEF HistoryInv
  <2>2. PICK f : KeptBy(samples, log, client, now, f)
    BY <2>1 DEF KeptOk
  <2>3. i \in 1..Len(samples) /\ samples[i] \in Sample
    BY <2>1 DEF KeptOk
  <2>4. samples[i].at <= now
    BY <2>1, <2>2, <2>3 DEF KeptBy, Follows, CallsOk
  <2> HIDE DEF samples
  <2>5. samples[i] \in [value : Value, at : 0..now]
    BY <2>1, <2>3, <2>4 DEF Sample, CallsOk
  <2> QED
    BY <2>5 DEF samples
<1> QED
  BY <1>1, <1>2, SizeKeeps, HistoryInitInv, HistoryKeeps, PTL DEF Spec
=============================================================================
