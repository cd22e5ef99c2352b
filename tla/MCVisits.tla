------------------------------- MODULE MCVisits -------------------------------
(* Small instances of four modules for TLC, of which one runs at a time:     *)
(* AnswerHistory, FormReplay, SliderPuzzle and ClientAddress.                *)
EXTENDS AnswerHistory, FormReplay, SliderPuzzle, ClientAddress

CONSTANTS c, d, Few

VARIABLE part

-----------------------------------------------------------------------------
(* AnswerHistory: one client gives more answers than are kept, and another a *)
(* few in between.                                                           *)
FewOthers == Cardinality({i \in DOMAIN log' : log'[i].client = d}) <= Few

-----------------------------------------------------------------------------
(* FormReplay: any form at a site with every provider or with one, or a few  *)
(* forms at any site.                                                        *)
NoForm == [fields |-> {}, taken |-> FALSE]
OneKey == [keys |-> {"turnstile"}, slider |-> FALSE, provider |-> ""]
AllKeys == [keys |-> Keyed, slider |-> TRUE, provider |-> "hcaptcha"]

AnyForm ==
    /\ cfg \in {OneKey, AllKeys}
    /\ browser \in [metadata : BOOLEAN, old : {FALSE}]
    /\ form \in [fields : SUBSET FieldName, taken : BOOLEAN]
    /\ exit = FALSE

AnySite ==
    /\ cfg \in [keys : SUBSET Keyed, slider : BOOLEAN, provider : Keyed \cup {"", "slider"}]
    /\ browser \in [metadata : {TRUE}, old : BOOLEAN]
    /\ form \in {NoForm} \cup
         [fields : {{[prefixes |-> 0, rest |-> r]} : r \in Plain}, taken : {TRUE}]

NoVisit ==
    /\ cfg = OneKey /\ form = NoForm /\ exit = FALSE
    /\ browser = [metadata |-> TRUE, old |-> FALSE]

-----------------------------------------------------------------------------
(* SliderPuzzle: the tolerance of loadConfig, the widest that decoys allow,   *)
(* and one that leaves few places beside the centre of a narrow picture.     *)
Settings == [width : {200, 320}, tolerance : {1, 8, 23, 38}]

-----------------------------------------------------------------------------
MCInit ==
    /\ part \in {"answers", "visit", "puzzle", "route"}
    /\ Init
    /\ IF part = "visit" THEN AnyForm \/ AnySite ELSE NoVisit
    /\ VisitInit
    /\ setting \in IF part = "puzzle" THEN Settings ELSE {[width |-> 320, tolerance |-> 8]}
    /\ PuzzleInit
    /\ part # "route" => header = <<>> /\ peer = CHOOSE o \in Outside : TRUE
    /\ RouteInit

Answering ==
    part = "answers" /\ Next /\ FewOthers /\ UNCHANGED <<visitVars, puzzleVars, routeVars, part>>
Visiting ==
    part = "visit" /\ VisitNext /\ UNCHANGED <<vars, puzzleVars, routeVars, part>>
Puzzling ==
    part = "puzzle" /\ PuzzleNext /\ UNCHANGED <<vars, visitVars, routeVars, part>>
Routing ==
    part = "route" /\ Forward /\ UNCHANGED <<vars, visitVars, puzzleVars, part>>

MCNext == Answering \/ Visiting \/ Puzzling \/ Routing

MCSpec == MCInit /\ [][MCNext]_<<vars, visitVars, puzzleVars, routeVars, part>>
=============================================================================
