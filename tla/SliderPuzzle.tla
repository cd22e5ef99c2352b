----------------------------- MODULE SliderPuzzle -----------------------------
(***************************************************************************)
(* Where the slot of a slider puzzle is, and which clicks hit it:          *)
(* buildSliderChallenge, placeDecoy and consume in slider.go, sliderClick  *)
(* and the head of handleSliderVerify in main.go. The picture has as many  *)
(* pixels as it likes and is shown at one of three widths; the browser     *)
(* sends the click in pixels of what it shows. Only the column counts, for *)
(* the slots are as high as the picture.                                   *)
(***************************************************************************)
EXTENDS Naturals, FiniteSets

CONSTANTS
    Extra,       \* what is added to slider.width: 0..80
    DecoyAt,     \* bound: the columns where decoys are tried
    MaxDecoys,   \* 3
    Shown        \* sliderSpotWidths

ASSUME PuzzleAssumption ==
    /\ Extra \cup DecoyAt \subseteq Nat
    /\ Shown \subseteq Nat \ {0} /\ \A shown \in Shown : shown % 2 = 0

VARIABLES
    setting,   \* slider.width and slider.tolerance, after loadConfig
    puzzle,    \* of sliderChallenge: width, the slot's width (span), answer;
               \* clear: whether the loop that draws the answer was content
    decoys

puzzleVars == <<setting, puzzle, decoys>>

NoPuzzle == [width |-> 0, span |-> 0, answer |-> 0, clear |-> FALSE]

PuzzleInit ==
    /\ setting \in [width : Nat, tolerance : Nat]
    /\ setting.width >= 200 /\ setting.tolerance > 0
    /\ puzzle = NoPuzzle
    /\ decoys = {}

Clamp(n, low, high) == IF n < low THEN low ELSE IF n > high THEN high ELSE n

\* pieceTotal: the piece and its tab.
Span(width) == LET piece == Clamp(width \div 5, 40, 80) IN piece + piece \div 2

Answers(width) ==
    LET max == IF width - Span(width) < Span(width) THEN Span(width) ELSE width - Span(width)
    IN  IF max > setting.tolerance THEN (setting.tolerance + 1)..max ELSE {max}

\* Mutant: the test for a redraw forgets the tolerance.
CentralExact(width, answer) ==
    answer <= width \div 2 /\ width \div 2 <= answer + Span(width)

\* The slot, with the tolerance, covers the centre of the picture: the test on
\* which buildSliderChallenge draws again.
Central(width, answer) ==
    /\ answer <= width \div 2 + setting.tolerance
    /\ width \div 2 <= answer + Span(width) + setting.tolerance

\* buildSliderChallenge draws a place for the slot, and up to 64 times another
\* while the last one is central. With the default tolerance nearly half of the
\* places are clear; the higher it is, the fewer, and after the last draw a
\* central place is kept. So any place may be the answer, and the loop ends
\* with a clear one or gives up.
Build ==
    /\ puzzle = NoPuzzle
    /\ \E extra \in Extra :
         LET width == setting.width + extra
         IN  \E answer \in Answers(width) :
               puzzle' = [width |-> width, span |-> Span(width), answer |-> answer,
                          clear |-> ~Central(width, answer)]
    /\ UNCHANGED <<setting, decoys>>

Separation == puzzle.span + 12

Apart(x, y) == x < y + Separation => x + Separation <= y

\* placeDecoy: away from the slot and the decoys before.
PlaceDecoy ==
    /\ puzzle # NoPuzzle /\ Cardinality(decoys) < MaxDecoys
    /\ \E x \in {y \in DecoyAt : y >= 2 /\ y + puzzle.span + 2 <= puzzle.width} :
         /\ \A y \in decoys \cup {puzzle.answer} : Apart(x, y)
         /\ decoys' = decoys \cup {x}
    /\ UNCHANGED <<setting, puzzle>>

PuzzleNext == Build \/ PlaceDecoy

PuzzleSpec == PuzzleInit /\ [][PuzzleNext]_puzzleVars

\* int(x * natural / shown), and consume with half the tolerance.
Hits(x, shown) ==
    LET value == (x * puzzle.width) \div shown
        margin == setting.tolerance \div 2
    IN  puzzle.answer <= value + margin /\ value <= puzzle.answer + puzzle.span + margin

\* A pixel of the picture as shown lies on a slot that begins at column left.
On(x, shown, left) ==
    left * shown <= x * puzzle.width /\ x * puzzle.width <= (left + puzzle.span) * shown

\* README, Click-the-slot puzzle: whatever the width the picture is shown at, a
\* click anywhere on the slot is right, and none on a decoy is, unless the
\* tolerance is as wide as decoys are apart. A click on the centre, where
\* programs click that cannot choose a place, is wrong for every place the
\* drawing loop is content with, although it tests the place with the whole
\* tolerance at half the width rounded down, and the click is judged with half
\* the tolerance after a rounding of its own.
OnlyTheSlot ==
    puzzle # NoPuzzle =>
        \A shown \in Shown :
            /\ \A x \in 0..shown :
                 /\ On(x, shown, puzzle.answer) => Hits(x, shown)
                 /\ (\E left \in decoys : On(x, shown, left)) /\ setting.tolerance < 24
                      => ~Hits(x, shown)
            /\ puzzle.clear => ~Hits(shown \div 2, shown)
=============================================================================
