---------------------------- MODULE RationaleCard ---------------------------
(***************************************************************************)
(* kubectl geminiset why: from the annotations the scheduler left on a pod *)
(* to the card on the terminal.  A word is its length, a line the sequence *)
(* of its words; the text of a word, the colours' codes and the frame are  *)
(* left out.                                                               *)
(***************************************************************************)
EXTENDS Integers, Sequences, FiniteSets, SequencesExt

CONSTANT MaxInt     \* the largest int of the machine

ASSUME MaxIntAssumption == MaxInt \in Nat

-----------------------------------------------------------------------------
(***************************************************************************)
(* wrapText.                                                               *)
(***************************************************************************)
\* The words and one blank between each two of them.
LineLen(line) ==
    IF line = <<>> THEN 0 ELSE FoldLeft(+, 0, line) + Len(line) - 1

\* Mutant: the line that is full is dropped when it holds a single word.
WrapWordLosing(wrapped, w, maxLen) ==
    IF LineLen(wrapped.current) + w + 1 > maxLen
    THEN [lines |-> IF Len(wrapped.current) = 1 THEN wrapped.lines
                    ELSE Append(wrapped.lines, wrapped.current),
          current |-> <<w>>]
    ELSE [wrapped EXCEPT !.current = Append(@, w)]

\* One round of the loop: the word goes onto the current line or starts the
\* next one.  A blank is added for it even if it would be the first.
WrapWord(wrapped, w, maxLen) ==
    IF LineLen(wrapped.current) + w + 1 > maxLen
    THEN [lines |-> Append(wrapped.lines, wrapped.current), current |-> <<w>>]
    ELSE [wrapped EXCEPT !.current = Append(@, w)]

WrapText(words, maxLen) ==
    LET all == FoldLeft(LAMBDA acc, w : WrapWord(acc, w, maxLen),
                        [lines |-> <<>>, current |-> <<>>], words)
    IN  IF words = <<>> THEN <<<<>>>> ELSE Append(all.lines, all.current)

\* Reference: a layout is the set of positions after which a line ends.
Layouts(words) == SUBSET (1 .. Len(words) - 1)

Fits(words, breaks, maxLen) ==
    \A i, j \in 1..Len(words) :
      (i < j /\ breaks \cap i .. j-1 = {}) => LineLen(SubSeq(words, i, j)) <= maxLen

\* A rationale is shown whole: its words in their order, on lines that fit
\* unless a single word is longer than a line, and on no more lines than any
\* such layout needs, but for a blank first line.
WrapIsTight(words, maxLen) ==
    LET lines == WrapText(words, maxLen)
        filled == {i \in DOMAIN lines : lines[i] # <<>>}
    IN  /\ FlattenSeq(lines) = words
        /\ \A i \in DOMAIN lines :
             /\ LineLen(lines[i]) > maxLen => Len(lines[i]) = 1
             /\ lines[i] = <<>> => i = 1
        /\ \A breaks \in Layouts(words) :
             (words # <<>> /\ Fits(words, breaks, maxLen)) =>
               Cardinality(filled) <= Cardinality(breaks) + 1

-----------------------------------------------------------------------------
(***************************************************************************)
(* The scores.                                                             *)
(***************************************************************************)
BarWidth == 15

IsInt(x) == x \in -MaxInt - 1 .. MaxInt

\* What is left of x in an int.
Wrapped(x) == ((x + MaxInt + 1) % (2 * (MaxInt + 1))) - MaxInt - 1

\* Mutant: the model is trusted to stay within 0..100.
FilledUnclamped(score) == Wrapped(score * BarWidth) \div 100

\* renderProgressBar: how much of the bar is filled; a product beyond the ints
\* wraps around.  (\div rounds a negative product down, Go rounds it towards
\* zero; either is raised to zero.)
Filled(score) ==
    LET filled == Wrapped(score * BarWidth) \div 100
    IN  IF filled > BarWidth THEN BarWidth ELSE IF filled < 0 THEN 0 ELSE filled

Colour(score) ==
    CASE score >= 85 -> "green"
      [] score \in 60..84 -> "yellow"
      [] OTHER -> "red"

\* The matrix the plugin shows when the pod has none, or an empty one.
StandInScores ==
    [key \in {"ResourceFit", "TopologySpread", "ConstraintCompliance"} |->
       IF key = "TopologySpread" THEN 90 ELSE 95]

\* The scheduler writes the matrix as JSON, the plugin reads it back; a pod
\* without the annotation counts as one with an empty matrix.
ShownScores(annotation) ==
    IF DOMAIN annotation = {} THEN StandInScores ELSE annotation

\* A row of the card: the number and the bar, of full and empty cells.
Rows(annotation) ==
    LET scores == ShownScores(annotation)
    IN  [key \in DOMAIN scores |->
           [score |-> scores[key], full |-> Filled(scores[key]),
            empty |-> BarWidth - Filled(scores[key]), colour |-> Colour(scores[key])]]

\* The bar of a score stands for it: the product does not wrap around.
HasBar(score) == IsInt(score * BarWidth)

\* The card of a decision that has scores shows these and no others; whatever
\* numbers the model gave, each bar has its cells (a negative number of them
\* ends the program).  Unless the product wraps around, a better score never
\* gets a shorter bar, and equal bars may only hide a difference of less than
\* one cell within the range 0..100.
CardShowsDecision(scoreMatrix) ==
    LET rows == Rows(scoreMatrix)
    IN  DOMAIN scoreMatrix # {} =>
          /\ DOMAIN rows = DOMAIN scoreMatrix
          /\ \A key \in DOMAIN rows :
               /\ rows[key].score = scoreMatrix[key]
               /\ rows[key].full >= 0 /\ rows[key].empty >= 0
          /\ \A k, l \in DOMAIN rows :
               (/\ scoreMatrix[k] < scoreMatrix[l]
                /\ HasBar(scoreMatrix[k]) /\ HasBar(scoreMatrix[l])) =>
                 /\ rows[k].full <= rows[l].full
                 /\ (rows[k].full = rows[l].full /\ scoreMatrix[k] >= 0
                       /\ scoreMatrix[l] <= 100)
                      => (scoreMatrix[l] - scoreMatrix[k]) * BarWidth < 100
=============================================================================
