--------------------------- MODULE CorpusVerdicts --------------------------
(***************************************************************************)
(* Which poems are classical (scripts/corpus): an export of the corpus is  *)
(* judged poem by poem, by its rhyme and the evenness of its hemistichs;   *)
(* if the judgement is calibrated, the labels it would change are written  *)
(* down, turned into SQL, and applied by hand, any time later.             *)
(*                                                                         *)
(* A hemistich is its letters from the last to the first, as far as the    *)
(* judgement looks at them, and their number; a row of a poem is one or two*)
(* of them (more make the poem irregular).  Rates are compared exactly, as *)
(* fractions.                                                              *)
(***************************************************************************)
EXTENDS Ranked, FiniteSetsExt, SequencesExt, Functions

CONSTANTS Corpus,     \* bodies a poem may have: sequences of rows
          Labels,     \* labels a poem may have
          MaxEdits    \* bound on the edits of a label by hand

(* A body is its rows that hold a letter, a row its hemistichs that do.     *)
Hemistichs == [tail : Seq(STRING) \ {<<>>}, length : Nat]
PoemBodies == Seq(Seq(Hemistichs) \ {<<>>})
ASSUME CorpusConstants == Corpus \subseteq PoemBodies

VARIABLES poem,       \* the poem in the database: its body and label
          export,     \* the exported row, or none
          csv, sql,   \* the files written, or none
          edits
corpusVars == <<poem, export, csv, sql, edits>>

-----------------------------------------------------------------------------
(* arabic-text.ts and qafiya.ts: the letters a line may rhyme in.           *)
SoundClass == [hamza |-> "hamza", wawHamza |-> "hamza", yehHamza |-> "hamza",
               alif |-> "alif", maqsura |-> "alif",
               teh |-> "marbuta", heh |-> "marbuta", marbuta |-> "marbuta"]
normalizeLetter(letter) == IF letter \in DOMAIN SoundClass THEN SoundClass[letter] ELSE letter
WaslVowels == {"yeh", "alif", "maqsura", "waw", "heh", "marbuta"}

rawiCandidates(line) ==
    LET wasl == IF Len(line.tail) >= 2 /\ line.tail[1] \in WaslVowels THEN {2} ELSE {}
        plural == IF Len(line.tail) >= 3 /\ SubSeq(line.tail, 1, 2) = <<"alif", "waw">> THEN {3} ELSE {}
    IN  {normalizeLetter(line.tail[i]) : i \in {1} \cup wasl \cup plural}

(* rhymeScore: lines that share the commonest letter, out of all lines.     *)
Tally(ajuz, letter) == Cardinality({i \in DOMAIN ajuz : letter \in rawiCandidates(ajuz[i])})
Dominant(ajuz) == Max({0} \cup {Tally(ajuz, letter) :
                           letter \in UNION {rawiCandidates(ajuz[i]) : i \in DOMAIN ajuz}})
Rhymes(ajuz) == ajuz # <<>> /\ 10 * Dominant(ajuz) >= 9 * Len(ajuz)
HigherScore(a, b) == Dominant(a) * Len(b) > Dominant(b) * Len(a)

sharedLiteralSuffixLength(ajuz) ==
    IF ajuz = <<>> THEN 0 ELSE
    LET Shared(n) == \A i \in DOMAIN ajuz : /\ Len(ajuz[i].tail) >= n
                                            /\ SubSeq(ajuz[i].tail, 1, n) = SubSeq(ajuz[1].tail, 1, n)
    IN  Max({n \in 0..Len(ajuz[1].tail) : Shared(n)})

(* coefficientOfVariation at most a fifth, without the square root.         *)
Regular(lengths) ==
    LET sum == FoldFunction(+, 0, lengths)
        squares == FoldFunction(LAMBDA x, s : s + x * x, 0, lengths)
    IN  25 * (Len(lengths) * squares - sum * sum) <= sum * sum

-----------------------------------------------------------------------------
(* hemistichs.ts *)
classifyStructure(rows) ==
    LET widths == {Len(rows[i]) : i \in DOMAIN rows} IN
    IF \E w \in widths : w > 2 THEN "irregular"
    ELSE IF Cardinality(widths) > 1 THEN "mixed" ELSE IF 2 \in widths THEN "starred" ELSE "flat"

Starred(rows) == ElementsAt(rows, {i \in DOMAIN rows : Len(rows[i]) = 2})
Second(rows) == [i \in DOMAIN rows |-> rows[i][2]]
Lines(rows) == [i \in DOMAIN rows |-> rows[i][1]]
Alternating(lines) == [i \in 1..(Len(lines) \div 2) |-> lines[2 * i]]

ajuzHypotheses(rows, kind) ==
    CASE kind = "irregular" -> <<>>
      [] kind = "starred" -> <<Second(rows)>>
      [] kind = "mixed" -> IF Len(Starred(rows)) >= 2 THEN <<Second(Starred(rows))>> ELSE <<>>
      [] kind = "flat" -> IF Len(rows) \div 2 >= 2 THEN <<Lines(rows), Alternating(Lines(rows))>>
                          ELSE <<Lines(rows)>>

provenancedHemistichs(rows, kind) ==
    FlattenSeq(IF kind = "mixed" /\ 2 * Len(Starred(rows)) >= 4 THEN Starred(rows) ELSE rows)

(* assessPoem: the first of the hypotheses that score highest is judged.    *)
BestAjuz(rows) ==
    LET hypotheses == ajuzHypotheses(rows, classifyStructure(rows)) IN
    IF hypotheses = <<>> THEN <<>>
    ELSE IF Len(hypotheses) = 2 /\ HigherScore(hypotheses[2], hypotheses[1])
         THEN hypotheses[2] ELSE hypotheses[1]
assessPoem(rows) ==
    LET kind == classifyStructure(rows)
        lengths == [i \in DOMAIN provenancedHemistichs(rows, kind) |->
                       provenancedHemistichs(rows, kind)[i].length]
        ajuz == BestAjuz(rows)
        even == IF Regular(lengths) THEN "verified" ELSE "untestable"
    IN  IF kind = "irregular" \/ Len(lengths) < 2 THEN "untestable"
        ELSE IF Len(ajuz) >= 5 THEN IF Rhymes(ajuz) THEN even ELSE "contradicted"
        ELSE IF Len(ajuz) >= 2 /\ sharedLiteralSuffixLength(ajuz) >= 2 THEN even
        ELSE "untestable"

proposedLabel(label, verdict) ==
    IF verdict = "verified" /\ label # "amudi" THEN {"amudi"}
    ELSE IF verdict = "contradicted" /\ label = "amudi" THEN {"majhul"} ELSE {}

isAnchor(ajuz) == Len(ajuz) >= 4 /\ sharedLiteralSuffixLength(ajuz) >= 2
(* The anchors of the corpus that rhyme, out of them all: at least 98 in a  *)
(* hundred.  How often chance rhymes is a matter of the random numbers.     *)
anchorRecall(anchors) == 100 * Cardinality({a \in anchors : Rhymes(a)}) >= 98 * Cardinality(anchors)

-----------------------------------------------------------------------------
None == [made |-> "never"]
CorpusInit ==
    /\ \E body \in Corpus, label \in Labels : poem = [body |-> body, label |-> label]
    /\ export = None /\ csv = None /\ sql = None /\ edits = 0

Edit ==
    /\ edits < MaxEdits /\ edits' = edits + 1
    /\ \E label \in Labels \ {poem.label} : poem' = [poem EXCEPT !.label = label]
    /\ UNCHANGED <<export, csv, sql>>

Export == export' = [made |-> "from", poem |-> poem] /\ UNCHANGED <<poem, csv, sql, edits>>

(* MUTANT: the verdicts are written before they are calibrated.             *)
Whatever(recalled, chance) == TRUE
CalibrationPassed(recalled, chance) == recalled /\ chance = "low"
(* main of verify-classical.ts: a run that is not calibrated leaves the     *)
(* file of an earlier one where it is.                                      *)
Verify ==
    /\ export # None
    /\ \E chance \in {"low", "high"} :
          LET ajuz == BestAjuz(export.poem.body)
              recalled == anchorRecall(IF isAnchor(ajuz) THEN {ajuz} ELSE {})
          IN  csv' = IF CalibrationPassed(recalled, chance)
                     THEN [made |-> "by", chance |-> chance,
                           proposed |-> proposedLabel(export.poem.label, assessPoem(export.poem.body))]
                     ELSE csv
    /\ UNCHANGED <<poem, export, sql, edits>>

(* apply-verdicts.ts, and the statements run by hand: the label is set,     *)
(* whatever it has become since.                                            *)
BuildUpdateStatements == csv # None /\ sql' = csv /\ UNCHANGED <<poem, export, csv, edits>>
Apply ==
    /\ sql # None
    /\ poem' = [poem EXCEPT !.label = IF sql.proposed = {} THEN @ ELSE CHOOSE p \in sql.proposed : TRUE]
    /\ UNCHANGED <<export, csv, sql, edits>>

CorpusNext == Edit \/ Export \/ Verify \/ BuildUpdateStatements \/ Apply

CorpusSpec == CorpusInit /\ [][CorpusNext]_corpusVars

-----------------------------------------------------------------------------
(* Writing a poem without its stars, a hemistich to a line, never turns a   *)
(* classical poem into one that is not: of the readings of such lines one   *)
(* is the reading with stars.                                               *)
Unstarred(rows) == [i \in 1..(2 * Len(rows)) |-> <<rows[(i + 1) \div 2][IF i % 2 = 1 THEN 1 ELSE 2]>>]
LayoutNeverContradicts ==
    (classifyStructure(poem.body) = "starred" /\ assessPoem(poem.body) = "verified")
        => assessPoem(Unstarred(poem.body)) # "contradicted"

(* The anchors the calibration goes by are always recalled: two letters     *)
(* that end every line make them rhyme, whatever those letters are.  (So    *)
(* that half of the calibration cannot fail.)                               *)
AnchorsAreRecalled == isAnchor(BestAjuz(poem.body)) => Rhymes(BestAjuz(poem.body))

(* What is applied was calibrated, though a later run may have refused.     *)
AppliedIsCalibrated == sql # None => sql.chance = "low"

(* Applied to the label it was made for, a verdict leaves nothing to do: a  *)
(* second pass over the corpus proposes nothing.                            *)
SecondPassIsEmpty ==
    \A label \in Labels : \A p \in proposedLabel(label, assessPoem(poem.body)) :
        proposedLabel(p, assessPoem(poem.body)) = {}

(* All four: verdicts do not contradict the layout, anchors are recalled,  *)
(* and what is applied is calibrated and applied once.                     *)
VerdictsAreSound ==
    LayoutNeverContradicts /\ AnchorsAreRecalled /\ AppliedIsCalibrated /\ SecondPassIsEmpty
=============================================================================
