---------------------------- MODULE FilterValues ---------------------------
(***************************************************************************)
(* The values of the search filters (apps/web/src/lib/search/              *)
(* csv-filters.ts) and what choosing an option of the multi-select does to *)
(* them (components/ui-extended/select.tsx).  A value is the sequence of   *)
(* slugs between the commas of one URL parameter.                          *)
(***************************************************************************)
EXTENDS Ranked, SequencesExt

AllOption == "__all__"
Blanks == {"", " "}

(* Lists of options, none of them twice.                                    *)
ListsOf(options) ==
    {list \in Seq(ToSet(options)) : \A i, j \in 1..Len(list) : list[i] = list[j] => i = j}

Without(slugs, dropped) == ElementsAt(slugs, {i \in DOMAIN slugs : slugs[i] \notin dropped})
splitCsvIds(csv) == Without(csv, Blanks)
joinCsvIds(slugs) == splitCsvIds(slugs)     \* the setter drops the same entries

Displayed(options) == <<AllOption>> \o options

(* MUTANT: an option is added without asking whether it is there.           *)
AddedAgain(selected, options, every, choice) ==
    IF choice = AllOption THEN IF every THEN options ELSE <<>> ELSE Append(selected, choice)
toggleOption(selected, options, every, choice) ==
    IF choice = AllOption THEN IF every THEN options ELSE <<>>
    ELSE IF choice \in ToSet(selected) THEN Without(selected, {choice})
    ELSE Append(selected, choice)

isAllSelected(selected, options, every) ==
    IF every THEN Len(selected) = Len(options) ELSE selected = <<>>
=============================================================================
