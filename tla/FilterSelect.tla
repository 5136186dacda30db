---------------------------- MODULE FilterSelect ---------------------------
(***************************************************************************)
(* The multi-select of the search filters                                  *)
(* (apps/web/src/components/ui-extended/select.tsx), by mouse and keyboard.*)
(*                                                                         *)
(* While the list is open a listener on the window handles keys; the       *)
(* combobox handles Enter and Space itself, first, by opening or closing.  *)
(* Whether the page is drawn again between the two decides whether the     *)
(* window's listener is there when the key reaches it: `flushed` is either.*)
(***************************************************************************)
EXTENDS FilterValues

CONSTANTS SelectOptions, EveryMode, MaxPresses

(* The options of a filter are the slugs of its index, each of them once.   *)
ASSUME SelectConstants ==
    /\ SelectOptions \in ListsOf(SelectOptions) /\ EveryMode \subseteq BOOLEAN
    /\ ToSet(SelectOptions) \cap (Blanks \cup {AllOption}) = {}

VARIABLE select
selectVars == <<select>>

SelectInit ==
    \E every \in EveryMode :
        select = [value |-> <<>>, open |-> FALSE, at |-> 1, every |-> every, keys |-> 0]

Listed == Displayed(SelectOptions)
Choose(option) == joinCsvIds(toggleOption(select.value, SelectOptions, select.every, option))

Below(n) == (n % Len(Listed)) + 1
Above(n) == ((n + Len(Listed) - 2) % Len(Listed)) + 1

Pressed(step) == select.keys < MaxPresses /\ step

ClickBox == select' = [select EXCEPT !.open = ~@, !.keys = @ + 1]
ClickOutside == select.open /\ select' = [select EXCEPT !.open = FALSE, !.keys = @ + 1]
ClickOption(n) ==
    /\ select.open
    /\ select' = [select EXCEPT !.value = Choose(Listed[n]), !.at = n, !.keys = @ + 1]
Hover(n) == select.open /\ select' = [select EXCEPT !.at = n, !.keys = @ + 1]
Clear ==
    /\ select.value # <<>>
    /\ select' = [select EXCEPT !.value = <<>>, !.keys = @ + 1]
Arrow(to) == select.open /\ select' = [select EXCEPT !.at = to, !.keys = @ + 1]
Escape == select.open /\ select' = [select EXCEPT !.open = FALSE, !.keys = @ + 1]

(* Enter or Space on the box: the box opens or closes; the window's listener*)
(* chooses the highlighted option if it is installed when the key arrives.  *)
Press(flushed) ==
    LET heard == IF flushed THEN ~select.open ELSE select.open
    IN  select' = [select EXCEPT !.open = ~@, !.keys = @ + 1,
                                 !.value = IF heard THEN Choose(Listed[select.at]) ELSE @]

(* The same keys with the focus on the list: the window's listener only.    *)
PressElsewhere ==
    /\ select.open
    /\ select' = [select EXCEPT !.value = Choose(Listed[select.at]), !.keys = @ + 1]

SelectNext ==
    \/ Pressed(ClickBox) \/ Pressed(ClickOutside) \/ Pressed(Clear) \/ Pressed(Escape)
    \/ Pressed(Arrow(Below(select.at))) \/ Pressed(Arrow(Above(select.at))) \/ Pressed(PressElsewhere)
    \/ \E n \in DOMAIN Listed : Pressed(ClickOption(n)) \/ Pressed(Hover(n))
    \/ \E flushed \in BOOLEAN : Pressed(Press(flushed))

SelectSpec == SelectInit /\ [][SelectNext]_selectVars

(* The highlight stays on the list, whatever the order of keys and mouse.   *)
HighlightOnTheList == select.at \in DOMAIN Listed

(* What is chosen is a list of options, none twice: the entry for all of    *)
(* them is never chosen as if it were one, and the count the box shows is   *)
(* the number of options chosen.                                            *)
ChosenAreOptions ==
    /\ ToSet(select.value) \subseteq ToSet(SelectOptions)
    /\ Len(select.value) = Cardinality(ToSet(select.value))

(* The entry for all of them is marked exactly when every option is chosen, *)
(* for the eras, or none, for the other filters: the code compares lengths. *)
AllMarkedRightly ==
    isAllSelected(select.value, SelectOptions, select.every) <=>
        IF select.every THEN ToSet(select.value) = ToSet(SelectOptions) ELSE select.value = <<>>

(* All three: the highlight is on the list, what is chosen is an option, and*)
(* the entry for all is marked when, and only when, all are chosen.        *)
MenuIsRight == HighlightOnTheList /\ ChosenAreOptions /\ AllMarkedRightly
=============================================================================
