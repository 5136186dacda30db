------------------------------- MODULE Settings ----------------------------
(***************************************************************************)
(* The reading settings (apps/web/src/lib/settings), which every tab keeps *)
(* a copy of: a JSON record in localStorage, patched by whichever tab      *)
(* changes one of them, and announced to the others by storage events.     *)
(*                                                                         *)
(* `stored` is the text under the key: "none", "corrupt", the record with  *)
(* the fields it has, or "denied" where nothing can be read or written.    *)
(* Any other write may fail as well (the store is full), and nobody is     *)
(* told.  A version before this one kept the theme alone under a key of    *)
(* its own, `legacy`, which is only read.                                  *)
(***************************************************************************)
EXTENDS Integers

CONSTANTS SettingsTabs, Legacy, Stored, MaxChanges,
          FontScaleMin, FontScaleMax   \* in tenths; the step is one

(* A store holds nothing, something that is no record, or a record, or is   *)
(* denied; the default scale of the text is one of those there are.         *)
ASSUME SettingsConstants ==
    /\ FontScaleMin \in Int /\ FontScaleMax \in Int /\ 10 \in FontScaleMin..FontScaleMax
    /\ MaxChanges \in Nat
    /\ \A text \in Stored : text.raw \in {"none", "corrupt", "denied", "record"}

VARIABLES stored, legacy, copy, events, changes, wanted
settingsVars == <<stored, legacy, copy, events, changes, wanted>>

Themes == {"system", "light", "dark"}
Scales == FontScaleMin..FontScaleMax
DEFAULT_SETTINGS == [theme |-> "system", poemFontScale |-> 10]
NoCopy == [theme |-> "unread"]

(* Only a valid value of a field is taken.                                  *)
pick(valid, text, field, fallback) ==
    IF field \in DOMAIN text /\ text[field] \in valid THEN text[field] ELSE fallback
Unreadable(raw) == raw \in {"none", "corrupt", "denied"}
toRecord(text) == IF Unreadable(text.raw) THEN <<>> ELSE text.fields

parseSettings(text, old) ==
    IF Unreadable(text.raw)
    THEN [DEFAULT_SETTINGS EXCEPT !.theme = IF old \in {"light", "dark"} THEN old ELSE @]
    ELSE [theme |-> pick(Themes, text.fields, "theme", DEFAULT_SETTINGS.theme),
          poemFontScale |-> pick(Scales, text.fields, "poemFontScale", DEFAULT_SETTINGS.poemFontScale)]

(* { ...fields, ...patch }                                                  *)
Spread(fields, patch) ==
    [field \in DOMAIN fields \cup DOMAIN patch |->
        IF field \in DOMAIN patch THEN patch[field] ELSE fields[field]]

(* What is stored is patched, not replaced: fields of a later version stay. *)
(* MUTANT: the tab's whole copy is written.                                 *)
WholeCopy(text, patch, mine) == Spread(Spread(mine, patch), [v |-> 1])
serializeSettings(text, patch, mine) ==
    LET version == IF "v" \in DOMAIN toRecord(text) THEN toRecord(text).v ELSE 0
    IN  Spread(Spread(toRecord(text), patch), [v |-> IF version > 1 THEN version ELSE 1])

clampFontScale(scale) ==
    IF scale < FontScaleMin THEN FontScaleMin ELSE IF scale > FontScaleMax THEN FontScaleMax ELSE scale

-----------------------------------------------------------------------------
(* What a tab has of its own: the settings it has read or changed, the theme*)
(* its page is painted with, and (only remembered) the fields of which its  *)
(* last write failed.                                                       *)
Fresh(theme) == [read |-> NoCopy, theme |-> theme, unsaved |-> {}]

SettingsInit ==
    /\ legacy \in Legacy /\ stored \in Stored
    /\ stored.raw = "denied" => legacy = "none"
    /\ copy = [tab \in SettingsTabs |-> Fresh(parseSettings(stored, legacy).theme)]
    /\ events = [tab \in SettingsTabs |-> 0]
    /\ changes = 0
    /\ wanted = parseSettings(stored, legacy)

(* getSettings *)
Settings(tab) == IF copy[tab].read = NoCopy THEN parseSettings(stored, legacy) ELSE copy[tab].read

(* updateSettings: the copy, the store, the page's theme; the other tabs    *)
(* hear of it later, if the store has changed.  safeSet swallows the error  *)
(* of a write that fails: the tab goes on with what the store does not have.*)
update(tab, patch, saved) ==
    /\ changes < MaxChanges /\ changes' = changes + 1
    /\ saved => stored.raw # "denied"
    /\ stored' = IF saved
                 THEN [raw |-> "record", fields |-> serializeSettings(stored, patch, Settings(tab))]
                 ELSE stored
    /\ copy' = [copy EXCEPT ![tab] =
                   [read |-> Spread(Settings(tab), patch),
                    theme |-> IF "theme" \in DOMAIN patch THEN patch.theme ELSE @.theme,
                    unsaved |-> IF saved THEN @.unsaved \ DOMAIN patch
                                ELSE @.unsaved \cup DOMAIN patch]]
    /\ events' = [other \in SettingsTabs |->
                     IF other = tab \/ stored' = stored THEN events[other] ELSE events[other] + 1]
    /\ wanted' = IF saved THEN Spread(wanted, patch) ELSE wanted
    /\ UNCHANGED legacy
updateSettings(tab, patch) == \E saved \in BOOLEAN : update(tab, patch, saved)

ChooseTheme(tab) == \E theme \in Themes : updateSettings(tab, [theme |-> theme])
(* stepScale: a button is disabled at its end of the scale.                 *)
StepScale(tab) ==
    \E delta \in {-1, 1} :
        /\ Settings(tab).poemFontScale # (IF delta < 0 THEN FontScaleMin ELSE FontScaleMax)
        /\ updateSettings(tab, [poemFontScale |-> clampFontScale(Settings(tab).poemFontScale + delta)])
ResetScale(tab) ==
    /\ Settings(tab).poemFontScale # DEFAULT_SETTINGS.poemFontScale
    /\ updateSettings(tab, [poemFontScale |-> DEFAULT_SETTINGS.poemFontScale])

Forget(c) == Fresh(c.theme)
(* The storage event: the copy is dropped, to be read again, and with it    *)
(* what could not be saved; the page keeps the theme it is painted with.    *)
StorageEvent(tab) ==
    /\ events[tab] > 0
    /\ events' = [events EXCEPT ![tab] = @ - 1]
    /\ copy' = [copy EXCEPT ![tab] = Forget(@)]
    /\ UNCHANGED <<stored, legacy, changes, wanted>>

(* A page is loaded: theme-init paints it with the stored theme.            *)
Load(tab) ==
    /\ copy' = [copy EXCEPT ![tab] = Fresh(parseSettings(stored, legacy).theme)]
    /\ events' = [events EXCEPT ![tab] = 0]
    /\ UNCHANGED <<stored, legacy, changes, wanted>>

SettingsNext ==
    \E tab \in SettingsTabs :
        \/ ChooseTheme(tab) \/ StepScale(tab) \/ ResetScale(tab) \/ StorageEvent(tab) \/ Load(tab)

SettingsSpec == SettingsInit /\ [][SettingsNext]_settingsVars

-----------------------------------------------------------------------------
(* The store holds the last value chosen of each setting, in whichever tab, *)
(* of those whose write did not fail: two tabs with old copies never undo   *)
(* each other's changes, nor does a tab that has choices it could not save. *)
NoChoiceIsUndone ==
    legacy = "none" => parseSettings(stored, legacy) = wanted

(* Once the storage events are in, every tab has the settings that are      *)
(* stored, except for those it has itself failed to store since it last read*)
(* them (they last until the next storage event or page); and its settings  *)
(* are within their bounds.                                                 *)
TabsAgree ==
    \A tab \in SettingsTabs :
        /\ Settings(tab).theme \in Themes /\ Settings(tab).poemFontScale \in Scales
        /\ events[tab] = 0 /\ legacy = "none" =>
              \A field \in DOMAIN DEFAULT_SETTINGS \ copy[tab].unsaved :
                 Settings(tab)[field] = parseSettings(stored, legacy)[field]

(* Both: no stored choice is undone by another tab, and tabs that have     *)
(* heard of each other agree on what is stored.                            *)
SettingsAgree == NoChoiceIsUndone /\ TabsAgree

(* settings-schema.test.ts:67, "migrates the legacy theme key when no       *)
(* settings object exists yet": the theme a user chose before settings      *)
(* existed is the theme until another is chosen.                            *)
LegacyThemeIsMigrated == parseSettings(stored, legacy).theme = wanted.theme
=============================================================================
