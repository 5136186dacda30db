---------------------------- MODULE SearchQuery ----------------------------
(***************************************************************************)
(* The query string of GET /v1/search: how the API reads it                *)
(* (apps/api/src/query.rs, routes/search.rs, slug.rs) and how the smoke    *)
(* run writes one (scripts/smoke/checks.ts).                               *)
(*                                                                         *)
(* A query is a sequence of decoded parameters, each a name, a form        *)
(* (name=, name[]=, name[i]=, name[x]=), the index of an indexed one and a *)
(* value.  A value is the text itself; the tables say what a parser can    *)
(* tell of the texts in use.  Every rejection is the same 400, so a        *)
(* rejected query is one that satisfies a disjunct, in any order.          *)
(***************************************************************************)
EXTENDS Ranked, SequencesExt

CONSTANTS
    Transliterated,  \* texts: those that are transliterated slugs
    OverFiftyUnits,  \* those of more than MAX_QUERY_LENGTH units, of which the browser and
                     \* the API count the same
    Decimals         \* function: those that are decimal numbers -> the number

ASSUME DecimalsAreNumbers == \A t \in DOMAIN Decimals : Decimals[t] \in Nat

SearchTypes == {"poems", "poets"}
FourLetters == {"yoFB"}

MaxFilterSlugs == 100
SearchPerPage == 20
ResultWindow == 10000
MaxPage == ResultWindow \div SearchPerPage

-----------------------------------------------------------------------------
(* The parser: what one name holds.                                         *)
Values(query, name, form) ==
    LET of == ElementsAt(query, {i \in DOMAIN query : query[i].name = name /\ query[i].form = form})
    IN  [i \in DOMAIN of |-> of[i].value]
ValuesAt(query, name, index) ==
    LET of == ElementsAt(query, {i \in DOMAIN query : /\ query[i].name = name
                                                      /\ query[i].form = "indexed"
                                                      /\ query[i].index = index})
    IN  [i \in DOMAIN of |-> of[i].value]

Entry(query, name) ==
    [bare |-> Values(query, name, "bare"), appended |-> Values(query, name, "appended"),
     indexed |-> [i \in {query[n].index : n \in {m \in DOMAIN query :
                            query[m].name = name /\ query[m].form = "indexed"}}
                    |-> ValuesAt(query, name, i)],
     object |-> Values(query, name, "object") # <<>>]

Parse(query) ==
    [q |-> Entry(query, "q"), types |-> Entry(query, "types"), exact |-> Entry(query, "exact"),
     poemsPage |-> Entry(query, "poemsPage"), poetsPage |-> Entry(query, "poetsPage"),
     eraSlugs |-> Entry(query, "eraSlugs"), meterSlugs |-> Entry(query, "meterSlugs"),
     rhymeSlugs |-> Entry(query, "rhymeSlugs"), themeSlugs |-> Entry(query, "themeSlugs"),
     collectionSlugs |-> Entry(query, "collectionSlugs"), poetSlugs |-> Entry(query, "poetSlugs")]

Indexes(entry) == DOMAIN entry.indexed

(* MUTANT: the first value of an index wins.                                *)
FirstValueWins(entry) ==
    \/ entry.object
    \/ /\ Indexes(entry) # {}
       /\ \/ entry.appended # <<>> \/ entry.bare # <<>>
          \/ Indexes(entry) # 0 .. Cardinality(Indexes(entry)) - 1
ArrayMalformed(entry) ==
    \/ entry.object
    \/ /\ Indexes(entry) # {}
       /\ \/ entry.appended # <<>> \/ entry.bare # <<>>
          \/ \E i \in Indexes(entry) : Len(entry.indexed[i]) # 1
          \/ Indexes(entry) # 0 .. Cardinality(Indexes(entry)) - 1

Array(entry) ==
    IF Indexes(entry) # {}
    THEN [n \in 1..Cardinality(Indexes(entry)) |-> entry.indexed[n - 1][1]]
    ELSE IF entry.appended # <<>> THEN entry.appended ELSE entry.bare

ScalarMalformed(entry) ==
    entry.object \/ entry.appended # <<>> \/ Indexes(entry) # {} \/ Len(entry.bare) > 1
Given(entry) == entry.bare # <<>>
Scalar(entry) == entry.bare[1]

(* The readers of the handler, each with what it rejects.                   *)
TextRejected(entry) ==
    ScalarMalformed(entry) \/ (Given(entry) /\ Scalar(entry) \in OverFiftyUnits)
TypesRejected(entry) ==
    \/ ArrayMalformed(entry)
    \/ Len(Array(entry)) > Cardinality(SearchTypes)
    \/ ToSet(Array(entry)) \ SearchTypes # {}
TypesOf(entry) == IF Array(entry) = <<>> THEN SearchTypes ELSE ToSet(Array(entry))
BooleanRejected(entry) ==
    ScalarMalformed(entry) \/ (Given(entry) /\ Scalar(entry) \notin {"true", "false"})
BooleanOf(entry) == Given(entry) /\ Scalar(entry) = "true"

PageRejected(entry) ==
    \/ ScalarMalformed(entry)
    \/ Given(entry) /\ Scalar(entry) \notin DOMAIN Decimals
    \/ Given(entry) /\ Decimals[Scalar(entry)] > MaxPage
PageOf(entry) == IF Given(entry) THEN Decimals[Scalar(entry)] ELSE 1

FacetRejected(entry, valid) ==
    \/ ArrayMalformed(entry)
    \/ Len(Array(entry)) > MaxFilterSlugs
    \/ ToSet(Array(entry)) \ valid # {}

PoemOnly == {"meterSlugs", "rhymeSlugs", "themeSlugs", "collectionSlugs"}

FiltersPoetsByPoems(entries) ==
    /\ "poets" \in TypesOf(entries.types)
    /\ \E name \in PoemOnly : Array(entries[name]) # <<>>

(* The handler of the route.                                                *)
Rejected(entries) ==
    \/ TextRejected(entries.q) \/ TypesRejected(entries.types)
    \/ PageRejected(entries.poemsPage) \/ PageRejected(entries.poetsPage)
    \/ BooleanRejected(entries.exact)
    \/ FacetRejected(entries.poetSlugs, FourLetters)
    \/ \E name \in PoemOnly \cup {"eraSlugs"} : FacetRejected(entries[name], Transliterated)
    \/ FiltersPoetsByPoems(entries)

(* The search engine fails what reaches past its result window.             *)
PastWindow(entries, type, page) ==
    type \in TypesOf(entries.types) /\ PageOf(page) * SearchPerPage > ResultWindow

Handle(entries) ==
    IF Rejected(entries) THEN 400
    ELSE IF \/ PastWindow(entries, "poems", entries.poemsPage)
            \/ PastWindow(entries, "poets", entries.poetsPage)
         THEN 500 ELSE 200

(* One parsed query, one reply (the set has TLC parse once).                *)
Response(query) == CHOOSE reply \in {Handle(entries) : entries \in {Parse(query)}} : TRUE

-----------------------------------------------------------------------------
(* The writer of the smoke run: scalars bare, lists indexed from zero, in   *)
(* the order the function names them; what a probe leaves out is left out.  *)
Bare(name, value) == [name |-> name, form |-> "bare", index |-> 0, value |-> value]
Appended(name, value) == [name |-> name, form |-> "appended", index |-> 0, value |-> value]
Indexed(name, i, value) == [name |-> name, form |-> "indexed", index |-> i, value |-> value]
Object(name, value) == [name |-> name, form |-> "object", index |-> 0, value |-> value]

Scalars == {"q", "exact", "poemsPage", "poetsPage", "extra"}
NameOrder == <<"q", "types", "exact", "poemsPage", "poetsPage", "eraSlugs", "meterSlugs",
               "rhymeSlugs", "themeSlugs", "collectionSlugs", "poetSlugs", "extra">>

SearchUrl(params) ==
    LET Part(name) ==
            IF name \notin DOMAIN params THEN <<>>
            ELSE IF name \in Scalars THEN << Bare(name, params[name]) >>
            ELSE [i \in DOMAIN params[name] |-> Indexed(name, i - 1, params[name][i])]
    IN  FlattenSeq([i \in DOMAIN NameOrder |-> Part(NameOrder[i])])
=============================================================================
