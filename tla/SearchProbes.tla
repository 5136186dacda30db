---------------------------- MODULE SearchProbes ---------------------------
(***************************************************************************)
(* The search probes of the smoke run (scripts/smoke/probes/search.ts) and *)
(* its differentials (probes/http-shape.ts), sent one at a time to the     *)
(* parser of SearchQuery, and hand-made requests over the forms a list may *)
(* take.  A probe is a query and the replies its expectation accepts.      *)
(***************************************************************************)
EXTENDS SearchQuery

Ok(params) == [query |-> SearchUrl(params), accepts |-> {200}]
ClientError(params) == [query |-> SearchUrl(params), accepts |-> {400}]
Healthy(query) == [query |-> query, accepts |-> {200, 400}]
Raw(query, accepts) == [query |-> query, accepts |-> accepts]

Love == [q |-> "love"]
LovePoems == Love @@ [types |-> <<"poems">>]
Copies(n, slug) == [i \in 1..n |-> slug]

searchOkProbes == {
    Ok(Love), Ok(LovePoems), Ok(Love @@ [types |-> <<"poets">>]),
    Ok(Love @@ [exact |-> "false"]), Ok(Love @@ [exact |-> "true"]),
    Ok(Love @@ [eraSlugs |-> <<"jahili">>]),
    Ok(Love @@ [eraSlugs |-> <<"jahili", "abbasi", "umawi">>]),
    Ok(LovePoems @@ [meterSlugs |-> <<"albasit">>]),
    Ok(LovePoems @@ [rhymeSlugs |-> <<"meem">>]),
    Ok(LovePoems @@ [themeSlugs |-> <<"almadih">>]),
    Ok(LovePoems @@ [collectionSlugs |-> <<"almuallaqat">>]),
    Ok([types |-> <<"poems">>, eraSlugs |-> <<"jahili">>, meterSlugs |-> <<"albasit">>]),
    Ok(LovePoems @@ [exact |-> "true", eraSlugs |-> <<"abbasi">>, meterSlugs |-> <<"albasit">>,
                     rhymeSlugs |-> <<"meem">>, themeSlugs |-> <<"almadih">>, poemsPage |-> "2"]),
    Ok(Love @@ [poemsPage |-> "3", poetsPage |-> "2"]),
    Ok(Love @@ [poemsPage |-> "500"]), Ok(Love @@ [poetsPage |-> "500", types |-> <<"poets">>]),
    Ok([q |-> "50 letters"]), Ok(Love @@ [extra |-> "bar"]), Raw(<<>>, {200}),
    Ok(LovePoems @@ [poetSlugs |-> <<"yoFB">>]),
    ClientError(Love @@ [types |-> <<"poets">>, meterSlugs |-> <<"albasit">>]),
    ClientError([types |-> <<"poets", "poems">>, rhymeSlugs |-> <<"meem">>]),
    Ok(Love @@ [types |-> <<"poems", "poems">>]), Ok([q |-> "blanks"]),
    Ok(Love @@ [eraSlugs |-> Copies(MaxFilterSlugs, "jahili")]) }

searchSemanticEdgeProbes == {
    ClientError(Love @@ [exact |-> "maybe"]), ClientError(Love @@ [exact |-> "True"]),
    Ok(LovePoems @@ [poetsPage |-> "2"]), Ok(Love @@ [eraSlugs |-> <<"jahili", "jahili">>]) }

searchUnicodeProbes ==
    {Ok([q |-> t]) : t \in {"voweled", "elongated", "joined", "mixed scripts", "25 emoji"}}
    \cup {Healthy(SearchUrl([q |-> t])) :
             t \in {"marks only", "26 emoji", "a letter and 51 marks", "overridden", "marked",
                    "ligature", "with a nul"}}

searchEncodingProbes ==
    {Healthy(<<Bare("q", t)>>) : t \in {"%", "%zz", "cut off", "controls", ""}}
    \cup {Raw(<<Bare("q", t)>>, {200}) : t \in {"%20", "a b", ""}}
    \cup {Raw(<<>>, {200}), Healthy(<<Bare("q", "love"), Bare("q", "fire")>>),
          Healthy(<<Bare("unknown", "x")>>)}

searchArrayDecoderProbes ==
    {Healthy(<<Bare("q", "love")>> \o list) : list \in {
        <<Indexed("eraSlugs", 1000000, "jahili")>>,
        <<Indexed("types", 1, "poems"), Indexed("types", 0, "poets")>>,
        <<Indexed("types", 0, "poems"), Indexed("types", 0, "poets")>>,
        <<Indexed("types", 0, "poems"), Indexed("types", 5, "poets")>>,
        <<Object("eraSlugs", "jahili")>>, <<Appended("eraSlugs", "jahili")>>}}
    \cup {Healthy(<<Indexed("q", 0, "love")>>)}

searchPageCoercionProbes ==
    {Healthy(SearchUrl(Love @@ [poemsPage |-> t])) :
        t \in {"007", "+5", "5.0", "1e2", "0x10", " 5 ", "Arabic 2", "-0"}}
    \cup {ClientError(Love @@ [poemsPage |-> "99999999999999999999"])}

searchAbsentSlugProbes ==
    {Ok(Love @@ [eraSlugs |-> <<t>>]) : t \in {"a", "a--b", "jahili-"}}
    \cup {Ok(LovePoems @@ [meterSlugs |-> <<"zzzzz">>]),
          ClientError(Love @@ [themeSlugs |-> <<"">>]),
          ClientError(Love @@ [eraSlugs |-> <<"jahili", "JAHILI">>])}

searchRejectProbes ==
    {ClientError(Love @@ [poemsPage |-> t]) : t \in {"0", "501", "abc", "1.5"}}
    \cup {ClientError(Love @@ [poetsPage |-> t]) : t \in {"501", "-5"}}
    \cup {ClientError(Love @@ [types |-> t]) : t \in {<<"banana">>, <<"poems", "poets", "poems">>}}
    \cup {ClientError(Love @@ [eraSlugs |-> t]) :
             t \in {<<"JAHILI">>, Copies(MaxFilterSlugs + 1, "jahili"), <<"-jahili">>}}
    \cup {ClientError(Love @@ [meterSlugs |-> <<"meter1">>]), ClientError([q |-> "51 letters"]),
          ClientError(Love @@ [types |-> <<"poets">>, poemsPage |-> "501"])}

Probes == searchOkProbes \cup searchSemanticEdgeProbes \cup searchUnicodeProbes
    \cup searchEncodingProbes \cup searchArrayDecoderProbes \cup searchPageCoercionProbes
    \cup searchAbsentSlugProbes \cup searchRejectProbes

(* Pairs of queries that must not come to the same search: page, era, exact.*)
differentials == {
    <<SearchUrl(LovePoems @@ [poemsPage |-> "1"]), SearchUrl(LovePoems @@ [poemsPage |-> "2"])>>,
    <<SearchUrl(LovePoems), SearchUrl(LovePoems @@ [eraSlugs |-> <<"jahili">>])>>,
    <<SearchUrl(LovePoems @@ [exact |-> "true"]), SearchUrl(LovePoems @@ [exact |-> "false"])>> }

(* Hand-made lists of eras: one to three values in any mixture of forms.    *)
EraParams == {Bare("eraSlugs", "abbasi"), Appended("eraSlugs", "umawi"), Object("eraSlugs", "jahili")}
             \cup {Indexed("eraSlugs", i, t) : i \in 0..2, t \in {"jahili", "abbasi"}}
Lists == UNION {[1..n -> EraParams] : n \in 1..3}

-----------------------------------------------------------------------------
VARIABLE request
requestVars == <<request>>

NoRequest == [query |-> <<>>, accepts |-> {200}, reply |-> 0]
Init == request = NoRequest
Send(probe) == request' = probe @@ [reply |-> Response(probe.query)]
SendProbe == \E probe \in Probes : Send(probe)
SendList == \E list \in Lists : Send(Healthy(list))
SendDifferential == \E pair \in differentials, n \in {1, 2} : Send(Raw(pair[n], {200}))

ProbesNext == request = NoRequest /\ (SendProbe \/ SendList \/ SendDifferential)

(* Every probe of the smoke run gets a reply its expectation accepts: the   *)
(* expectations written beside the probes are what the parser does, and no  *)
(* page that it lets through reaches past the engine's window.              *)
ProbesAgree == request.reply = 0 \/ request.reply \in request.accepts

(* An indexed list that is accepted lost nothing on the way: as many values *)
(* as were sent, each at the index it was sent under, whatever the order.   *)
IndexedListsAreWhole ==
    LET sent == SelectSeq(request.query, LAMBDA p : p.name = "eraSlugs" /\ p.form = "indexed")
        read == Array(Entry(request.query, "eraSlugs"))
    IN  request.reply = 200 /\ sent # <<>> =>
            /\ Len(read) = Len(sent)
            /\ \A n \in DOMAIN sent : read[sent[n].index + 1] = sent[n].value

(* What the engine is asked for.                                            *)
Search(query) ==
    [page |-> PageOf(Entry(query, "poemsPage")), eras |-> Array(Entry(query, "eraSlugs")),
     exact |-> BooleanOf(Entry(query, "exact"))]

(* The two queries of a differential are two searches: a parameter is not   *)
(* validated and then dropped.                                              *)
DifferentialsDiffer ==
    \A pair \in differentials :
        request.query = pair[1] => Search(request.query) # Search(pair[2])

(* All three: the parser takes a query as the probes of the smoke run say, *)
(* lists of the URL lose no value, and the differentials are told apart.   *)
QueriesAreUnderstood == ProbesAgree /\ IndexedListsAreWhole /\ DifferentialsDiffer
=============================================================================
