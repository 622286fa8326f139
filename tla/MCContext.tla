------------------------------ MODULE MCContext ------------------------------
(***************************************************************************)
(* An instance of ContextService for TLC: two knowledge bases, one with    *)
(* roads and their speed, the other with one of several views of speed.    *)
(***************************************************************************)
EXTENDS ContextProperties, TLC

CONSTANTS kb1, kb2

MCLabelOrder == <<"pace", "road", "speed">>

Concept(domain, label, aliases, sources) ==
  [id |-> ConceptId(domain, label), label |-> label, aliases |-> aliases, sources |-> sources]

Ontology(domain, classes, properties) ==
  [domain |-> domain,
   terms  |-> [k \in Kinds |-> CASE k = "class"    -> classes
                                 [] k = "property" -> properties
                                 [] k = "relation" -> {}]]

Road     == Concept("traffic", "road", {}, <<>>)
Speed    == Concept("traffic", "speed", {"velocity"}, <<>>)
Roads    == Ontology("traffic", {Road}, {Speed})

(* The other base: the same concept with live data preferred, under the    *)
(* same or another label; another concept of that name; a source that no   *)
(* retriever is known for.                                                 *)
LiveSpeed == [Speed EXCEPT !.sources = <<"business_data", "wiki_rag">>]
Live      == Ontology("traffic", {}, {LiveSpeed})
Renamed   == Ontology("traffic", {}, {[LiveSpeed EXCEPT !.label = "pace"]})
Other     == Ontology("sport", {}, {Concept("sport", "speed", {}, <<"crm", "wiki_rag">>)})

MCOntologies == [kb \in {kb1, kb2} |-> IF kb = kb1 THEN {Roads} ELSE {Live, Renamed, Other}]
MCScopes     == {<<kb1, kb2>>, <<kb2>>}

Ask1(words, cues) == [words |-> words, cues |-> cues]
MCQuestions ==
  {Ask1(w, c) : w \in {{"speed"}, {"road", "pace"}, {"velocity"}},
                c \in {{}, {"current"}, {"current", "reason"}}}
    \cup {Ask1({"speed"}, {"definition"}), Ask1({"speed"}, {"schema"}), Ask1({}, {}), Ask1({"speed", "pace"}, {}),
          Ask1({"speed"}, {"metric", "complex"})}

MCOneScope    == {<<kb2>>}
MCOneQuestion == {Ask1({"speed"}, {"current", "reason"})}

(* What the servers know of one road, a30.                                 *)
Node(props) == [id |-> "a30", label |-> "a30", words |-> {"road", "speed"}, props |-> props]
View(nodes, edges) == [nodes |-> nodes, edges |-> edges, down |-> FALSE]
MCViews == {View(<<>>, {}), View(<<Node(<< <<"speed", 50>> >>)>>, {})}

Fact(id, value, confidence, valid, scope) ==
  [id |-> <<"a30", <<id, value>>>>, slot |-> Slot("a30", Speed.id), value |-> value, source |-> "", authority |-> 0,
   confidence |-> confidence, valid |-> valid, scope |-> scope, supersedes |-> {}]

North == "side" :> "north"
South == "side" :> "south"
MCReplies ==
  {<<>>, <<Fact("f1", 70, 0, TRUE, North)>>, <<Fact("f1", 70, 40, TRUE, <<>>)>>,
   <<Fact("f1", 70, 0, FALSE, <<>>)>>, <<Fact("f1", 70, 0, TRUE, North), Fact("f2", 90, 90, TRUE, <<>>)>>}
MCScopedReplies ==
  {<<Fact("f1", 70, 0, TRUE, North), Fact("f2", 90, 0, TRUE, South)>>}

MCOverlay == "road" :> [aliases |-> {"street"}, sources |-> <<"entity_graph">>]
MCWiki   == {{}, {<<kb2, <<"manual", "page">>>>}}
MCCaller == "workspace_id" :> "w1"
=============================================================================
