---------------------------- MODULE GraphParser ----------------------------
(***************************************************************************)
(* OwningGraph::parse of src/graph/parse.rs, and the owner who takes the   *)
(* graph it returns, maps its payloads and edits it.  A line is a sequence *)
(* of tokens: name characters, blanks, brackets and the arrow.  Names and  *)
(* payloads are pieces of lines.                                           *)
(***************************************************************************)
EXTENDS OwningGraph, SequencesExt

CONSTANTS
    Sources,    \* the texts explored, as sequences of lines
    None        \* no payload

ASSUME SourcesAssumption == \A s \in Sources : s \in Seq(Seq(STRING))

VARIABLES
    source,     \* the lines of the text, until the graph is taken
    phase,      \* "line", inside an edge line "target" and "edge", "parsed",
                \* or the kind of the error, and "owned" once the graph is taken
    at,         \* the number of the current line
    node_ids    \* name -> node id

parser == <<source, phase, at, node_ids>>
vars == <<graph, parser>>

-----------------------------------------------------------------------------
trim(s) ==
    LET K == {i \in DOMAIN s : s[i] # " "}
    IN IF K = {} THEN <<>> ELSE SubSeq(s, Min(K), Max(K))

Invalid == [ok |-> FALSE, name |-> <<>>, payload |-> None]
Declared(name, payload) == [ok |-> TRUE, name |-> name, payload |-> payload]

\* Fault: the closing bracket is not asked for.
parse_declarationOpen(input) ==
    LET trimmed == trim(input)
        split == Min({i \in DOMAIN trimmed : trimmed[i] \in {" ", "["}} \cup {Len(trimmed) + 1})
        trailing == trim(SubSeq(trimmed, split, Len(trimmed)))
        payload == trim(SubSeq(trailing, 2, Len(trailing) - 1))
    IN IF split = 1 THEN Invalid
       ELSE IF trailing = <<>> THEN Declared(SubSeq(trimmed, 1, split - 1), None)
       ELSE IF trailing[1] # "[" \/ payload = <<>> THEN Invalid
       ELSE Declared(SubSeq(trimmed, 1, split - 1), payload)

parse_declaration(input) ==
    LET trimmed == trim(input)
        split == Min({i \in DOMAIN trimmed : trimmed[i] \in {" ", "["}} \cup {Len(trimmed) + 1})
        trailing == trim(SubSeq(trimmed, split, Len(trimmed)))
        payload == trim(SubSeq(trailing, 2, Len(trailing) - 1))
    IN IF split = 1 THEN Invalid
       ELSE IF trailing = <<>> THEN Declared(SubSeq(trimmed, 1, split - 1), None)
       ELSE IF trailing[1] # "[" \/ Last(trailing) # "]" \/ payload = <<>> THEN Invalid
       ELSE Declared(SubSeq(trimmed, 1, split - 1), payload)

parse_identifier(input) ==
    LET d == parse_declaration(input) IN IF d.payload = None THEN d ELSE Invalid

\* The first arrow splits a line.
FirstArrow(line) == SelectInSeq(line, LAMBDA t : t = "->")

Line == trim(source[at])
Arrow == FirstArrow(Line)
From == parse_identifier(SubSeq(Line, 1, Arrow - 1))
To == parse_declaration(SubSeq(Line, Arrow + 1, Len(Line)))

\* Fault: the payload of a node that is known is dropped.
ensure_nodeOnce(name, explicit) ==
    IF Has(node_ids, name)
    THEN UNCHANGED <<graph, node_ids>>
    ELSE /\ make_node(IF explicit = None THEN name ELSE explicit)
         /\ node_ids' = With(node_ids, name, next_node_id)

ensure_node(name, explicit) ==
    IF Has(node_ids, name)
    THEN /\ node_data' = IF explicit = None THEN node_data
                         ELSE [node_data EXCEPT ![node_ids[name]] = explicit]
         /\ UNCHANGED <<nodes, edges, edge_data, next_node_id, next_edge_id, loose, node_ids>>
    ELSE /\ make_node(IF explicit = None THEN name ELSE explicit)
         /\ node_ids' = With(node_ids, name, next_node_id)

-----------------------------------------------------------------------------
InitParser ==
    /\ Init
    /\ source \in Sources
    /\ phase = "line" /\ at = 1 /\ node_ids = <<>>

AtLine == phase = "line" /\ at <= Len(source)

NextLine == phase' = "line" /\ at' = at + 1 /\ UNCHANGED source

SkipBlank ==
    /\ AtLine /\ Line = <<>>
    /\ NextLine
    /\ UNCHANGED <<graph, node_ids>>

\* The graph built so far is dropped.
Reject ==
    /\ AtLine /\ Line # <<>>
    /\ IF Arrow > 0 THEN ~From.ok \/ ~To.ok ELSE ~parse_declaration(Line).ok
    /\ phase' = IF Arrow > 0 THEN "InvalidEdgeDeclaration" ELSE "InvalidNodeDeclaration"
    /\ UNCHANGED <<graph, source, at, node_ids>>

NodeLine ==
    /\ AtLine /\ Line # <<>> /\ Arrow = 0
    /\ LET d == parse_declaration(Line) IN d.ok /\ ensure_node(d.name, d.payload)
    /\ NextLine

EdgeLine ==
    /\ AtLine /\ Arrow > 0 /\ From.ok /\ To.ok
    /\ ensure_node(From.name, None)
    /\ phase' = "target"
    /\ UNCHANGED <<source, at>>

EdgeTarget ==
    /\ phase = "target"
    /\ ensure_node(To.name, None)
    /\ phase' = "edge"
    /\ UNCHANGED <<source, at>>

\* Without a payload the edge carries its line.
AddEdge ==
    /\ phase = "edge"
    /\ make_edge(node_ids[From.name], node_ids[To.name],
                 IF To.payload = None THEN Line ELSE To.payload)
    /\ NextLine
    /\ UNCHANGED node_ids

Finish ==
    /\ phase = "line" /\ at > Len(source)
    /\ phase' = "parsed"
    /\ UNCHANGED <<graph, source, at, node_ids>>

\* The owner reads the payloads, maps them to its own, and edits the graph.
Take ==
    /\ phase = "parsed"
    /\ reinterpret(Payload, Payload)
    /\ phase' = "owned" /\ source' = <<>> /\ at' = 1 /\ node_ids' = <<>>

Edit == phase = "owned" /\ Next /\ UNCHANGED parser

NextParser == SkipBlank \/ Reject \/ NodeLine \/ EdgeLine \/ EdgeTarget \/ AddEdge
                \/ Finish \/ Take \/ Edit

SpecParser == InitParser /\ [][NextParser]_vars

\* What find_map over nodes() and edges() may answer.  The comments at graph.rs:62
\* and 65 promise "insertion identifier order", which would be the least of these
\* ids; OwningGraph iterates over the keys of a hash map, so it may be any of them.
get_node_by_name(name) == {n \in DOMAIN node_data : node_data[n] = name}
get_edge_by_data(data) == {e \in DOMAIN edge_data : edge_data[e] = data}

-----------------------------------------------------------------------------
(* The language of the parser as a grammar: a declaration is               *)
(*    blanks name blanks   or   blanks name blanks [ blanks payload blanks ] blanks *)

Blank(l, i, j) == \A k \in i .. j : l[k] = " "

Named(l, a, b) == /\ a <= b /\ Blank(l, 1, a - 1)
                  /\ \A k \in a .. b : l[k] \notin {" ", "["}

Enclosed(l, b, p, q) ==
    /\ b < p /\ p <= q /\ l[p] # " " /\ l[q] # " "
    /\ \E open \in b + 1 .. p - 1, close \in q + 1 .. Len(l) :
          /\ l[open] = "[" /\ l[close] = "]"
          /\ Blank(l, b + 1, open - 1) /\ Blank(l, open + 1, p - 1)
          /\ Blank(l, q + 1, close - 1) /\ Blank(l, close + 1, Len(l))

Declarations(l) ==
    LET D == DOMAIN l
        names == {x \in D \X D : Named(l, x[1], x[2])}
    IN {[name |-> SubSeq(l, x[1], x[2]), payload |-> None] :
          x \in {y \in names : Blank(l, y[2] + 1, Len(l))}}
       \cup UNION {{[name |-> SubSeq(l, x[1], x[2]), payload |-> SubSeq(l, z[1], z[2])] :
                      z \in {y \in D \X D : Enclosed(l, x[2], y[1], y[2])}} : x \in names}

\* What a line says: one statement about one node or about two, or nothing.
Statements(l) ==
    LET arrows == {i \in DOMAIN l : l[i] = "->"}
        left == SubSeq(l, 1, Min(arrows) - 1)
        right == SubSeq(l, Min(arrows) + 1, Len(l))
    IN IF arrows = {}
       THEN {[ends |-> <<d.name>>, payload |-> d.payload] : d \in Declarations(l)}
       ELSE {[ends |-> <<c.name, d.name>>, payload |-> d.payload] :
               c \in {e \in Declarations(left) : e.payload = None}, d \in Declarations(right)}

\* The parser accepts the texts whose lines are blank or have one meaning, and
\* of any other text it reports the first line that has none, with its kind.
GrammarExact ==
    LET Fine(l) == Blank(l, 1, Len(l)) \/ Cardinality(Statements(l)) = 1
    IN /\ phase = "parsed" => \A i \in DOMAIN source : Fine(source[i])
       /\ phase \in {"InvalidEdgeDeclaration", "InvalidNodeDeclaration"} =>
            /\ \A i \in 1 .. at - 1 : Fine(source[i])
            /\ Statements(source[at]) = {} /\ ~Blank(source[at], 1, Len(source[at]))
            /\ phase = "InvalidEdgeDeclaration" <=> Contains(source[at], "->")

\* The graph of an accepted text: a node for each name, numbered by first
\* mention, found under its last payload or else its name; an edge for each edge
\* line, in order, with the right ends, found under its payload or else its line.
\* Where payloads are equal each of their owners may be found, not the first alone.
SourceMeaning ==
    phase = "parsed" =>
        LET stated == {i \in DOMAIN source : Statements(source[i]) # {}}
            said == [i \in stated |-> CHOOSE s \in Statements(source[i]) : TRUE]
            mentions(n) == {x \in stated \X {1, 2} :
                              x[2] \in DOMAIN said[x[1]].ends /\ said[x[1]].ends[x[2]] = n}
            names == UNION {ToSet(said[i].ends) : i \in stated}
            first == [n \in names |-> Min({2 * x[1] + x[2] : x \in mentions(n)})]
            id == [n \in names |-> Cardinality({m \in names : first[m] < first[n]})]
            given(n) == {i \in stated : said[i].ends = <<n>> /\ said[i].payload # None}
            data == [n \in names |-> IF given(n) = {} THEN n ELSE said[Max(given(n))].payload]
            joins == {i \in stated : Len(said[i].ends) = 2}
            edge == [j \in joins |-> Cardinality({k \in joins : k < j})]
            text == [j \in joins |-> IF said[j].payload = None THEN trim(source[j])
                                      ELSE said[j].payload]
        IN /\ DOMAIN node_data = {id[n] : n \in names}
           /\ \A n \in names :
                 get_node_by_name(data[n]) = {id[m] : m \in {k \in names : data[k] = data[n]}}
           /\ DOMAIN edge_data = {edge[j] : j \in joins}
           /\ \A j \in joins :
                 /\ edges[edge[j]] = [from |-> id[said[j].ends[1]], to |-> id[said[j].ends[2]]]
                 /\ get_edge_by_data(text[j]) = {edge[k] : k \in {i \in joins : text[i] = text[j]}}

=============================================================================
