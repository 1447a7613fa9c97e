# jstd in TLA+

A model of the `wazabin-jstd` crate: its identifier-indexed containers, its
owning graph and the parser that builds it, the traversals over it and its three
analyses. The modules are
checked with TLC on small instances. The modules whose names end in `Proofs`
prove the same properties, refinements included, for every instance with TLAPS;
what they leave to TLC is listed under Only model-checked. `PROJECT.json` maps each definition to the lines it models
and lists runs, faults, findings, hazards and theorems.

## The system

The crate is a library of single-threaded data structures. There are no
threads, messages or files: every mutating method takes `&mut self`, so calls
on one object never interleave. What makes the code hard is elsewhere:

* redundant state that one call updates in several places (two vectors and a
  location table, a free list inside the slots, an adjacency stored twice);
* long sequences of legal calls whose combination matters (remove, push,
  truncate, serialize, merge);
* calls that end in the middle: a destructor that panics, or an `unwrap` of a
  missing endpoint or record, leaves what the call had changed by then, and the owner may
  catch the unwind and go on;
* integer conversions between `usize` and a narrower identifier;
* hash sets, whose iteration order the algorithms must not depend on.

| Component | State | Operations | What makes it correct |
|---|---|---|---|
| `StableArena` (`stable_arena.rs`) | dense payloads, dense ids, location per issued id | push, remove, writes, clear, truncate_issued, serde | ids and slots are inverse; ids are never revived; serde is lossless; a batch can be taken back |
| `RecyclingArena` (`recycling_arena.rs`) | slots, free list head, live count | push, remove, writes, clear | the free list threads exactly the vacant slots; last freed, first reused |
| `Registry` (`registry.rs`) | doubling chunks, length | push, replace, truncate, select_mut, iter, clone, serde | elements never move; indexing agrees with iteration; dense ids |
| `Identifier`, derive macro | none | conversion from and to `usize` | round-trips up to the width of its field |
| `OwningGraph` (`graph/owning.rs`), `merge_nodes` (`graph.rs`) | edge records, incident sets, payload maps, id counters | make/remove/edit edge, make/remove node, merge | the two copies of the adjacency agree |
| `DfsIter` (`graph.rs`), node iterators (`graph/node.rs`) | visited set, stack | next | yields what is reachable, once, depth first |
| Dominators, post-dominators (`graph/analysis`) | work arrays of one call | one function each | agree with the path definitions |
| SESE regions (`graph/analysis/sese.rs`) | flowgraph, search arrays, bracket lists, union-find, region tree | `compute_sese`, `compute_sese_candidates` | classes are cycle equivalence; regions have one entry and one exit; a tree that owns every reachable node once |
| Parser (`graph/parse.rs`) | name table, the graph under construction | parse, lookups by payload | accepts its grammar; the graph says what the text says |
| `StringPool`, `BaseRef`, `debug_print` | string set, none, none | intern | see below |

Interactions: arenas and registry use only the identifier conversion; the
parser builds a graph through `make_node` and `make_edge`; the traversals and
analyses borrow a graph immutably, so it cannot change under them; `Registry`
is the container other tools hand references out of, hence address stability.

## Modules

`Vecs` holds the five operations on Rust vectors the crate relies on, with the
crate's 0-based indices; `VecsProofs` says what each leaves at every index.

### Stable arena

* `StableArena`: the three vectors as one record `arena`; the pure operators
  `push`, `remove`, `write`, `cut`, `Encode`, `Decode` are the bodies of the
  methods, and each action is one call with its panics as guards. The loop of
  `truncate_issued` is stepped (`TruncateBegin`, `TruncateStep`, `TruncateEnd`)
  because each iteration drops a payload; `TruncateUnwind` is the iteration
  whose destructor panics. `DEAD` stands for `usize::MAX`, `IdLimit` for the
  number of values of the identifier type, `Wires` for the serialized inputs.
  `Encode` and `Decode` keep the order of entries, the cursor and every check
  of `deserialize`.
* `OptionVec`: what the arena promises, a vector of optional payloads indexed
  by id. The tests of the crate compare the arena with such a vector.
* `StableArenaOptionVec`: the arena with the results of its calls, and the
  refinement mapping that looks every id up through the location table. The
  run checks the arena's other properties on this specification too; without
  `ret` it is `StableArena!Spec`.
* `ArenaBatch`: the arena composed with the owner `truncate_issued` is meant
  for: it notes a mark, works on newer ids only, and truncates to the mark,
  trying again if a destructor interrupted it.
* `StableArenaProofs`: the theorems about the arena, the refinement and the batch.

### Recycling arena

* `RecyclingArena`: slots, head, count. `push` is two actions, one per branch.
* `Slab`: what it promises: optional payloads and a stack of vacated ids.
* `RecyclingArenaProofs`: the theorems.

### Registry

* `Registry`: chunks with capacity, elements, and the number of times the
  buffer was moved: `VecPush` models the growth of a Rust vector, so a chunk
  that outgrew its allocation would show as a moved element. `truncate`, and
  the pushes by which `clone`, `from_iter` and `deserialize` rebuild, are
  stepped in `job`.
* `FlatVec`: the flat vector whose API the registry keeps.
* `RegistryProofs`: the theorems.

### Graphs

* `OwningGraph`: the records, the incident sets and the payload maps, with
  `merge_nodes` and `reinterpret`. `make_edge`, `edit_edge` and `remove_edge`
  update the set of the source before that of the target; for a missing endpoint
  they panic in between, and the step is what was done by then (`Listed`,
  `Unlisted`, the branch of `edit_edge`). `remove_edge` drops the payload after
  the maps and before the sets are updated: `RemoveEdgeDropPanics` is the call
  whose destructor panics there. `RemoveNodeStopped` is `remove_node` when one of
  its calls of `remove_edge` panics, for either reason or because the edge has no
  record any more, after any of the others; `MergeStopped` is `merge_nodes` when
  `remove` is missing or lists an edge without a record. The history variable
  `loose` holds the edges a merge or a panic left at odds with a set of their
  ends. Calls that panic before they change anything are not steps.
  `SpecReturning` allows only calls that return, for the finding about them.
* `GraphParser`: `OwningGraph::parse` over the operations of `OwningGraph`, a
  step per line, three for an edge line. Lines are sequences of tokens: name
  characters, blanks, brackets and the arrow; names and payloads are pieces of
  lines. `Take` is the owner mapping the payloads to its own with
  `reinterpret`, after which it edits the graph (`Edit`); the empty text gives
  the default graph. The grammar that `GrammarExact` and `SourceMeaning` refer
  to is stated by positions in the line (`Declarations`, `Statements`), apart
  from the procedure (`parse_declaration`).
* `Dfs`: the iterator in either mode, over a graph fixed in the initial state.
  A node pushes its entries in any order, since its edges sit in a hash set.
* `GraphParserProofs`, `DfsPostDominatorsProofs`: the theorems, the first about
  `OwningGraph` too, the second about `PostDominators` too.

### Analyses

* `Dominators`: the call of `compute_dominators`, one vertex of each loop at a
  time. `lt` is `LtState`, its vectors indexed by search number from 1, and
  `frames` the recursion of `dfs`: a frame looks at the same successor again
  when the call for it returned, and then records the predecessor. `compress`
  is a recursive function over search numbers, which decrease along ancestors;
  the loops over the predecessors and over a bucket recurse on the position.
  The queries of the returned tree are operators on the final state; the
  caches they fill lazily hold values of fields that never change.
* `PostDominators`: the call of `compute_postdominators`, one visit of a node
  at a time. `at` is the position in the caller's slice of nodes; a visit reads
  the sets as the round has left them. Its specification is `PostSpec`, so that
  one module can hold the proofs about it and about `Dfs`.
* `DominatorsProofs`, `SeseProofs`: the theorems.
* `CycleClasses`: `jpp_cycle_classes`. The undirected search is stepped with its
  recursion as a stack (`Descend`, `Return`); the bracket pass does one node of
  the reversed preorder per step (`Bracket`), or stops at a tree edge without a
  bracket (`NoBracket`); `Validate` compares the partition with the predicate;
  `Join` and `Label` are `direct_cycle_classes`, a pair at a time. Numbers count
  from 1, `Unset` is `usize::MAX`, a list of children is in preorder and a list
  of incident edges in the order of the edges, as in the code. The path halving
  of `find` is left out: it does not change a root.
* `Sese`: `compute_sese` around it. `Flowgraph` renumbers the reachable part,
  drops self loops and adds the synthetic exit; `candidates` and `selected` are
  the filters in their order; `AddRegion` and `AssignNodes` build the tree.
  `compute_sese_candidates` is the list of all candidates on the same flowgraph.

Operators whose comment starts with "Fault:" are plausible bugs, one for each
checked property; replacing the definition they vary makes that property fail.
They are not used by the specifications.

## Runs

| Run | Instance | Shows |
|---|---|---|
| `stable_arena` | 4 ids, 2 payloads, sentinel 7, wires of up to 2 entries with cursor 0, 3, 5 or 7 | `Consistent`: parallel vectors and inverse indirections in every state, also after an interrupted truncation; `RoundTrip`, `WiresKept`: serde loses nothing in either direction; `DeadStaysDead`; `TruncateSpares`: a truncation leaves lower ids alone step by step; `ImplementsOptionVec` |
| `arena_batch` | 4 ids, sentinel 4 | `OlderFirst`, `TakeBackRestores`: the arena is restored exactly, dense order included |
| `recycling_arena` | 4 ids, 2 payloads | `FreeListExact`, `LiveCounted`, `ImplementsSlab` |
| `registry` | up to 7 elements in chunks of 1, 2, 4; 4 calls of select_mut, one of them with a duplicate | `Layout`, `IterMatchesIndex`, `AddressStable`, `ImplementsFlatVec`, `JobsEnd` |
| `owning_graph` | 3 node ids, 3 edge ids, every call that returns or panics; every text of one line of up to 5 of 6 tokens, and every text of two or three out of ten lines | `IncidenceSound`, `IncidenceExact` in every graph, also after panicking calls; `MergeKeepsReach`; `GrammarExact`, `SourceMeaning` of every text |
| `dfs` | every multigraph of 4 edges on 4 nodes, both modes | `YieldsReachable`, `DepthFirst`, `Drained` |
| `dominators` | every graph of 4 nodes with up to 2 ordered successors each, no self loop and first edge 0 to 1; every graph of 5 nodes with a spine and up to one further edge per node | `SemiExact` after every vertex of the backward loop; `DominanceExact`, `FrontierExact` of the result |
| `post_dominators` | every graph of 4 nodes with up to 2 successors each, without an exit and, in the reverse node order, with one; 3 nodes of a larger graph with self loops and one or two exits | `NeverTooSmall`, `OnlyShrink` in every step; `PostDominanceExact`, `Returns` |
| `sese` | 1174 flowgraphs: every graph of 4 nodes with up to 5 edges, two families of 5 nodes with up to 6 edges, roots with nodes out of reach, three larger graphs with parts that never end | `BracketsExact` after every node of the pass; `ClassesExact` of the result; `SingleEntryExit` of every candidate; `CanonicalRegions`, `TreeExact` of the tree |
| `owning_graph_remove`, `dominators_frontier`, `sese_fallback` | as above, some smaller | each violates one statement of a comment in the code, see Findings |

Why the bounds are enough. The arenas act on one id, the last slot and one
moved id at a time: with four ids the removed, the moved and two untouched
entries can all be distinct, every permutation of the dense order occurs, and
the identifier type and the sentinel are both reached (`stable_arena` exhausts
the type first, `arena_batch` reaches both at once). Seven elements fill three
chunks exactly, so every boundary is crossed in both directions. Three nodes
give `merge_nodes` a kept, a removed and a third node, three edges a direct
edge, a parallel or back edge and a self loop at once, and let a panicking call
name a node that is gone or not made yet, with edges around it. Five tokens are
the shortest declaration with a payload and a blank on either side of its name,
or an edge with a wrong declaration on either side of its arrow; three lines mention a node, declare
it and declare it again. A region that is not a single node needs an entry, two
nodes and an exit, and nested and sequential regions need five nodes; capping
edges and tree edges without a bracket occur among the graphs of four nodes. A depth-first order is
told from other orders by four nodes. Semidominators differ from parents, and
immediate dominators from semidominators, on graphs of four nodes; path
compression over two linked ancestors needs the path of five that the second
family of `dominators` has. Order matters to Lengauer-Tarjan, so successors are
sequences there. For every property that is proved the bounds do not matter.
The registry's identifier is wide enough for its
elements; `push` does not check that it is (`registry.rs:203`, unlike both
arenas), and with `IdLimit` below `MaxLen` the model hands out one id twice
and violates `ImplementsFlatVec`. The bounds `MaxLen`, `MaxNodes` and
`MaxEdges` are bounds of the models only; the code has no such limits.

Fairness. `Registry` assumes weak fairness of the steps of a running loop:
nothing can run between the iterations of a `&mut self` method, and nothing
blocks them. It does not assume that the owner calls anything. `Dfs` assumes a
consumer that keeps calling `next`; `Drained` is a statement about a drained
iterator. `PostDominators` assumes that a call that has begun goes on. No other
property uses fairness.

Deadlock is checked except for `owning_graph` and `owning_graph_remove`, which
stop when a text is rejected or when the ids of the model are used up and every
node is removed, and for the two dominator analyses, whose behaviour is one call
that returns. For `sese` it is checked that every step but the return has a
successor.

## Findings

Each is a run in which TLC violates a statement quoted from the source.

* `owning_graph_remove`: `remove_node` after a merge leaves the record of the
  merged edge, which names a node that is gone (`owning.rs:455`). No call in the
  run panics (`SpecReturning`).
* `dominators_frontier`: the root has no immediate dominator and its
  predecessors are not recorded, so it is in no frontier, though a loop back to
  it puts it into those of the loop (`dominator.rs:126-129`, against 112-113).
* `sese_fallback`: the validation of the bracket partition (`sese.rs:604-606`)
  compares every edge with itself too. `cycle_equivalent(a, a)` is false for an
  edge on a cycle, and the synthetic edges always lie on one, so the partition is
  always replaced by the direct computation, which the comment means for
  improper flowgraphs only. The result is right; the
  bracket pass is wasted, and the branch of `Validate` that accepts its partition
  is never taken.

Further facts met while modelling, without a run of their own:

* The bracket partition itself is wrong on a plain terminating loop (edges 0-1,
  1-2, 1-3, 2-1): `hi2` may be the number of the node itself, and the node gets
  a capping edge to itself. The fallback hides it.
* On a graph with a part that never reaches an exit, a region may have more edges
  that leave it than its exit edge, into that part: post-dominance counts only
  paths that end. `SingleEntryExit` says so.
* On such a graph two regions can have the same nodes; the comment at
  `sese.rs:379` says a node belongs to its deepest region, and the tie gives it
  to the outer one. Three of them become a child with two children that coincide,
  so siblings need not be apart; and a region that is the smallest of its
  boundary can cross another and is given up. `TreeExact` and `CanonicalRegions`
  claim both only if every node can reach the exit, where they follow from the
  single entries and exits.
* An arrow inside a node's payload makes the line an invalid edge
  (`parse.rs:55`), and `get_node_by_name` looks among payloads, so a node with a
  payload is not found under its name and equal payloads answer in hash order.
* `nodes()` and `edges()` iterate over the keys of a hash map
  (`owning.rs:354-360`), though the trait says "Iterates over all nodes in
  insertion identifier order." and the same of edges (`graph.rs:62`, 65).
  `get_node_by_name` and `get_edge_by_data` take the first match, so among equal
  payloads they may answer any id, not the one inserted first; `SourceMeaning`
  states what the code does.
* A destructor that panics in `remove_edge` (`owning.rs:431`) leaves an edge that
  its ends list and that has no record. Iterating over either end then panics, and
  so does every `remove_node` of one. `IncidenceSound` says that nothing else
  leaves such an edge.
* A destructor that panics in `Registry::truncate` leaves `len` one too high
  (`registry.rs:221`).
* "The root dominates only itself." (`dominator.rs:6`) contradicts the definition
  right above it, the tests (lines 474-479 assert that the root dominates
  the other nodes) and the code: the root dominates every reachable node and is
  dominated only by itself. `DominanceExact` follows the definition.
* "A node `p` post-dominates `n` if every path from `n` to any exit passes through
  `p`." (`post_dominator.rs:4-5`) is not what the code computes where a node outside
  `exit_set` has no successors: it is treated as an exit (lines 50-51), so a node
  with that dead end and the only exit for successors is not post-dominated by
  the exit. And "Exit nodes post-dominate only themselves." (line 6) holds of no
  exit that others cannot avoid: of `0 -> 1` with exit 1, the set returned for 0
  is `{0, 1}`. Only the exit's own set is `{1}`. The set `Ends` of the model holds
  the dead ends because the code treats them so; the runs and theorems about
  post-dominance are relative to it.

## Proofs

Eight modules hold theorems; each theorem is about every value of the constants,
so about any number of ids, nodes, edges or elements, and from no assumption but
the named `ASSUME` of the module it extends, unless it says so.

| Module | Theorems |
|---|---|
| `StableArenaProofs` | `ConsistentAlways`, `TypeAlways`, `DeadStaysDeadAlways`, `TruncateSparesAlways`, `RoundTripAlways`, `WiresKeptAlways`, `OptionVecImplemented`, `OlderFirstAlways`, `TakeBackRestoresAlways`, `ReturnsAddNothing` |
| `RecyclingArenaProofs` | `FreeListExactAlways`, `LiveCountedAlways`, `TypeAlways`, `SlabImplemented` |
| `RegistryProofs` | `LayoutAlways`, `IterMatchesIndexAlways`, `AddressStableAlways`, `ChunksThereAlways`, `FlatVecImplemented` |
| `GraphParserProofs` | of `OwningGraph` `IncidenceSoundAlways`, `IncidenceExactAlways`, `TypeAlways`, `MergeKeepsReachAlways`; of the parser `GrammarExactAlways`, `SourceMeaningAlways`, and of parsed graphs `ParserIncidenceSound`, `ParserIncidenceExact`, `ParserTypeOK`, `ParserNothingLoose`, `ParserMergeKeepsReach` |
| `DfsPostDominatorsProofs` | of `Dfs` `YieldsReachableAlways`, `DepthFirstAlways`; of `PostDominators` `PostDominanceAlways`, `NeverTooSmallAlways`, `OnlyShrinks` |
| `DominatorsProofs` | `SemiExactAlways`, `DominanceExactAlways`, `FrontierExactAlways`, `DomInvariant` |
| `SeseProofs` | `ClassesExactAlways`, `SingleEntryExitAlways`, `CanonicalRegionsAlways`, `TreeExactAlways`, `TreeInvariant`, `BracketsExactAlways`, `BracketInvariant`, `TypeOKAlways` |
| `VecsProofs` | lemmas: what each operation of `Vecs` leaves at every index, and induction over numbers stated with sets (`StepsCover`, `NatCovered`, from the least element of a set, `LeastNat`) |

### Stable arena

The assumptions: `IdLimit` is a positive natural and `DEAD` a natural
(`WidthAssumption`), and the wires have the wire's type (`WiresAssumption`).
Nothing relates `DEAD` and `IdLimit`, except in `RoundTripAlways`, which assumes
`IdLimit < DEAD`: an identifier narrower than `usize`. With one as wide as
`usize` an arena that issued all of them would serialize a cursor that
`deserialize` refuses.

`Consistent` is not inductive. A push could issue an id already present if the
cursor had passed what the identifier type represents, a live slot number could
equal `DEAD`, and a truncation in progress could ask for an id beyond the
location table. The invariant `IInv` adds exactly these facts: every issued id
fits its type (`IdsFit`), there are fewer slots than `DEAD` (`SlotsFit`), and
the loop variable of a truncation stays within the table (`Visited`). The proof
has one lemma for each operator on arenas (`PushPreserves`, `RemovePreserves`,
`WritePreserves`, `CutPreserves`, `DecodeWellFormed`), and one step per action.
That a deserialized arena has fewer slots than `DEAD` is a pigeonhole argument
over its distinct ids (`DistinctBelow`). A second lemma for each operator says
which ids it leaves alone (`PushContents`, `RemoveContents`, ...); the action
properties and the refinement follow from these. `RoundTripAlways` is
`EncodeAccepted` and `DecodeEncode`, `WiresKeptAlways` is `EncodeDecode`.

`OptionVecImplemented` maps the arena to the vector that looks each id up
through the table (`OptionVecOf`) and shows for each call that the vector does
the same and returns the same; the table moves of `swap_remove` cancel out.
`ReturnsAddNothing` carries every theorem about `StableArena` over to the
specification the run checks.

For `ArenaBatch` the invariant `Holding` says that the arena still contains the
one the batch was opened on: the same entries in its slots, the same locations
of its ids. It is kept because ids of the batch sit behind all older ones
(`NewerBehind`), so the entry that `swap_remove` moves into a hole is one of the
batch. At the end of the truncation nothing else is left
(`TakeBackRestoresAlways`).

### Recycling arena

From `RecyclingAssumption` (`None` is no id and no payload). `FreeListExact`, with the
types and `LiveCounted`, is inductive as it stands: the list is a path that visits
exactly the vacant slots (`Threads`), `remove` puts a slot before it and `push`
takes its first off (`VacateThreads`, `ReuseThreads`). For
`SlabImplemented` the path is unique (`FreeOrderIs`), so the abstract stack is
determined by the slots.

### Registry

From `RegistryAssumption`. The invariant `RegInv` says that chunk `k` has
capacity `2^k`, never moved, and holds `Fill(k, len)` elements, and that the
chunks have room for `len` elements (`Good`); `job` keeps the elements a rebuild
has still to push. `Layout` alone is not inductive: it says nothing of the moves
and allows chunks to be missing. `locate` is shown to be
the chunk and offset with `n + 1 = 2^k + o` and `o < 2^k` (`LocateFacts`,
`LocateIs`). The prover knows nothing of powers but the number of subsets of a
finite set, from which `PowerStep` (`2^(k+1) = 2^k + 2^k`) is proved by pairing
the subsets with and without the new element. `Flat` is a recursive function of the
library; that it exists and joins the chunks in order is `JoinsExist` and
`FlattenFacts`, by set-based induction, and `FlatIs` reads it by ids.

`AddressStableAlways` holds in every state with the same element before and
after, because no chunk ever outgrows the buffer it was allocated with.
`ChunksThereAlways` says that `push` and `truncate` find the chunk they index
without a check. `FlatVecImplemented` assumes `MaxLen <= IdLimit`, identifiers
that can count the elements; beyond that `push` returns an identifier twice and
the theorem is false (see `registry.rs:203` under Findings and Not modelled).

### Owning graph

From `BoundsAssumption`. `IncidenceSound` and `IncidenceExact` are inductive
together, with one fact more: the next ids are above those in use or in `loose`
(`Fresh`), without which a new edge could have the id of one still listed, also
of one without a record. `EdgesLeave` is what all the removals have in common,
completed or not. Soundness
needs exactness at `remove_edge`, which clears the target's set only after the
source's. The proof states both of one node and one edge (`Incidence`), so that
the effect of a call on the sets (`Attach`, `Detach`) is a statement about the
pairs it adds and removes. `MergeKeepsReachAlways` uses that `Reach` is the
least set closed under the listed edges (`ReachIsLeast`).

The parser adds that every name it knows names a node, and that the ends of the
edge it is about to add have names (`NamesResolve`); hence no line makes it call
`make_edge` with a missing node (`ParserNothingLoose`), and the theorems hold
for every text and every later edit of the graph it returns.

### Graph text parser

From `SourcesAssumption` alone, that a text is a sequence of lines and a line a
sequence of tokens: `GrammarExactAlways` is about every text, of any length. The
procedure cuts pieces out of pieces of a line; the proof follows them by their
positions in the line (`PieceOfPiece`, `TrimIs`, `SplitIs`), which are the
positions of the grammar. `ParseBare` and `ParseEnclosed` say that what the
grammar allows is what `parse_declaration` returns, `ParseOk` that it accepts
nothing else; together, that a line has at most one meaning (`DeclarationsAre`).
The parser looks for the arrow in the trimmed line and trims each side again,
the grammar speaks of the line as it is: `ArrowOfLine` and `TrimPad`. The
invariant (`GrammarInv`) says that the lines before the current one are fine and
that an edge line is fine already between its three steps.

`SourceMeaningAlways` gives every mention of a name a position in the text, two
to a line. The invariant (`MeaningInv`) says that the graph has a node for each
name mentioned before the position the parser has reached, numbered by the names
mentioned earlier and carrying what the lines before give it (`NodesSay`), and
an edge for each edge line before the current one (`EdgesSay`). Counting the
names with an earlier first mention needs no order among the steps: a name that
is new at a position is numbered by all names known there (`KnownStep`), which
is `next_node_id`.

### Depth-first traversal

From `DfsAssumption`: the root is a node and the edges are finitely many, as in
any graph in memory; the nodes need not be finite. `YieldsReachable` needs that
every neighbour of a visited node is visited or waits on the stack (`Frontier`)
and that nothing else waits (`Within`). `DepthFirst` needs an order among
the stack's entries: of the entries for a node not visited yet the topmost was
pushed by the latest of its neighbours (`LatestOnTop`), which is what makes a
stack with duplicates visit depth first.

### Dominators

From `DominatorsAssumption`: the root is a node and the graph gives each node a
sequence of nodes. Neither the number of nodes nor the order of the successors
matters; the sequences are what makes the reachable part numbered by naturals.

The first part is about a graph numbered depth first (`Tree`) and no algorithm.
An edge to a larger number leads to a descendant, so what a path through larger
numbers reaches are descendants of where it starts (`Interval`, `SemiAncestor`).
The semidominator of `x` is then found among the edges into `x`: from a
predecessor, or from an ancestor of one whose own semidominator lies higher
(`SemiSound`; the converse, `SemiComplete`, takes the smallest vertex on the way
that is an ancestor, `FirstCrossing`). Dominance follows from semidominators (`DomFromSemi`),
and the immediate dominator of `x` is its semidominator, or is shared with the
vertex of least semidominator in between (`IdomIsSemi`, `IdomIsShared`).

The second part follows `LtState` through the operators. `Forest` says of every
vertex linked so far that its ancestor is a tree ancestor and its label has the
least semidominator of the tree path it stands for; `compress` keeps it and
leaves `x` one step below a root (`CompressFacts`), so `eval` returns the right
label (`EvalFacts`). `LowInv` is the invariant of the loop over predecessors.
The buckets hold, once each, the vertices whose semidominator they belong to and
that are not settled; `settle` records the immediate dominator, or the
vertex it is shared with (`SettleStep`). `SemiStep` is one turn of the backward
loop. Recursive definitions are shown to exist and are followed by induction
over numbers stated with sets (`CompressExists`, `LowLoopExists`).

The third part is the specification. `SearchInv` says of the running search that
its numbers are those of the tree (`Numbering`), that whatever was numbered after
a running call descends from its vertex (`Nested`), that each successor of a
numbered vertex was recorded with its predecessor or is still ahead of a running
call (`Scan`), and that the arrays the loops use are fresh. `DomInv` adds the invariant of the loop that runs,
and is inductive. `SemiPathNumbers` and `DomNumbers` carry the definitions over
nodes to numbers and back, `DominatorSetExact` reads the queries off the tree, and
`RunnersExact` shows that a runner stops where dominance does. `FrontierExact`
excludes the root as a member (see Findings).

### Post-dominators

From the type of the arguments alone (`InputsAssumption`): every graph, every order
of the nodes and every exit set.

None of the properties is inductive. That an update shrinks a set needs that
every set already holds what its own update would give it (`Descending`), which
the initial sets satisfy and every update preserves because the sets only
shrink. That the result is large enough is `NeverTooSmall`: if `p` lies on
every path from `n` to an end, it does on every path from each of its successors
(`PostDomStep`). That it is small enough needs the flag: while a round has
changed nothing, the nodes visited so far equal their update (`Settled`), so at
the return all do, and the nodes whose set lacks `p` contain every node with a
path to an end off `p` (`ReachingLeast`). `ExitsAlone` says that exits are never
touched.

### SESE regions

From `SeseAssumption`: a graph has finitely many nodes, numbered, a root among
them and edges between them. Nothing else is asked of it: loops, parallel edges,
unreachable nodes, dead ends and parts that never end are all covered.

Everything is about paths that avoid some edges. `RoundsReach` says that the
worklist of `reachable` has found everything after as many rounds as there are
nodes (it grows or has stopped), so it computes `Path` (`ReachableFrom`, `ReachableTo`).
`Net` says what `compute_sese` makes sure of before it starts: every node is
reached from the root, and the synthetic exit has one edge out, back to the
root. `FlowNet` derives it from the renumbering, `Ascending` being a list of the
set it is given (`AscendingLists`).

`ClassesExact` speaks of cycles, the code of paths. A cycle through `a` that
misses `b` is a path around `a` without `b` (`CyclePasses`); for the converse a
least set of edges that still joins two nodes is taken (`MinJoins`), each of
whose edges is the only one across some cut (`CutExists`), so that it is a path
without repetition (`MinJoinsShape`) and closes to a cycle (`CycleCloses`). The
forest of `direct_cycle_classes` stays flat with the smallest edge of each class
at its root, because the pairs are joined in their order (`Flat`, `JoinKeeps`);
without that `Label` would not number the classes. `NeverValid`
shows that the partition of the bracket pass is never accepted on any graph: the
check compares an edge with itself, and the edge from the exit to the root fails it
(see Findings). So it is not the bracket pass that `ClassesExact` depends on.

`SingleEntryExit` follows from the shape of a candidate: an edge into the region
that is not its entry would be on a path from the root to the exit edge without the
entry, or on a cycle through one boundary only (`RegionEntry`, `RegionExit`). Where an
edge leaves by another way than the exit, it leads to a part that never ends.

If every node can reach the exit (`Terminating`), a set of nodes with one edge
in and one edge out is the region of these edges (`OneIsRegion`), and two
regions that cross follow each other with an overlap, so that the
first splits at a boundary of the second into two smaller regions
(`CrossingSplits`). A region that is the smallest for one of its boundaries
therefore crosses no candidate at all (`CanonicalNeverCrosses`): on such graphs
the filter for crossing regions in `compute_sese` removes nothing.

`BracketsExact` is proved although the result does not depend on it: it is what
the algorithm is built on, and nothing in the code or its tests would show it
wrong. It needs the undirected search first (`SearchOK`): the preorder and the
numbers are inverse to each other (`Numbered`), the stack goes up from the root
(`Stacked`), every other node hangs by its edge below a node met before it
(`Hung`), a subtree is an interval of numbers, whose end still grows while its
root is on the stack, and two subtrees are nested or apart (`Nested`), and a
finished node has no neighbour without a number (`Explored`), which at the end
gives that every node has one. `SpanningStep` is the step of the
bracket pass: what spans a subtree is what spans its children's and does not end
at its root, and what starts at its root. Since subtrees of siblings are apart,
no edge spans two of them (`ChildrenApart`), so the merged list holds none twice
(`MergedIs`, `FlattenFacts`, `FilteredFacts`). Caps are edges beyond those of the
input: the lists may hold some that are stale, which the statement allows.

The tree's invariant (`TreeInv`) is that the regions are the root followed by
the largest selected candidates, each under one of the smallest regions that
contain it (`Shape`); `ShapeNests` gives that no two cross and that later
regions are not larger. `Owned` says what `AssignNodes` does. `TreeExact` and
`CanonicalRegions` alone say nothing before the end.

### Only model-checked

* Liveness under fairness (`JobsEnd`, `Drained`, `Returns`): out of the prover's
  reach, as is `ENABLED`.

## Not modelled

* `StringPool`: a set with one operation that inserts what it does not find.
* The depth of the recursions in `dominator.rs`: the model has no stack size.
* The unwinding of `clear` in both arenas and of `Registry::truncate`: the
  actions are atomic, or do not unwind. Each leaves an arena or a registry that
  breaks its invariants (see the hazards in `PROJECT.json`).
* `merge_nodes` outside its contract, that `direct_edge` leads from `keep` to
  another node `remove` (`graph.rs:116-119`): the code checks neither.
* The primitive edits of the handles (`add_edge_id`, `remove_edge_id`, `set_from`)
  as calls of the owner: they are modelled where `merge_nodes` makes them. A
  caller who makes one alone can break both incidence invariants at will.
* Iterating, with `DfsIter` or a node's iterators, over a graph that lists an edge
  without a record: the graph is only borrowed, and the call panics.
* Identifiers that wrap: `registry.rs:203` and `owning.rs:399` do not check the
  conversion; the models stay below it, and so `SelectMut` leaves out the same
  conversion in `iter_mut` (`registry.rs:418-420`). Deserialization of an identifier
  (`derive/src/lib.rs:154`) truncates and is not modelled.
* `BaseRef`, `debug_print`, formatting, iterators that only delegate,
  capacities other than the registry's chunks, benchmarks and scripts: no
  behaviour that a property could be about.

## Plan

Done in this order: `StableArena` and its proofs, `OptionVec` and the
refinement, `ArenaBatch`, `RecyclingArena` with `Slab`, `Registry` with
`FlatVec`, `OwningGraph`, `Dfs`, `Dominators`, `PostDominators` and its proofs,
`CycleClasses` and `Sese`, the panicking calls of `OwningGraph`, `GraphParser`,
then the proofs of `OwningGraph`, `RecyclingArena`, the uses of `StableArena`,
`Dfs`, `Registry`, `GraphParser`, `Dominators` and `Sese`. Next: the unwinding
of `clear` and of `Registry::truncate`.
