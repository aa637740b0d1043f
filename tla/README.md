# lilgraph in TLA+

A verification development for `lilgraph`, a Go library for a small text format
of directed graphs: it parses the format, keeps the graph in memory, lets a
caller edit and sort it, and writes it out again. The modules here model its
code (paths below are paths of the repository under `src/`), TLC checks them on
small instances, and TLAPS proves what holds of the graph, its sort, its
attributes, its panics, the loops over it, the builder, the marshaller, the
scanner and the parser's tables for instances of every size.

    tlc -workers 2 -config MCLilGraphStale.cfg MCLilGraph     # one run
    tlapm LilGraphProofs.tla                                  # some proofs

`PROJECT.json` lists the runs, maps each definition to the lines it models, and
names for each property a definition called a *mutant*: the same operation with
a plausible bug, under which TLC finds the property violated.

## 1. The system

Everything runs in one goroutine, in memory; there are no locks, no retries,
nothing is persisted. What is hard is the sharing of pointers and slices, loops
that change what they walk over, long sequences of legal calls, generated tables
nobody reads, and a text format that has to survive going out and in again.

| component | state | operations | source |
|---|---|---|---|
| in-memory graph | `nodes`, `edges`, `nodesById`, `edgesById`; per node two adjacency lists; per edge two endpoints | `NewGraph`, `AddNode`, `AddEdge`, `DeleteNode`, `DeleteEdge`, `Find`, `FindEdge(s)`, `Nodes`, `Edges`, `EdgesFrom`, `EdgesTo`, `SortTopo` | `lilgraph.go` 65-243 |
| topological sort | `ranks`, `path`, the call stack of `walkDf` | `lexicalTopoSort` | `lilgraph.go` 426-470 |
| attributes | one slice of key-value pairs per node or edge | `SetAttr`, `GetAttr`, `DeleteAttr`, `AttrsMap`, `ReplaceAttrs` | `lilgraph.go` 245-327 |
| builder | the graph so far, two nested loops, `from` of a chain | `buildFromAst`, `updateAttrs` | `lilgraph.go` 329-424 |
| marshaller | none | `marshalText`, `inPrintOrder`, `quoteify` | `marshal.go` |
| scanner | position, line, column | `Scan`, with two generated tables | `internal/gocc/lexer` |
| parser | a stack of states and products, the next token | `Parse`, with three generated tables | `internal/gocc/parser` |
| AST constructors | none | `NewNode`, `NewEdgeChain`, ... | `internal/ast/ast.go` |
| grammar | none | the rules both tables are generated from | `lilgraph.bnf` |
| the rest | none | `ParseFile`, error texts, token helpers, JSON for the tests, unused utilities | |

How they interact. `Parse` appends a newline if there is none and hands the
scanner to the parser, which pulls tokens from it one at a time and calls the
AST constructors as callbacks of its productions; the finished AST goes to the
builder, which calls `AddNode`, `AddEdge` and `SetAttr` of the graph. After that
the caller owns the graph and edits it through pointers. The marshaller reads the
graph (including the positions the builder left in it) and writes text.

What makes each component correct:

- graph: its four collections and the adjacency lists are views of one
  graph, after every call and also half way through `DeleteNode`, even when a
  caller goes on using pointers to deleted nodes;
- loops and panics: a loop whose body changes the graph, and a caller that recovers
  from a panic, get what can be explained by what was done, and no more is lost;
- sort: it ends on every graph, reports only real cycles, puts every node it
  reaches before the nodes that node leads to, and sorting twice changes nothing;
- attributes: a slice behaves like a map with an order, nil until it is written;
- builder: the order of evaluation does not matter more than the language
  says, and the first fault is the one reported;
- marshaller: what is written parses again, to the same graph, and is written
  again as the same text, with the original's lines in the original's order, as far
  as ids tell the nodes apart;
- scanner and parser: the generated code agrees with the grammar, and positions
  and ASTs lose nothing.

`PROJECT.json` has the full list of hazards, each at its line with the
properties that cover it; the two that no property covers say why.

## 2. Modules

| module | models | checked by |
|---|---|---|
| `GoSlices` | `slices.Delete`, `DeleteFunc`, `SortStableFunc` in closed form; what a `strings.Builder` holds | `OperatorProofs` |
| `PropertyGraph` | abstract: a graph of ids and the answer of each call | refined by `LilGraph`: `MCLilGraph`, `LilGraphProofs` |
| `LilGraph` | the graph, with pointers | `MCLilGraph`, `LilGraphProofs` |
| `Recovered` | nil endpoints, panics half way, a caller that recovers (extends `LilGraph`) | `MCRecovered`, `RecoveredProofs` |
| `Iterators` | loops whose body changes the graph (extends `LilGraph`) | `MCIterators`, `IteratorsProofs` |
| `Ranks` | abstract: what the sort computes | `TopoSort`, `OperatorProofs` |
| `TopoSort` | `lexicalTopoSort` and its recursion | `MCTopoSort`, `TopoSortProofs` |
| `AttrMap` | abstract: a map with an order of keys | refined by `Attrs`: `AttrsProofs` |
| `AttrList`, `Attrs` | the slice of attributes and its methods | `Attrs`, `AttrsProofs` |
| `DocGraph` | abstract: what a document means, read as a whole | `Build`, `MarshalProofs` |
| `Build` | `buildFromAst` | `MCMarshal`, `MarshalProofs` |
| `Marshal` | edits, `MarshalText` and parsing again (extends `Build`) | `MCMarshal`, `MarshalProofs` |
| `LexicalGrammar` | abstract: the lexical rules of `lilgraph.bnf` | `Lexer` |
| `LexerTables`, `Lexer` | the two tables of the scanner, and `Scan` | `MCLexer`, `PipelineProofs` |
| `Quote` | `quoteify`, the line of a node or an edge, `unquote`, as operators | `MCPipeline` |
| `Grammar` | abstract: the syntactic rules of `lilgraph.bnf` | `Parser` |
| `ParserTables`, `Ast`, `Parser` | the three tables, the constructors, the rounds of `Parse` | `MCPipeline`, `PipelineProofs` |
| `Pipeline` | the scanner pulled by the parser, on texts and on written lines (extends `Lexer`, `Quote`, `Parser`) | `MCPipeline`, `PipelineProofs` |

### The graph: `LilGraph`

Pointers are elements of `NodePtr` and `EdgePtr`, a struct is what functions of
the pointer say. A struct lives on after it has left the graph, as it does in Go
while a caller holds a pointer to it. `StaleHandles` says which callers are
modelled: those that go on passing pointers to nodes they have deleted, or only
those that drop them. `AddNode`, `AddEdge`, `DeleteEdge`, `SortTopo` are one
action for each way out. `DeleteNode` is a step for its beginning
(`DeleteNodeStart`), one for each iteration of its two loops
(`PurgeFromStep`, `PurgeToStep`) and one after each, so that its half-done
states are states of the model; no other call runs in between (`pc`). The
callers assign `e.from` or `e.to` before they call `deleteEdge`, so that operator
takes the endpoints it will find as parameters: that is where the stale
key of section 5 comes from. `SortTopo` is one step whose outcome is that of
`Ranks`; `TopoSort` shows that the recursion computes it.

`Find` and `FindEdge` change nothing; their answers are the functions
`nodesById` and `edgesById`, about which the invariants speak.

### Panics: `Recovered`

`Find` returns nil for an unknown id, and nothing stops a caller from passing that
to `AddEdge`. The panics of the code are actions here, which make the
assignments that come before the panic and no others: `AddEdgePanics` (the edge
is in `edges` and `edgesById`, and in the list of its start if it has one),
`DeleteEdgePanics`, `DeleteNodePanics` (in an iteration of the first loop;
the second loop cannot meet a half edge, for no `edgesTo` list has one from nil) and
`SortTopoPanics`. All other steps are `LilGraph`'s own, with the guard that they
do not meet a nil. `Half` is the set of edges with an end missing, `broken` the set of
nodes whose `DeleteNode` has panicked; both say how far the damage goes.

### Loops: `Iterators`

`range` over a slice keeps a header (array and length), and the methods its body
calls work on the same array as long as `append` does not move it. One slice is
looked at, the one the loop is over. Because the `slices` package clears what it
vacates, a slice and the length of its array say all about the array
(`Slot`); when the graph's slice leaves the array (`Leaves`: `append` without
room, or the end of `DeleteNode`, which drops the lists), the loop keeps a copy of
what was in it (`array`). The length that `append` reserves is open, up to
`MaxRoom`. `Yield` is the loop's step, `Body` is any call of `LilGraph`'s, and
`DeleteNode` takes its several steps before the loop goes on. History variables
record what was yielded and what kinds of things the body did, and the properties
say which of these explain what the loop sees.

### The sort: `TopoSort`

One action for each call of `walkDf`, each edge its loop comes to and each
return, with the Go call stack as a sequence of frames. The initial states are
every graph over the vertices, also with vertices that are not in `nodes`: the
deleted nodes that `AddEdge` has given edges since.

### The attributes: `Attrs`

`attrs` is `Nil` or a sequence of pairs, since `AttrsMap` tells a nil slice from an empty
one: it returns a nil map until `SetAttr` or `ReplaceAttrs` has written something, and a map
that is not nil from then on, even when `DeleteAttr` has emptied it. `AttrMap` has
the same as a flag of its own (`blank`), so that the refinement compares these answers too.

### The builder: `Build`, and the document it reads: `DocGraph`

An item of the AST is a record. Nodes are named by their ids and edges by their
identity, which `LilGraph`'s `NodesIndexed` and `EdgesWired` justify as nothing
is deleted while a graph is built. (The ends of an edge may also be elements of `Gone`,
pointers to deleted nodes; those are for `Marshal`.) A position is the order of its item or step
in the text: `Offset` leaves room for `Room` steps behind each item, and a chain has fewer.
`DocGraph` reads no order of evaluation out of a document, only its mentions of nodes
and edges, each with its place in the text. One step of a chain is one action, with everything the code does
for it. `AddNode` cannot fail with `ErrInvalidId` here: `IdsAgree` in `Lexer` says
that an id of the text is one for `AddNode` too. On an error the code drops the
graph; the model keeps it as it was, and no property looks at it.

### The marshaller: `Marshal` and `Quote`

`Marshal` has the life of a graph: built from a document, edited by calls,
written out, parsed again by `Build`'s own actions, written again. A text
is the document it reads back as. This splits the round trip in two: `Marshal`
shows that the right lines are written in the right order, and `Pipeline` shows,
rune by rune, which lines (`Quote`) read back as what was written.
`SortTopo` is any permutation of the nodes here, which is more than it does.

Callers may keep the pointer to a node that they delete: `EditDeleteNode` gives it a
name in `Gone` (`dead` has those in use), and `EditAddEdge` takes such pointers as
`AddEdge` does. The key of an edge that `DeleteNode` has left in `edgesById` (section 5) is in
`stale`, and an `AddEdge` that meets it adds nothing. A line has the ids of the ends of its
edge (`Named`), and this is all that the text says. So an edge between a deleted node and the node
that has its id now is written as a loop (`LoopByName`), and of two edges that only
a deleted node tells apart, both are written as lines for one edge (`Clash`).
`RoundTrip` says that Parse refuses a text for the first reason and for no other, and otherwise finds all
nodes and edges by name (`ReadsAs`); `Canonical` is about graphs without a clash.

### Scanner and parser: `Lexer`, `Parser`, `Pipeline`

The tables are transcribed as functions of runes, in classes that no state
tells apart; rows that are equal are one definition. `Lexer` reads a rune per
step. `Parser` has the actions of one round of `Parse`'s loop, and takes the tokens it
is given; a product is a record with the token *numbers* where the Go
struct has strings, so that a lost or exchanged argument shows. `Pipeline`
puts them together as `parse` does: the parser calls the scanner for its first
token and with every shift (`Asked`), and the scanner has then as many steps as it
takes. Its sources are texts that a caller may pass to `Parse`; the lines that
`marshalText` writes for a node or an edge with any type, keys and values; and, for
the tables' sake, any sequence of tokens, chosen as the parser asks for them, whose
reachable states are every prefix up to the bound that the tables do not refuse.

## 3. Runs

Every bound is a constant of a `.cfg`.

| run | what it shows | states |
|---|---|---|
| `stale_handles` | the five graph invariants, `AdjacencyOrder` and the refinement of `PropertyGraph`, with callers that use deleted nodes | 114,556 |
| `recovered` | which parts of the graph survive a nil endpoint and the panics that follow, how it heals; and for callers that do neither this nor use deleted nodes, that no edge leads out of the graph and the refinement in its strict form (a sort fails only on a cycle) | 181,090 |
| `iterators` | what a loop misses, repeats, or is given as nil when its body changes the graph; when `FindEdges` panics | 1,656,510 |
| `topo_walk` | the walk ends, `path` is the stack, cycles are real, order, idempotence, agreement with `Ranks` | 113,385 |
| `attrs` | no key twice; the refinement of `AttrMap`, the nil answer of `AttrsMap` included | 399 |
| `marshal` | every document becomes what it means, or gives its first fault; edited, also at deleted nodes, and written, it parses to the same graph, canonically, in the right order; which texts are refused | 998,644 |
| `lexer` | tokens are those of the grammar, positions are right, the appended newline is neutral, `idRegexp` and the grammar agree on ids, no empty token before the end | 659,046 |
| `pipeline` | scanner and parser accept the grammar's texts, refuse at the first bad token and name what could have followed, build the whole AST, and return; exactly which written lines read back | 1,141,373 |
| `index_exact`, `topo_cycles`, `attrs_type_key`, `quote_values` | the disagreements of section 5 | |

Why the bounds are enough to mean something:

- `LilGraph`: two ids and three node pointers, so that an id is deleted and added
  again as another node while the old pointer is in use; three edge pointers, so
  that a node being deleted has incoming and outgoing edges and one more edge is
  elsewhere, or two types with two edges. The pointers run out: `AddNode` and
  `AddEdge` then stop making new ones, which a longer run of the program would
  only repeat. Pointers and valid ids are symmetric. A third, invalid id reaches
  `ErrInvalidId`.
- `TopoSort`: four vertices are enough for a diamond with a tail, a cycle beside
  an apex, and a cycle behind one; two sorts in a row.
- `Attrs`: unbounded in length, because the invariant bounds it.
- `Recovered`: three node pointers and two edge pointers, so that a half edge and
  a whole one meet at a node, from both sides, and a node is deleted half and added
  again. One id has nodes of three types, so that `ErrTypeChange` happens (`Declared`);
  edges have two (`EdgeTypes`). The view `AllButRet` leaves out `ret`, which no action and no guard
  reads: two states that differ in it have the same successors. The action properties speak of
  the answer after a step. What the view gives up is a step that changes nothing, with an
  answer that the one state kept has already: that counts as stuttering.
  `stale_handles`, without a view, checks the refinement for such steps too.
- `Iterators`: a graph of three nodes and three edges, two of them parallel or with a
  common end, a fourth node and one more edge to add, and three calls in the body:
  delete what was given, add in its place, delete again. An array has room for
  one more element or none, so that the first append stays and the second moves, or the
  first moves.
- `Build` in `Marshal`: up to three items (`MaxItems`) and three steps in a chain (`Room`): redeclarations with and without
  types, chains that repeat an edge or come back to a node, repeated keys,
  each of the three errors, and items with two of them at once.
- `Marshal`: the graphs of documents of up to two plainer items (`EditedDocs`) get four
  edits between building and writing (`MaxEdits`), and a caller may keep the pointer to one deleted
  node `a` (`Gone`). Four calls delete `a`, add it again, and add the edges
  from the old and the new one that clash, or one edge between the two. Every text written, of
  those and of the unedited ones, is parsed and written again.
- `Lexer`: every text, with the newline that `parse` appends and without (as the tests
  call the scanner), up to five runes over two small alphabets (arrows, brackets,
  numbers, ids; strings, comments, newlines) and up to three over all runes. The
  longest token form that differs in kind (`]-->` or `-1.1`, or a comment with one
  rune in it) fits, with something behind it.
- `Pipeline`: texts up to five runes over the runes of nodes and edges and over those
  of comments, two over all runes (`a[b];` or `a->b` fit; longer sentences are
  covered as tokens); nine tokens are the longest right side with everything
  in it, an edge with a type, a separator, an attribute and its separator, and two
  statements next to one another. Lines are written for every type and every
  key up to two runes, every value up to four runes of quotes, backslashes, newlines,
  letters and digits and up to two of all, and pairs of values up to two runes, which is
  where the quoting of one could end in the other.

Deadlock is checked where a system never stops: in `LilGraph` and `Attrs`. The other configurations say `CHECK_DEADLOCK FALSE`, because an algorithm
that has returned does stop.

### Fairness

Two specifications have liveness properties, `TopoSort` and `Pipeline`. Their
fairness is weak fairness of the steps of a call that has begun: it is one
goroutine running sequential code, which neither blocks nor waits. In `TopoSort`
the caller's decision to sort again is not in it. In `Pipeline` it covers the
scanner's and the parser's steps together, for the one calls the other: that
`Parse` returns means that neither loop can go round for ever. That `Scan` moves on is
also a safety property (`TypeOK` of `Lexer`: no empty token before the end).

## 4. Proofs

Every theorem is about the specification that the runs check, for all values of
its constants that the named assumptions allow. A module of proofs extends the
module it is about.

| module | theorem | says |
|---|---|---|
| `LilGraphProofs` | `GraphInvariant` | `Spec => []GraphInv`, the inductive invariant |
| | `TypeCorrect`, `NodesAreIndexed`, `EdgesAreWired`, `AdjacencyIsExact`, `IndexIsLive` | its five conjuncts |
| | `LiveIndexIsExact` | `FindEdge` and `AddEdge` answer exactly about nodes of the graph |
| | `EndpointsAreLive` | no edge leads out of the graph if callers drop pointers to deleted nodes |
| | `AdjacencyIsInOrder` | every adjacency list has the order of `g.edges` |
| | `ImplementsPropertyGraph` | the pointers implement the graph of ids |
| `RecoveredProofs` | `ListsAlwaysSurvive`, `EndsAreAccounted`, `PanicsHeal`, `PanicsAreExplained` | how far the damage of a nil and of panics goes, and when it is gone |
| | `AbstractBeforeMisuse` | until the first nil, the graph of ids is implemented in its strict form |
| `IteratorsProofs` | `LoopsKeepInvariant` | `IterSpec => []IterInv`, the inductive invariant |
| | `LoopsDoNotSeeAdds`, `LoopsDoNotRepeat`, `LoopsMissFew`, `LoopsYieldKnown`, `FindLoopsPanic` | the five properties of a loop that `iterators` checks |
| `TopoSortProofs` | `Invariance` | `Spec => []Inv`, the inductive invariant |
| | `PathFollowsEdges`, `CyclesAreReal`, `SortedDownstream`, `SortIsIdempotent` | what the walk keeps to, what an error means, what success means |
| | `WalkComputesRanks` | the recursion computes what `Ranks` defines |
| `AttrsProofs` | `KeysAreUnique`, `AttrsImplementMap` | no key twice; the slice implements an ordered map, with `AttrsMap`'s nil |
| `PipelineProofs` | `ScannerGetsOn`, `PositionsAreRight` | the scanner stays within the text, gets on, and counts its lines and columns |
| | `IdsAreAgreedOn` | an id of a text is what `idRegexp` matches, and the other way round |
| | `ParserStaysInTables` | no table is read outside its rows, and no constructor refuses what it is handed |
| | `AstsAreWhole` | an AST says what its text says, word for word |
| | `OnlyDocsAreAccepted` | what the tables accept is a sentence of the grammar |
| `MarshalProofs` | `Invariant` | `MarshalSpec => []IInv`, the inductive invariant |
| | `GraphAsMeantHolds`, `FirstFaultHolds` | a document becomes the graph that it means as a whole, or is refused for its first fault |
| | `RoundTripHolds` | what is written of any graph gives the same graph, or `ErrLoop` exactly if an edge joins two nodes with one id |
| | `CanonicalHolds`, `OldLinesFirstHolds` | and is then written as the same text, if no two edges clash; which lines come in which order |

`OperatorProofs` has no theorem of its own, but the lemmas that the others rest
on: what `DeleteFirst`, `DeleteFunc`, `KeepAt` and `StableSort` return, and what
the levels of a graph are.

### Assumptions

`LilGraph`: `Nil` is not a pointer, an id or a type, the valid ids are ids, and there
are finitely many node pointers (`Ranks` counts vertices). `TopoSort`: finitely
many vertices. `Attrs`: `Nil` is not a value, a key or a sequence of pairs.
`Recovered`: the calls it makes are calls of `LilGraph`. `Iterators`: the graph that a
loop begins with is one that `AddNode` and `AddEdge` can make (`StartAssumption`: no id
and no identity of an edge twice, and edges between different nodes of the graph), and
the bounds on calls and room are any natural numbers. `Lexer`: the texts are over the
runes that its tables know (`AlphabetAssumption`), which are all there are. `Pipeline`: the types, keys and
values that are written are texts over these runes (`ItemAssumption`). `Build`: no position
is nil or an id, and the items are what the structs of the AST can hold, with fewer than `Room`
steps in a chain, whatever number that is; the pointers to deleted nodes are pairs of an id and a number, and no ids (`Gone`, of any size). `Marshal`: there are finitely many ids, and the
attributes an edit sets are not called `type`, which `SetAttr` refuses. Nothing is assumed about how
many pointers, ids, keys or vertices there are, how long a text or a document is, or how many edits
are made, nor about `StaleHandles`, except
that `EndsAreAccounted`, which is about callers that drop pointers to deleted nodes,
says so.

### The graph

`GraphInv == TypeOK /\ NodesIndexed /\ EdgesWired /\ AdjacencyExact
/\ IndexLive` is inductive. None of the parts is by itself. That an edge
is listed once (`EdgesWired`) needs, when `AddEdge` adds one, that `edgesById`
had nothing under its key (and so nothing in `edges` has that key, which is
`EdgesWired` again), and when `deleteEdge` removes one, that the key it clears is
no other edge's. That `deleteEdge` purges the right lists needs
`AdjacencyExact`; that the loops of `DeleteNode` meet only edges that are still in
the graph needs the exact form of `AdjacencyExact` *inside* the loops, where a
list has as many nils in front as iterations have been made (`OutPurged`,
`InPurged`, `Lists`). `IndexLive` is as strong as the code allows: it
says what a key whose edge is gone may still lead to. `LiveIndexExact` follows
from `GraphInv` without induction; `EndpointsLive` and `AdjacencyOrder` are inductive
relative to it. For the order: what an operation deletes from a list leaves the
others at ever larger indices of the old one (`Thins`), and what `AddEdge` appends
is new.

There is one lemma for each action (`AddNodeStep`, `AddEdgeStep`, `DeleteEdgeStep`,
`DeleteNodeStartStep`, `PurgeFromStepInv`, `PurgeFromDoneInv`, `PurgeToStepInv`,
`DeleteNodeEndInv`, `SortTopoStep`) with a step for each conjunct it can disturb.
They rest on lemmas about lists with nils in front (`ListsAppend`, `ListsDelete`,
`ListsPurge`, `ListsPurged`) and on `OperatorProofs`. The closed forms of `GoSlices`
count the indices before an element instead of recursing; the key lemma is that
such a counting is a bijection (`CountingBijection`). Finite sets are
`FiniteSetTheorems`'.

`LiveIndexExact` and `EndpointsLive` are theorems without a run of their own: the
first follows from invariants that `stale_handles` checks, the second is a part of
`EndsAccounted` in `recovered`.

### The refinement of `PropertyGraph`

The map is `typeOf`, `arcs` and `result` of `LilGraph`. `NodesIndexed` makes ids and
nodes of the graph one to one (`IdFacts`), and `EdgesWired` makes an arc of ids
one edge (`ArcFacts`), so that `AddEdge` adds an arc and `DeleteEdge` takes one. `DeleteNode` takes its
effect with its first step (`DeleteNodeMaps`), because an edge counts only between
two nodes of the graph; the purges are stuttering (`PurgeMaps`), because the endpoints
they clear belong to edges that no longer count. For `SortTopo` to fail there must be a
reason among the nodes of the graph, if callers drop pointers to deleted ones (with
stale pointers the abstract graph lets a sort fail): a walk of as many steps as there
are vertices has a cycle (`LongWalkIsCyclic`), it stays in the graph as
`EndpointsLive` says, and `CycleOfNodes` carries it over to ids (`ReportIsRight`).

### Panics

`RecoveredInv` weakens each part of `GraphInv` by no more than what a nil or a
panic breaks: an edge may lack an end, and is then not found under its key
(`WiredOrHalf`); the lists of nodes whose `DeleteNode` panicked are given up, all
others are exact, without the edges from nil, which no list has (`ListsExact`);
those nodes have left the graph (`BrokenGone`), and a key that leads nowhere names one
of them or a node that has left (`KeysLead`). `EndsKnown` is `EndpointsLive` with these
exceptions. When there is no half edge and no broken node, these are the parts
of `GraphInv` again: `PanicsHeal`. That a panic has a reason needs `WalkMeetsNil`: the walk of
`SortTopo` meets a nil only in a list of a broken node, or at the end of a half edge.

### Loops

`IterInv` is `GraphInv` and, once the loop has begun, `LoopInv`: a part for each thing
the properties speak of, and what makes it inductive.

- `SlotsDiffer` and `SeenOnce`: no pointer is in two places of the array, and none
  at the index or behind it has been yielded. `slices.Delete` moves elements to the front by
  one, so an element may be passed over, but none comes back.
- `PassedAreCounted`: the elements that the loop will not come to any more (`Passed`)
  are no more than were deleted behind its index. A deletion before the index makes one
  element of the array pass it, `Slot(next)`, and each other call none (`PassedMore`).
- `Undisturbed`: while the body only adds, what was yielded and what was to be yielded are
  `KeepAt` of one and the same slice, at indices of which the first are a
  beginning of the second (`KeepAtPrefix`).
- `NilsDeleted`, `LeftHow`, `StaleHow`: an array that the graph has left holds what
  it held then. It was left by an append, or by `DeleteNode`, which had set it all to
  nil: that is why a deleted element can turn up only after both kinds of calls.
- `FindWhole`, `FindEmptied`: a deletion leaves a nil at the last index that the loop's header
  covers, or is in the middle of `DeleteNode` of the node whose list it is (`Emptying`).

The argument has two halves. `NextLists` says what each call of `LilGraph` does to *one*
slice, for every slice there is: it keeps it, appends a pointer that was not allocated
before, loses one element, sets one to nil, sorts it or drops it. `BodyDoes` turns that into
what happens to the array (`BodyStep`), and from there on the proofs do not mention
the calls any more. `YieldInv`, `BodyInv`, `BeginInv` and `FinishInv` are the steps.

### The sort

Levels are a recursive function of the number of edges; the facts about them in
`OperatorProofs` are by induction. The library's induction theorems take the
claim as an operator, which the provers cannot instantiate: `LeastNatural` and
`NaturalsReached` take the *set* of the numbers with the claim instead, and follow from the
library's theorem about well-founded relations. Two inductions matter: an endless
walk in a finite graph means a cycle, and a walk with as many edges as there are
vertices is endless.

`Inv` of `TopoSortProofs` has the stack and the path (`WalkInv`), what an error means
(`SeenInv`: behind an apex there is a set of vertices each of which has a successor in
it), that a rank is the length of a path (`RankInv`), and that of a visited node either
every edge has been followed since it got its rank, or a call is active for it
that has followed those before `next` (`SettledInv`). With the stack empty and the loop at its
end, all visited nodes are settled, and so the ranks are the longest
paths (`WalkedRanks`): no rank is higher as each is the length of a path, and none
lower as each edge raises it. `StableSort` of a sequence that is in order is that sequence, hence
`SortIsIdempotent`.

### The attributes

`KeysAreUnique` is inductive once `WithAttr`, `DeletePair` and `Replaced` are known to
keep keys apart. For the refinement, `ValueOf` and `BeforeIn` say what a slice
stands for: values of keys, and the order of keys as a set of pairs. `SetAttr` keeps
the order or puts a key last, `DeleteAttr` takes one out, and `ReplaceAttrs`
keeps the old keys in their order and appends the new ones (`ConcatOrder`) in an order
that the Go map decides. A slice that has been written to is never `Nil` again, which is what `blank` says.

### The scanner

What the proofs need of the tables is four facts about rows (`NextStateFacts`,
`AcceptFacts`, `IdStateFacts`), each a finite case distinction: no rune leads back to
S0; white space and the ends of comments are reached only from states that
accept nothing; the three states of an id are entered by a letter or an underscore and kept
by these and digits; a newline leads out of them. `ScanInv` then holds of texts of
every length. Its parts: at the start of a token nothing has been read, and it is INVALID
or, at the end of the text, EOF already (`AtStart`); within a token, everything that has been
read is accepted or rejected as a whole (`Inside`), so that only the rune behind it is
given back, which `line` and `column` have not counted: that is why these, which `Scan` never
winds back, are right whenever it goes on (`Placed`, with `PlacesStep` for one rune).
After an INVALID token, which keeps that rune, they are not, but there is no next one. `IdsAreIds` and
`IdIsRead` follow an id through its runes, the second for a text that is one id, with or
without the newline that `parse` adds.

### The parser

Three operators say what the generated states stand for: `Has(s, p, k)`, that in state `s` the first
`k` symbols of production `p` have been read; `Enters(s)`, the symbol that leads to `s`;
`Awaited(s, A)`, that `A` may begin in `s`. They are the kernels of an LR automaton, and nothing
in the code says them: the lemmas `Actions0OK` to `Actions54OK` and `Goto0OK` to `Goto40OK` show that
every row of the generated tables agrees with them. A shift or a goto leads to a state whose items are those of
the state it leaves with one more symbol read (`Leads`), a reduction is by a production read to its end
(`CanReduce`), and behind it there is a goto (`GotoFacts`).

`ParserInv` says of the stack that each state was reached from the one below (`Linked`) and that its product
is of the kind that its symbol has (`Kind`). From there, downwards from the top, the states of a
right side are on the stack (`Handle`), so `popN` never takes the bottom, the state below awaits
the left side, and the constructor gets what its type assertions expect: `ReduceKinds` has one
case for each of the 28 productions. State 1, where the parser accepts, has only state 0 below it.

What the parser has made of the text is a second invariant, `ReadInv`: the places where
one symbol of the stack ends and the next begins cut the tokens read into spans (`Cut`),
with nothing before the first, between two, or after the last. A span of a token is
that token, and a span of another symbol is `Derived`: its tokens are a sentence that the
rules of `Grammar` give for the symbol, and they say what the product beside it says (`Yield`,
word by word in the same order). A shift adds a span of one token. A reduction
makes one of as many spans as the right side has symbols: `SpanMade` has one case for each production,
in which the sentences are joined by the grammar's rule and what they say by the constructor.
When the parser accepts, one span of `WholeDoc` is left, from the first token to
the last: hence `AstIsWhole`, and `AcceptsOnlyDocs`, the half of `AcceptsGrammar` that no text
is accepted which is not a sentence. That half speaks of texts up to `MaxTokens`, because
`Grammar` writes its sentences down up to a length, and it holds for every length given.

### Builder and marshaller

`IInv` of `MarshalProofs` has the following parts; TLC checked it on the instance of
`marshal` before it was proved.

- `DocOK` and `GraphOK`: what an AST and a graph always are. In a graph no node or edge is
  listed twice, edges join two different pointers, each to a listed node or in `Gone`, attributes have each key
  once and none called `type`, and what is not listed has no type, position or attributes
  (so that a node that is deleted and added again has nothing of the old one).
- `Reading`: while `buildFromAst` runs, `from` is where the step before has ended, and the
  graph is `Built`: it means exactly the mentions `Before` the loops' place in the document, and
  no fault lies before that place. `FirstFault` and `GraphAsMeant` speak of the end only and
  say nothing that a step could preserve; this does.
- What has been returned is the first fault (`ErrOf`) or the graph that is `Meant`.
- `PositionsOf`: whatever edits do to a graph, a position it still has is that of its
  document. `Rewritten`: a text is what `MarshalText` made of a graph that was `GraphOK`.

For the builder, `DocGraph` speaks of sets with places, so the lemmas say what `Least`,
`Greatest` and `InOrder` of a set become when one later element comes in. A step of a chain makes up to
two such additions, a mention of a node and one of an edge (`StepBuilt`), and the attributes
are merged one at a time (`Updating`). A fault at a place is found there by the code and by
nothing before it (`FaultAt`, `ReadFault`).

For the round trip, `Prints` says of a text that it has one line for each node that is not
`Implied` and for each edge of a graph, in any order. That is enough: the only fault such a text can
have is a loop (`PrintedFaults`), and since each node and each edge that does not clash has only one
line with a type or attributes, the graph that it means has just those; an implied node has none, and
some edge mentions it. Hence `RoundTrip`. For `Canonical` the order comes in: the graph parsed from a text has the positions
of its lines, the implied nodes are again implied, so that the keys to sort by increase from
line to line, and a stable sort by them has but one outcome. `OldLinesFirst` follows from
`PositionsOf` and from what a stable sort does with the two kinds of new items, whose keys are
equal: it leaves them as `g.nodes` and `g.edges` had them (`KeepsTies`).

### Only model-checked

- liveness (`Returns` of `TopoSort` and of `Pipeline`), which is out of reach of
  the provers;
- `AsSpecified` of `Lexer`: the reference splits a text by a recursive function over
  the grammar's expressions, and the longest match is a question about all states at once;
- of `AcceptsLanguage`, that every sentence is accepted and that a token is refused only where
  no sentence has it (`RefusesNoDoc`), and `ExpectedExact`. Both ask for the sentences that go on
  from a text, and `AcceptsLanguage` for the tokens of a text by the reference of
  `AsSpecified`;
- `ReadsBackExactly`. That quoting is undone by reading compares the scanner, rune
  by rune, with a replacement in the whole of a string.

## 5. Where code and documents disagree

1. `DeleteNode` clears an edge's endpoint before `deleteEdge` builds the key of
   `edgesById` from it (`lilgraph.go` 166, 171, 190). The entry stays: `FindEdge`
   with a pointer to the deleted node finds the edge, `AddEdge` returns it as
   existing, and the map keeps it for ever. A test says the edges are severed.
   Run `index_exact`. `IndexLive` and `LiveIndexExact` are what holds instead:
   callers that drop the pointer never see it.
2. `SortTopo` walks from nodes without incoming edges only, so it overlooks a
   cycle that none of them leads to, if there is such a node at all. Run
   `topo_cycles`. `Downstream` is what holds instead.
3. `ReplaceAttrs` stores keys called `type`, which `SetAttr` refuses and the
   builder rejects. Run `attrs_type_key`.
4. `quoteify` writes values without quotes that only a quoted string can be:
   the empty value, values with spaces (such as `Red Five` in `README.md`),
   commas and the like. Run `quote_values`. `ReadsBackExactly` says exactly
   which values come back, and that types and keys must be ids to come back, which
   no method checks.

Not a run, but worth knowing: `AddEdge` compares pointers, and so joins a deleted node
to the one that has its id now; `MarshalText` writes that edge as `a -> a`, and `Parse`
answers `ErrLoop`. No document of the repository says that every graph can be
written; `RoundTrip` says exactly which ones come back. And
`test/test_cases.txtar` expects `b2` at rank 0 in
`node-ordering.expected-order.json` although an edge leads to it. No test
reads that file; the code gives it rank 1.

## 6. Not modelled

- `ParseFile` (reads a file), error texts, the token helpers and utilities that
  nothing calls, the JSON methods that only the tests call. Of the parser's
  errors, the place and the expected tokens are modelled and their wording is not.
- The newline that `parse` may append into the spare capacity of the caller's slice:
  what it overwrites is the caller's.
- `popN` returns a part of the stack's array: the products of `Parser` are values, so
  a constructor that kept its argument slice would not show. None does.
- A nil node passed to `FindEdges`, `DeleteNode` or `DeleteEdge` (they read through it
  or find nothing, and leave the graph alone), and pointers of another graph.
- Loops inside loops, and over two slices at once: `Iterators` has one loop.
- The running time of the walk, exponential in a row of diamonds.
- The builder in `Pipeline`: `Build` takes any AST, and an AST is no more than what
  `Pipeline` shows `Parse` to make of a text. One run of all stages would add
  only the product of their bounds.

## 7. Plan

Done: the graph with its abstract specification, panics and loops over it; the
sort; the attributes; builder and marshaller; scanner, quoting and parser and their
composition. Proved: the graph and its refinement, panics, loops, sort, attributes,
builder and marshaller, the scanner's positions and ids, and of the parser that it stays in its tables,
accepts only sentences of the grammar, and makes ASTs that say what the text says.
