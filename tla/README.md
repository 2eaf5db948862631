# progeny: specifications and proofs

progeny reads an OpenAPI description (or a bundle of JSON schemas) and writes a Rust
client and server. This directory models the parts of it whose correctness depends on
the order of many small steps, checks them with TLC on small instances and proves the
results that matter most for every instance with TLAPS.

Paths below are relative to `src/crates/progeny/src/` unless they say otherwise.

## 1. Inventory

The generator is one sequential pipeline (`lib.rs`): load → normalize → parse → apply
overrides → resolve → classify shapes → build contracts → build the API → render. What it
writes includes a runtime (`support/`) that is compiled here and in every generated crate;
that runtime is where asynchronous code runs.

| Component | State | Operations | Hard behaviour | What makes it correct |
|---|---|---|---|---|
| Loading (`load.rs`, `load/yaml.rs`, `load/number.rs`, `normalize.rs`) | frames, anchors, the pending key, dropped elements | one handler per YAML event; dialect rewrites | an anchor is known only once closed; merge keys change the next value; positions after a dropped element | explicit members win over merged ones; every value lands where it was written |
| Parsing (`doc/`, `schema/`) | the value read | field-by-field reading and writing | none: no state besides the value | round trip |
| Components of a graph (`schema/cycles.rs`) | order, low-link, two stacks | enter, take an edge, leave | explicit stack instead of recursion, edges that leave the graph | exactly the classes of mutual reachability |
| Resolution (`resolve.rs`, `overrides.rs`, `bundle.rs`) | address index, ids, anchors, repeats | look up, chase a chain, materialize, settle repeats | chains that go round, names declared twice, materializing to a fixed point | every reference has one meaning, found in bounded steps |
| Shapes (`shape/`) | keys still to classify, what each was classified as, the tag each union proposes and each type gave up | collect the schemas of a key, fold them, narrow lists, tell branches apart, propose and settle tags, inherit | recursion cut at a limit; an untagged union keeps the first branch that reads; taking a tag off a type depends on every other use of it, and on unions not yet settled | a key never denotes less than its schemas; no admitted payload is refused; what is described of it comes back, and nothing else |
| Contracts (`contract/`) | the type table and everything holding a position of it | lower, dedup, reach, unit, twin, cycle, finalize, select | renumbering while positions are held, fixed points with and without bounds, two forms of one type | see section 3 |
| API (`api/`) | names and stems handed out, the router asked, response arms | name operations and their types, ask for routes, dispatch responses, attach pagination | names made by numbering that are asked for later; overlapping routes and status ranges | every generated item has a name of its own; the served routes fit one router; one arm per status |
| Rendering (`render/`) | none | contracts to tokens | none | wording and layout |
| Client runtime (`support/http.rs`, `support/credentials.rs`, `render/client.rs`) | credentials, the body so far, the page cursor | choose credentials, send, read in chunks, decode, next page | the transport fails between chunks; the declared length is wrong; a page fails | limit held whatever the server declares; nothing decoded from half a body |
| Server runtime (`support/router.rs`, `support/serve.rs`) | the request being taken apart | receive, read the body, decode, respond | body limit, absent against empty, optional bodies | a rejection names what was wrong |
| Decoding runtime (`support/lenient.rs`, `support/degradations.rs`, `support/buffered.rs`, `support/presence.rs`) | association list of members, report | take a member, probe a variant, merge reports | failed attempts leave traces, counters saturate | tolerated deviations are reported once, at their site |
| Multipart runtime (`support/multipart.rs`) | the candidate boundary | pick a boundary, write, read back | the boundary is checked against text that is changed when written; the counter saturates | the reader finds the parts the writer wrote |
| Styles and RFC 3339 (`support/style.rs`, `support/rfc3339.rs`) | none | text tables | none | round trip |
| Configuration, diagnostics, catalogue (`config.rs`, `diag/`, `catalogue.rs`) | findings reported | read, report | none | findings are complete |
| Command line (`src/crates/progeny-cli/src/lib.rs`) | files | read, generate, write | a write fails between two files | pure I/O |
| Corpus gates (`src/xtask/src/`) | jobs, slots | run documents on a pool | threads | results in the order of the items |

Components interact by value: each stage takes the result of the one before it. The exception
is inside the contract layer, where passes share one table and refer to types by position.
That is the core of the program, and the place a mistake is invisible until a generated crate
fails to compile or misreads a payload, so it is modelled first.

`PROJECT.json` lists all components with their status, and under `hazards` the places where
this code could go wrong in a way a test would hardly reach, with the properties that would
show it.

## 2. Modules

| Module | Models | Notes |
|---|---|---|
| `TypeGraph` | the data of `contract/mod.rs` and the graph questions asked of it | pure definitions |
| `Contracts` | `contract/{dedup,reach,unit,twin,cycle,finalize}.rs` | EXTENDS `TypeGraph` |
| `TypeGraphProofs` | lemmas about `TypeGraph`: renumbering, recursion, paths | EXTENDS `TypeGraph` |
| `ContractsProofs` | theorems about `Contracts`: the table and the positions of it, and the passes that merge | EXTENDS `Contracts`, `TypeGraphProofs` |
| `FinalizeProofs` | theorems about the passes that finalize | EXTENDS `ContractsProofs` |
| `DirectionProofs` | theorems about the two forms of a type | EXTENDS `FinalizeProofs` |
| `Cycles` | `schema/cycles.rs` | compared with `TypeGraph`'s closure |
| `CyclesProofs` | theorems about `Cycles` | EXTENDS `Cycles`, `TypeGraphProofs` |
| `Yaml` | `load/yaml.rs` over the events of a tree of nodes | compared with the denotation of the tree |
| `Moves` | addresses and the moves between them (`normalize.rs` `moved_address`) | pure definitions |
| `Normalize` | `normalize.rs`: the walk and every rewrite; and what a schema accepts, which no code states | EXTENDS `Moves` |
| `Resolve` | `resolve.rs`: materializing, indexing, resolving, chasing components | EXTENDS `Moves` |
| `Keys` | `shape/merge.rs` `key_of`, `shape/inheritance.rs` | EXTENDS `Resolve` |
| `Load` | what the parsers hand from one to the other (`doc/parse.rs`, `schema/parse.rs`) | composes `Normalize` with `Resolve` and `Keys` |
| `Schemas` | the schemas of a document, keys and what the schemas of one say together (`shape/merge.rs`), lists beside unions (`shape/listed.rs`); and what a document admits, which no code states | EXTENDS `Decode`, whose payloads it admits |
| `Classify` | `shape/classify.rs`: the kind of payload a view describes, the reading of a union's branches, and what the type of one branch does with the payloads of another | EXTENDS `Schemas` |
| `Unions` | `shape/classify.rs`: the shape of a key: the union table, members beside a union, objects, lists | EXTENDS `Classify` |
| `Shapes` | `shape/mod.rs`, `shape/discriminate.rs`: the work list over keys and the rounds that settle tags | EXTENDS `Unions` |
| `Types` | `contract/lower.rs` from a shape to a type of `Decode`; what such a type writes (`support/buffered.rs`, `render/serde_impl.rs`); the properties | EXTENDS `Shapes` |
| `Operations` | `api/operation/`, `api/{route,registrable,security}.rs`, `contract/name.rs`: which operations are left out, every name they get, which routes are served | |
| `Style` | `support/style.rs`: each row of the style table, written and read; forms; escaping | pure definitions |
| `Request`, `Service`, `Reply`, `Call` | one operation from the caller's inputs to the caller's outcome: `render/client.rs` `send`, `support/credentials.rs`; `render/server.rs`, `support/router.rs`, `support/serve.rs`; the answer and its dispatch | each EXTENDS the one before |
| `Body` | `support/http.rs` `read_body` | |
| `CallProofs` | theorems about an answer of `Call`, and about `Body` | EXTENDS `Call`, `Body` |
| `Decode` | a payload read as a type, strictly (`support/buffered.rs`, `render/serde_impl.rs`) and leniently (`support/lenient.rs`, `support/degradations.rs`, `render/lenient.rs`) | pure definitions |
| `Stream` | what a stream over a paginated listing promises | abstract specification |
| `Client` | a call or a page stream of a generated client | composes `Body` and `Decode`, refines `Stream` |
| `Multipart` | boundary and framing of `support/multipart.rs` | |
| `MultipartProofs`, `OperationsProofs` | theorems about `Multipart` and about the routes of `Operations` | EXTEND the modules they prove about |
| `MCContracts`, `MCCycles`, `MCShapes`, `MCOperations`, `MCGenerator`, `MCNormalize`, `MCLoad`, `MCCall`, `MCMultipart`, `MCRuntime`, `MCClient` | bounded inputs for the above | `MCGenerator`, `MCLoad` and `MCRuntime` put independent machines side by side, one of which moves in any one behaviour |

`Contracts` uses the transitive closure (`TypeGraph!Paths`) wherever the code asks
`Sccs`. `Cycles` models the traversal the code really runs and shows, against that same
operator, that its answers are the closure's (`ComponentsExact`): the
former is the abstract specification of the latter. One detail of the code is not relied on:
`Sccs::together(i, i)` is true for a node on no cycle, although its comment speaks of one
cycle; the callers only ask it of edges.

### Contracts, against the code

`types` is the provisional table, a sequence of contracts; a contract holds members; a
member's type is a chain of wrappers ending in a leaf that may name another entry by position.
Everything else that holds positions is a variable of its own: `byShape` (what each shape was
lowered to), `collapses` (findings with an owner), `reach`, `queue`, `differing`, `twins`, and
the `half` inside a form. `origin` stands for a type's address and its Rust name.

| Action | Code |
|---|---|
| `DedupRound`, `DedupEnd` | `dedup::run`, one round of plan and apply per step, with the bound on rounds |
| `ReachStep(d)`, `ReachEnd` | `reach::close`, one position per step, requests before responses |
| `UnitRun` | `unit::run`: an empty payload a tagged union consumes becomes a unit variant, the table is renumbered |
| `DiffersRound`, `TwinRun` | `twin::differs`' fixed point one round per step, then `twin::run` |
| `Normalize` | `cycle::normalize` |
| `Promote` | `finalize::promote_recursive_aliases` |
| `BoxRound`, `BoxEnd` | `finalize::break_cycles`, one box per round, with the bound on rounds |
| `Reopen` | `finalize::reopen_nullable_members` |
| `DeriveRound`, `Freeze` | `finalize::supported_derives` one sweep per step, then the derives of `finalize::run` and its rejection |

Lowering is not an action. What it may hand over is the assumption `WellFormed`: positions in
range, one item in an alias or newtype, captures only in structs, an `Option` around a member
that may be absent (`lower::field_presence`), every type the type of some shape
(`lower::reserve`), nothing twinned yet. Identifiers, wire names, docs and tag values are
abstracted: two contracts of one kind whose members correspond carry the same names, so the
fingerprint is the kind, the policy for undeclared members and the members. The order the
closing edge is chosen by does keep names (`origin`), and the bounded inputs number them
against the positions so that the two orders differ.

### Cycles, against the code

One step skips or starts a root, takes one edge, descends into a node or leaves one. Vector
accesses that may be out of range (`get`, `get_mut`) are modelled by what they then do: an edge
to a node outside the graph reads as unvisited, is pushed, and writes nothing. The sentinel
`u32::MAX` is the constant `Unvisited`, assumed larger than what is counted.

### Shapes, against the code

A schema is a position of `doc`; a key is a set of positions, with a mark where only the union
declared there is meant. `ViewOf` is what the schemas of a key say together; the code works it
out wherever it asks, the model once for every key a root leads to (`viewed`). `ShapeOf` is the
whole of `classify::key`, from the view to the shape, and is a definition rather than a chain of actions because
the code is a pure function of the document; what has an order are the work list and the rounds.

| Action | Code |
|---|---|
| `Enqueue` | the start of `shape/mod.rs: classify`: the keys of the components and of the positions operations name are put on the work list |
| `ClassifyKey` | one turn of the work list in `shape/mod.rs`: the last key is classified unless it was, and the keys its shape holds are put on the list |
| `Propose` | `discriminate::settle`: every union with a tag begins by consuming it |
| `SettleRound` | one round of `evaluate`: each union that still consumes its tag is asked again, against what the others claimed |
| `Settle` | the round that changed nothing: demoted unions become arbitrary JSON, tags are taken off the types that gave them up |

`Lowered` turns a settled shape into a type and `Strict` of `Decode` reads a payload as it;
`Written` is what it serializes to. Three definitions have no counterpart in the code and say
what it is for: `Admits` is JSON Schema's rule for when a payload satisfies a schema, `Spoken`
the members a document describes of a payload, and `Retains` that those come back. The
properties compare the chain of four pure stages (classify, settle, lower, read or write) with them.

### Loading, against the code

`Yaml` is the loader's machine: `frames` is its stack, each frame with the entries read, the
anchor, the pending key and what a merge key collected; `anchors` is the map of finished
anchors; `reports` the diagnostics. Events come from libyaml, which is external and is what
`Events` makes of a tree of nodes.

| Action | Code |
|---|---|
| `ReadScalar`, `ReadAlias`, `RefuseAlias` | `Loader::scalar`, `Loader::alias`: place, drop, or become a key |
| `Open`, `RefuseCollection`, `Close` | starting a collection under the depth limit and finishing it: merge sources, malformed merges, the anchor |
| `EndDocument` | the root, or the finding that there is none |

A text stands for its class (a float beyond the range, one that is only approximately a double,
a merge key, ordinary text) and `Resolved` for what the core schema reads it as. `Denoted` is
written from the tree, not the events, and says what the value and the findings should be; it is
the reference definition `LoadedAsWritten` compares the machine with.

`Normalize` keeps a document as a function from addresses to the objects written there, schemas and
payloads that look like schemas; what lies between is in the addresses.

| Action | Code |
|---|---|
| `DetectVersion`, `ReadBundle` | `normalize` up to the walk, with its rejections; `bundle::read` up to `bundle_schema_at` |
| `Descend` | the functions of `Walk` from `document` to `media_type`: `Places` lists what each kind of node holds and where |
| `WalkSchema` | `Walk::schema` and `schema_object`: every rewrite in its order, then the places below |
| `FinishWalk` | the end of `normalize` |

Places still to visit are never inside one another, so one order stands for all. A rewrite
works on the whole tree, because it relocates what is below a schema: `Wrapped` takes a composition into
a branch, `TupleItems` and `Dependencies` move subschemas and record that they did. `Accepts` is written from
what each dialect says of a value, not from the code; `MeaningKept` compares a schema as written, in its own dialect,
with the schema it became, in 2020-12. `HandOver` gives the rewritten document and its moves to
`Resolve`, whose behaviours go on from there.

`Resolve` materializes in rounds (`Materialize`, `StopMaterializing`), resolves every schema's
reference at once (`ResolveSchemas`, one pass over a frozen index) and chases each component
reference (`ReadUse`, `FinishResolve`). A document says which addresses its schemas are
registered at, which further schemas reading an uninterpreted position would register
(`hidden`), what normalization moved (`moves`) and which schemas repeat others (`repeats`).
`Keys` continues with `key_of`: `AskKey`, `PopPart`, `FinishKey` are the start, one turn and the
end of its loop.

### Operations, against the code

A name is the words between its underscores, a word its tokens: digits and the letters `a` and
`b` one by one, since numbering and the casing of single letters decide what meets, and any other
word whole. `Visit` is `operation` up to its name (path, parameters, unbound variables); `Claim`
one turn of the loop in `claim`, which leaves the refused name and stem taken; when it succeeds
the siblings of the operation join the names to get. `NameHeaders` is one response of
`name_header_types`, `AskRouter` one operation of `classify`, `NameSetter` one scheme of
`name_setters`. The router is external: what it answers is written from the observations the
tests pin (`api/registrable.rs`), a variable ends its segment and variables' names do not count.
Content is listed in the order of `preference`; what a body or a header becomes is left out.

### A call, against the code

One behaviour of `Call` is one call. `Request` has an action per block of the generated method
(`WritePath`, `WriteQuery`, `WriteHeaders`, `WriteBody`, `SetOwn`, `Execute`); `Service` one per
extractor of the generated handler in order (`ExtractContext`, `ReadParam`, `RefuseParam`, the
media gate, the body) ending in the handler or a rejection; `Reply` is the answer leaving the server
(`WriteReply`) and being read (`Dispatch`). Text is a sequence of characters of a small alphabet that holds every
delimiter of the style table, a space, a percent sign, a letter outside ASCII, a digit and two
plain letters; a percent-encoded character is one code of its own (`Escaped + c`), so escaping
and unescaping are what they do and not the identity. Payloads of JSON, text and multipart bodies are opaque with a size;
form bodies are written out, because their members go through the same table.

### A client, against the code

`Body` has an action per outcome of one turn of `read_body`: `RefuseUnread`, `TakeChunk`,
`Overrun`, `Finish`, `ReadWhole`, and `BreakOff` for the transport failing, which it may at any
time. `Client` has `Ask` and what can become of a request (`AskStranger`: a status no arm declares; `AskLost`: no response), `ReadOn` for a step of
the body, `DecodeBody` and `DecodeError`, then, for a stream, `RefuseDegraded`, `Walk`,
`Yield`, `AskNext`, `End`. A stream's cursor, its limit and its observer are variables; what a
page decodes to is worked out by `Decode`.

`Decode` is two recursive readings of a payload as a type, over the same kinds of type. `Strict`
gives a value or refuses; `Lenient` gives a value with the findings it made and whether a strict
reading would have refused. Findings are a set of places and kinds: the saturating counters are
left out.

### Multipart, against the code

A text is a sequence of tokens: two halves of the stem (so that a line break can split it), the
dash, digits, a line break, anything else. `Scan` is everything before the loop: the stem alone, or
the first numbered candidate; `Retry` is one turn of the loop. `Radix` stands for 10 and
`MaxAttempt` for `u32::MAX`; `parse::<u32>` failing is a number above `MaxAttempt` counting
as 0. The name, filename and content type of a part are one field, `header`: `quoted` and
`header_safe` differ in escaping, which no boundary contains.

## 3. Runs

| Run | Shows | Bounds |
|---|---|---|
| `contracts` | `TypeOK`; `RefsInTable`: no holder of a position is forgotten by any pass. `MergesKeepContracts`: every shape still denotes the contract it was lowered to, unfolded to any depth. `NothingLeftToMerge`: the round bound never ends the merge early. `NamedTypesSurvive`: a named type is in the table exactly once. `ResponsesAreRead`, `RequestsAreStrict`, `PairsConvert` (the two forms); `LoopsAreGone` (no decoder replays its value, no alias is recursive), `CyclesReportedOnce`; `FiniteSizeWithinRounds`; `NullableReadsNull`; `CrateDerivesCompile`, `DefaultIsFinite`; `TablingEnds` (the loops without a bound end) | four types, two payloads that may be equal and two holders that become equal once the payloads merge, named, titled, configured or inline; and three types that hold one another through aliases, newtypes, three kinds of union and six of struct; travelling in one direction or both, decoded strictly or leniently |
| `contract_box_bound` | finding 1 | one type |
| `contract_named_derive` | finding 2 | two types |
| `generator` | `NeverInward`: no payload the document admits is refused by the type generated for it. `NothingLost`: what the document describes of a payload is written back, whichever branch read it. `NothingInvented`: nothing else is. `TagsStayOnTheWire`: a type without its tag is held only by unions that write it. `ComponentsExact`, `Terminates`: the traversal. `NamesDistinct`: operations, siblings, setters and the types spelled from their stems never share a name. `RoutesServed`: the routes served fit one router, and none is left out that would | documents of up to five schemas over fourteen fixed leaves, against 66 payloads: every ordered pair of 54 kinds of branch, unions in unions, members, lists, beside members and beside lists, schemas that hold at once, tags by constant and by discriminator with branches shared by a position, a member or a second union, keyed and partitioned unions, flattened unions, tuples. All 512 graphs of three nodes, rings of four with up to two chords, every edge list of up to three edges over two nodes and one outside. Every three of fifteen operations that want each other's methods, stems, siblings, numbers or types; every three of nine routes, with parameters that replace, cannot be written or are missing |
| `shapes_two_tags` | finding 6 | two unions with different tags over the same two branches |
| `shapes_null_tag` | finding 7 | pairs of objects told apart by a member that one lists null for and neither requires |
| `load` | `LoadedAsWritten`: every value, dropped element and finding is what the tree of nodes denotes. `NormalizedAsWritten`: every schema accepts after normalization what it accepted in its own dialect, payloads are untouched, nothing changes without a report outside 3.0, and a pointer to a position as written is resolved to the schema that was there. `ReferencesRead`: a reference is read as the one schema it names, by whichever address, or reported; a chain of component references ends at a component. `KeysLoseNothing`: a key is every schema that constrains the value, each once, or holds the schema asked for | trees of up to two members with anchors set again, merge keys plain and quoted, numbers dropped and rounded, collections as keys; three open collections. Documents of up to seven schemas with positions nothing parsed, moves, repeats, scopes and chains, two rounds, two links, five parts. Of normalization: every combination of types, `nullable` and enum over unions, compositions, tuples and flags that hold one another, in 3.0 and 3.1, with a reference to each position; one schema in each of 21 places under five versions; bundles of a root and three definitions in two drafts; 17 values |
| `load_nullable_pointers` | finding 8 | the documents of `load` |
| `call` | `HandlerSeesWhatWasSent`, `OwnRequestsAccepted`: client and server agree on the wire. `CredentialsAllOrNothing`. `SameArm`, `HeadersReadBack`: the answer comes back as the arm and headers it left as. For multipart bodies `FramesExactly` (the boundary stands where the framing put it and nowhere else) and `SettlesBelowMax` (a boundary is found, by the text that carries the greatest number at the latest). For the reading client `BodyBounded`; `StrictAgrees`, `NothingSilent` (the two decoders); `FailsForAReason`; `StreamInOrder` (refinement of `Stream`); `ListingEnds` | every row of the style table against every character, alone and beside a letter; bodies of every kind, empty, at and past the limit, under declared and overridden types; five schemes held in every combination against occupied places; arms exact, by class and by default against statuses at every edge. Framing: radix 3, greatest number 13 = 111 in that radix, so that greater numbers of as many digits exist; texts with one or two stems, whole or broken. Answers: 190 types against 165 payloads; streams of up to three pages with one that drifts anywhere on the way to its items and cursor; bodies of three bytes in every cut, declared or not, under every limit, broken anywhere |
| `call_forms` | finding 3 | forms with a `deepObject` member |
| `call_optional` | finding 4 | every kind of body, required exactly where it is set |
| `client_open_items` | finding 5 | items that are a union or an open enum |

The bounds are enough for the cases the properties are about: two rounds of merging need two
levels of holders; a renumbering that matters needs a dropped entry before a kept one; a pair
of forms needs a strict type holding another; a cycle of aliases and unions, of references with
and without indirection, needs three types for a proper chord; a low-link travels through a
parent from rings of four on; a delimiter can only be misread next to something it can be
attached to; a branch is only ever misread as one other branch, so pairs suffice for what
shadows what, and three branches are tried where the code asks about a branch in between
(partitions, nested unions); a tag needs a second holder of its variants to be missed, and
that holder a tag of its own to be settled in a later round; a stream needs a page before and a page after the one that goes wrong. The round
bounds of `contracts` are the code's own, relative to the size of the table; the depth, the
rounds, the links and the parts of `load` are constants of the code, made small enough to be
reached. No state constraint is used, and no counter is capped artificially.

Two families of documents are kept apart: `generator` has unions with two tags only where the
branches declare both, and no pair told apart by an absent tag that null also names. In both the
property of the run is false (findings 6 and 7), and the violation runs check exactly them.

**Deadlock.** `contracts` lets a run stutter where the program returns, so deadlock is
checked there. The behaviours of `generator`, `call` and `load` end (a call is
over, a document is loaded), so their configurations do not check it; that they do not stop
early is `Terminates`, `ListingEnds` and `SettlesBelowMax` where something loops, and the outcome every
behaviour is compared with where nothing does.

**Fairness.** The generator and the boundary loop are sequential code that waits for nothing, so
a step that can be taken is taken. `Contracts` claims it only for `Tabling`, the passes whose
loops have no counter (the worklist and the fixed point over differing forms); the other loops
end by their bound, whatever happens, and what they leave behind is checked as safety. `Cycles`
and `Multipart` have weak fairness on the one thread's next step. `Shapes` claims none: every key
is classified once and every round demotes or carries one union more, so it ends whatever is claimed. `Client` has weak fairness on
its next step: a caller awaits the call, or polls the stream until it is over, and a transport
delivers the next chunk, the end or an error. Nothing is claimed about which of these.

**Refinement.** `Client!Promised` is `Stream` with the items given to the caller for `given` and
the phase for `standing`; `StreamInOrder` says that every behaviour of the detailed
specification, with its chunks, reports, limits, cursors and failures, is one of the abstract
one. `ComponentsExact` relates `Cycles` to the closure in the same spirit, and
`LoadedAsWritten` the event machine to the tree.

### Findings

1. **The rounds that place boxes can run out** (`contract/finalize.rs:307`). One round boxes
   one reference, and there is one round more than there are types. A struct with three
   optional members of its own type keeps the third unboxed: the generated crate does not
   compile. `FiniteSizeWithinRounds` states and checks what does hold; `PairsConvert` excludes such
   a table, where one half of a pair may have a box the other lacks.
2. **A derive asked for by name is not checked against what the held types carry**
   (`contract/finalize.rs:71`). `type-derives` naming only the outer of two types yields a
   derive the compiler refuses, where the documentation promises an error.
   `CrateDerivesCompile` shows that derives asked of every type do compile.
3. **A form member in the `deepObject` style is not read back** (`support/style.rs:388`). The
   reader of forms is described as the inverse of the writer "member by member, through the same
   rows", and has no case for that row.
4. **An optional multipart body cannot be left out** (`support/router.rs:264`). The server
   asks for the boundary before it asks whether there is a body.
5. **A page whose items drift in an open arm is refused** (`render/client.rs:999`). A union or
   string enum reports the drift of an item at the place of the list, which is a step of the walk; the documentation of
   `DegradedPage` says that drift inside an item is kept.
6. **A tag is taken off variants another union reads with it** (`shape/discriminate.rs:394`). Only
   variants that declare a union's own tag are asked who else uses them, and a union that consumes its tag does not count as a
   user. Two unions over the same variants, of which only the second's tag is declared, both
   consume: payloads of the first lose the second's tag.
7. **A null tag is written back as a name** (`support/buffered.rs:1256`). Where null names one
   variant of a union that carries its tag and absence names none, the variant reads null as nothing
   and leaves the member out, and the union fills in the variant's first name. The comment at
   line 1161 says a null tag is written as the payload has it.
8. **A reference into a nullable composition is read as another schema** (`normalize.rs:1002`).
   `nullable: true` without a type moves the composition into the first branch of a new `anyOf`, and this is the one
   relocation that records no move. A pointer to `anyOf/0` then reads the whole composition and
   one to `anyOf/1` the null branch, without a diagnostic; one to `allOf/0` is reported as
   missing. `NormalizedAsWritten` leaves out exactly these positions.

Met while modelling, without a run of their own:

- `finalize.rs:55` says a response struct "always has a `Default`". One with a flattened union
  has none, because that member stays required and an enum has no default; the code is right to
  ask `available` first.
- `bundle.rs` `settled`: when a nested namespace is listed before the one that holds it, chains of repeats
  can go round; both ends are filtered out and the two definitions stay two types. The documents
  of `load` have repeats that end.
- A reference to a position a rewrite moves, read in an earlier round than the schema around it,
  reads one schema under two addresses.
- `repair_dependencies` drops a `dependencies` that is no object, and a parent whose `required`
  is neither absent nor an array keeps what it wrote while its properties lose their flags
  (`normalize.rs:708`, `:797`). Both are keywords with a value nobody gives them and are left out of `Normalize`.
- The choice of a multipart boundary need not end (`support/multipart.rs:584`): the counter
  saturates, so a text that carries the stem with the number `u32::MAX` repeats one candidate.
  `SettlesBelowMax` shows that this is the only case.
- A document loaded through an alias may nest deeper than the limit (`load/yaml.rs:325`): the limit
  counts collections being read, and an alias brings in a finished one.
- Elements with schemas of their own and nothing said of further ones become a tuple of that
  length (`shape/classify.rs:523`), which refuses longer and shorter lists the document admits. The comment at 492
  gives the same reading for what it is. The lists of `generator` say what may follow, or how long they are.
- The client's own methods (`new`, `client`, `observe`, `base_url`, `response_body_limit`,
  `render/client.rs:316`) are in the same `impl` as the operations', and no name is reserved for
  them: an operation with the identifier `observe` makes a client that does not compile.
  `with_client` is kept from the setters only, which `api/security.rs:172` justifies by "which no
  operation claims"; an operation may. `NamesDistinct` is about the names the generator hands out.
- A required member whose own type holds null is accepted strictly and refused leniently, so an
  untagged union may choose another variant; a keyed payload that drifts stays whole strictly
  and is read in part leniently. `StrictAgrees` says so and excludes both.
- A flat object in a header or path whose text has an equals sign reads as an exploded one; a cookie name that needs escaping is
  not found; a request header outside ASCII is sent and refused. `Spells` and `Arrives` state these limits.

## 4. Proofs

Every theorem holds for all values of the constants, within the assumptions of the module it is
about, which TLC evaluates on every run. There are eight modules; `PROJECT.json` lists the
theorems.

| Theorem | Property | Proved in |
|---|---|---|
| `AlwaysSound`, `TypeCorrect`, `PositionsStayInTable` | `Sound`, `TypeOK`, `RefsInTable` | `ContractsProofs` |
| `MergeIsComplete` | `NothingLeftToMerge` | `ContractsProofs` |
| `NamedTypesStay` | `NamedTypesSurvive` | `ContractsProofs` |
| `MergingIsSound` | `MergesKeepContracts` | `ContractsProofs` |
| `LoopsStayGone` | `LoopsAreGone` | `FinalizeProofs` |
| `NullsStayRead` | `NullableReadsNull` | `FinalizeProofs` |
| `SizesAreFinite` | `FiniteSizeWithinRounds` | `FinalizeProofs` |
| `CrateDerivesHold` | `CrateDerivesCompile` | `FinalizeProofs` |
| `AlwaysDirected`, `RequestsStayStrict`, `ResponsesStayRead` | `RequestsAreStrict`, `ResponsesAreRead` | `DirectionProofs` |
| `AlwaysMirrored`, `CyclesNamedOnce` | `CyclesReportedOnce` (of a step) | `DirectionProofs` |
| `AlwaysConverting`, `PairsStayConvertible` | `PairsConvert` | `DirectionProofs` |
| `AlwaysSettled`, `FramedExactly` | `FramesExactly` | `MultipartProofs` |
| `AlwaysRegistering`, `ServedTogether` | `RoutesServed` | `OperationsProofs` |
| `AlwaysTraversing`, `ComponentsAreExact` | `ComponentsExact` | `CyclesProofs` |
| `AlwaysAnswering`, `AnswersKeepTheirArm` | `SameArm` | `CallProofs` |
| `AlwaysCounted`, `BodyAlwaysBounded` | `BodyBounded` | `CallProofs` |

### The contract passes

The only assumption is `InputsAssumption`, that what lowering hands over is `WellFormed`.

**Positions** (`ContractsProofs`). `RefsInTable` is not inductive. Renumbering stays in range only
because the positions renumbered are positions that are kept: that the target of a merge is never
itself merged away (`TargetStays`), and that a unit type dropped from the table is held by nothing
but the variants rewritten in the same step (`UnitVariantsFit`). Replacing a cycle's members by
aliases and unfolding an alias need each wrapper to have exactly one item, and loosening a form
needs that only structs capture. `Sound` therefore joins the shape of every contract and its
references (`Table`), everything else that holds positions (`Holders`), the results (`Outcome`),
and what is only true before a given pass (`Staged`: no type has another half before the twins are
made). One lemma per action (`DedupRoundSound` … `FreezeSound`) has a step per conjunct it can
disturb; the passes that rewrite entries in place share `InPlaceSound`. All invariants below are
proved beside `Sound`, which is in their premises.

**Merging** (`ContractsProofs`). The bound on the rounds of dedup is one more than there are types. It
suffices because a round that is not the last drops an entry (`Shrinking`:
types left and rounds taken never exceed the types handed over), so the pass ends with
an empty plan. `Preserved` says that no two entries have one name and every pinned type is there:
the target of a merge is pinned whenever anything of its class is. `Faithful` asks for a
relation between the types handed over and those in the table along which contracts agree, member
by member, and with them what every shape and every finding names (`Follows`). A merge composes
it with the targets; a unit variant agrees with the empty payload it replaces; `MergesKeepContracts`, that what a shape denotes
unfolds alike to any depth, is the existence of such a relation.

**Finalizing** (`FinalizeProofs`).

- *Loops.* Retyping breaks each cycle of non-consuming steps and promoting turns a recursive alias
  into a newtype. Neither comes back because boxing and reopening only ever change the wrappers of a
  reference without changing what it hands on (`Rewraps`), so no later pass adds an edge.
- *Nulls.* Promotion changes what an `Option` may be spelled through; reopening restores it for
  every nullable member and no later pass touches a member.
- *Size.* While a type has infinite size a round finds a closing edge and boxes one member along it
  (`BoxRoundBoxes`), and a box stays where it is put, so the sized
  members left unboxed and the rounds taken never exceed the sized members (`Boxing`).
- *Derives.* Sweeps only take derives away, and each derive is settled or has lost a type in every
  round (`Settling`), so one round more than there are types suffices for all derives at once. The
  theorem is about derives the crate asks of every type, the case finding 2 leaves.

**Forms** (`DirectionProofs`). `Tracing` says what the worklist of a direction has visited is
closed but for what is queued; that makes `reach` closed when it ends, the fixed point over differing forms
closed under holding, and each reference of a twin lead to a twin where there is one. `Directed`
adds the two properties, which no later pass disturbs because the passes that follow hold on to what
was held. For `CyclesReportedOnce`, `Mirrored` says that a twin hands a value on only where its
strict half does: a path between twins is then a path between their halves, so a twin is on a cycle
only when its half is on the same one and the two are one report. That, and that two types on one cycle have the same
report, need the closure to be transitive and the least such relation, which are `PathsJoin` and `PathsLeast` of `TypeGraphProofs`.

**Pairs** (`DirectionProofs`). `PairsConvert` has to survive four passes that change the halves of a
pair at different times. `Halved` says what holds of pairs throughout: the halves face each other,
what a strict half holds has two forms or is shared, and a twin holds twins or what is shared.
`Converted` says that every member of a twin is its strict half's, read. The twins are made so
(`TwinRunConverts`), and retyping, promoting and following aliases do the same to both halves, because
the graphs they look at are mirrored (`ForwardsMirror`, `AliasesMirror`, `NormalizeConverts`,
`PromoteConverts`, `ReopenConverts`).

Boxing is where `Converted` fails: a round boxes one edge, so one half has its box before the other.
`Catching` is what holds instead. Closing edges are ordered by the names at their ends before their
positions, both halves of a pair come from one contract, and a strict half comes before its twin; so once the edge
of two strict halves is boxed, the edge between their twins is the smallest that is left (`Due`,
`SmallestIsDue`), the next round boxes it, and the pairs convert again
(`BoxStrict`, `BoxTwin`, `BoxRoundCatches`). A table of finite size has no closing edge and so
nothing due (`NothingDue`). Where the rounds run out first (finding 1) a half may stay without its box, which
the premise `FiniteSize` excludes.

**The lemmas underneath** (`TypeGraphProofs`). `Rank` maps the kept positions onto
`1..Cardinality(kept)` in order (`RankInRange`, `RankIncreases`, `RankOnto`), so that `Keep` is a
table of kept entries (`KeepAt`, `KeepLength`). The closure and the sweep are recursive functions;
`Iterates` shows that such a function exists and satisfies its equation, by an induction over a set
of numbers (`UpTo`). `PathsUnfold`, `PathStarts`, `PathsJoin` and `PathsLeast` are what the
theorems know of the closure.

### The components of a graph

`CyclesProofs` carries out Tarjan's argument for the loop the code runs: an explicit stack, edges in
slots of a counting sort, edges that start or end outside the graph. `ComponentsExact` speaks of the
end; `Traversing` says of every step before it what makes the end come out right.

- The open nodes are cut into *segments* by the nodes on the call stack, in the order they were
  entered (`Called`, `Stacked`). A segment is strongly connected (`Connected`), and callers reach
  whoever they called (`CallersReach`).
- The low-link of the node a segment starts at is the order of an open node it reaches, and no edge
  taken out of the segment leads to an open node before it (`LowLinked`). A node that is left with
  its own order as low-link therefore reaches nothing open before it: its segment is a component,
  closed under edges but for components closed earlier (`LeaveClosing`). One that is left with less joins
  the segment below (`LeaveJoined`).
- What is closed is closed under edges, one component number to each class (`Divided`): a path out of a
  closed node stays among closed ones (`PathStays`), so a class is never completed later.
- The adjacency is the edges: the slots of the counting sort are taken once each (`SlotApart`, `SlotOnto`), so
  the neighbours of a node are the ends of its edges (`NeighbourFacts`).
- An order is never the sentinel: a step enters a node or takes an edge, so there are no more entries than
  nodes and edges (`Numbered`). `UnvisitedAssumption` is that the sentinel is greater than both
  together, because the code counts an entry for every edge that leads outside the graph; with `u32::MAX` that
  is a graph that fits in memory.

### The runtime and the routes

**Answers** (`CallProofs`). `Answering`: from the handler's answer on, the reply is what that answer
is written as, and the outcome is the arm the reply's status picks. The rest is that the
two sides decide alike who owns a status although each has code of its own: `PicksOwner` for the
client's ordered match, which takes the first arm of the list, `CoversOwner` for the server's check.
`CallsAssumption` says what `api/operation/response.rs` hands over: arms sorted with exact ones first. There may be
several to one status, since the keys `2XX` and `2xx` of a description both are one; the client
then reads every such answer as the first of them, and `SameArm` says so.

**Bodies** (`CallProofs`). `BodyBounded` is not inductive: that a finished body is whole needs that
what is held is the part of the delivery taken so far, which `Counted` adds. It rests on
`DeliveriesAssumption` (chunk ends increase, lengths are natural numbers) and `LimitsAssumption`.

**Framing** (`MultipartProofs`). `Settled`: the loop is left only with a candidate that no text,
once quoted, holds. From there the proof is about sequences. A candidate starts with a token it holds
nowhere else and holds no separator, so an occurrence of it in the framed body lies within one of
the pieces the body is joined from (`Continued`, `Separated`); of those only the delimiters hold it, each once
(`PieceOnce`). That the candidate is a text at all needs the digits of the counter to be a number of the
radix that reads back, and that the counter never leaves its width. Assumed are a radix of at least
two and a greatest number of at least one (`WidthAssumption`), and that inputs are sequences of
parts (`InputsAssumption`).

**Routes** (`OperationsProofs`). `Registering`: the router has been asked about the first `m`
operations in order, holds the templates of those that are served and nothing else, and every template
it refused is one it still would. The last is what makes the answer independent of what is
registered later: the router only gains templates, and conflicts are with templates it keeps. No
assumption is made of the documents.

### Only model-checked

- Liveness (`TablingEnds`, `Terminates`, `SettlesBelowMax`, `ListingEnds`) and the refinement of `Stream`: the first is outside what the
  provers do, the second runs through `Decode`.
- `DefaultIsFinite`. It needs that what is read and required is never built from itself, which is a
  fact about shapes that `WellFormed` does not state.
- `NamesDistinct`: numbering looks for a free number among those the model's digits can spell, so the
  property for every document would be about that bound.
- `CredentialsAllOrNothing`, `HeadersReadBack`, `HandlerSeesWhatWasSent` and `OwnRequestsAccepted` go through text: a
  Cookie header split into its pairs and joined again, lists written and read back, headers folded one
  after another. What a fold or a split computes for every text is an induction over data.
- The properties of `Client`, `Types`, `Yaml`, `Normalize`, `Resolve` and `Keys` are about trees,
  whose definitions are recursive operators, which the provers do not reach.

## 5. Not modelled, and why

Rendering beyond the functions whose generated text runs in `Call` and `Client`, the
field-by-field reading of documents, RFC 3339, the catalogue and the command line have no state whose order matters. In the
contract layer: the names of types (`contract/name.rs` `claim`), the open rules
(`contract/select.rs`), the choice of a decoding strategy (`finalize::decide`) and the reservation of
positions while lowering are not yet modelled; reading a multipart body back is not yet either.
In the shape layer: booleans and string formats, the width of integers (`shape/fit.rs`),
`patternProperties`, discriminators inherited from a base (families are in `Keys`), docs and
defaults, where the roots come from (`shape/roots.rs`), and documents whose schemas refer to
themselves, which would make `Admits` and `Lowered` infinite. Payloads of an untagged union with
members no schema names are left aside by `NothingLost`: a first open branch may drop them.

Left out of modelled parts: in `Decode`, typed reports of response headers and the lenient
reading of the types only the classifier makes (tuples, consumed tags, flattened unions); in `Client`, recursive page types (they share places); in
`Call`, parameters and headers with a media type, tuples, and elements that are not scalars; in
`Yaml`, the supplied final line break and the panic boundary; in `Normalize`, the schema-level `example`, dialects
nobody knows, keywords whose value has another type than they take, and the order of members; in `Resolve`, discriminator
targets and counts.

## 6. Plan

1. `Lowering`: reservation of positions and the `Namer`, composed with `Contracts` so that
   `WellFormed` becomes a checked property of lowering rather than an assumption; the open rules
   of `select.rs`.
2. Documents that refer to themselves in `Shapes`; integer widths (`shape/fit.rs`) and the roots.
3. Multipart reading back, composed with `Multipart` as a round trip.
4. What the bodies and headers of `api/` become; overrides, and how a bundle finds its repeats.

Theorems to add: what a Cookie header split and joined
again holds, for texts without its delimiters, from which the credentials of a call would follow.
