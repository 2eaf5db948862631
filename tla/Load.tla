-------------------------------- MODULE Load --------------------------------
(***************************************************************************)
(* From a document as it was written to the schemas its references name:   *)
(* normalization (Normalize) hands what it rewrote, with the moves it      *)
(* made, to resolution (Resolve), which keys are worked out over (Keys).   *)
(* The parsers in between (doc/parse.rs, schema/parse.rs) register each    *)
(* schema at its address and read from it what resolution and keys ask.    *)
(***************************************************************************)
EXTENDS Normalize, Keys

\* The members of an array of subschemas, in order.
Listed(t, at, keyword) ==
    [i \in 1..Cardinality(Members(t, at, keyword)) |-> at \o <<keyword, ToString(i - 1)>>]

\* What the parser reads from a schema.
Parsed(t, at) ==
    LET own == t[at]
    IN  [is |-> own.is,
         ref |-> IF own.ref = << >> THEN NoReference ELSE Reference(Nothing, "pointer", own.ref, Nothing),
         id |-> Nothing, anchors |-> {},
         allOf |-> Listed(t, at, "allOf"),
         dispatches |-> Writes(t, at, "anyOf") \/ Writes(t, at, "oneOf"),
         union |-> Listed(t, at, "anyOf") \o Listed(t, at, "oneOf"),
         says |-> \/ [own EXCEPT !.ref = << >>, !.origin = Unwritten] # Empty
                  \/ \E a \in Under(t, at) \ {at} : a[Len(at) + 1] \notin Compositions,
         open |-> TRUE]

\* The document resolution is given.
Document(t, moves) ==
    LET schemas == Registered(t)
    IN  [schemas |-> [a \in schemas |-> Parsed(t, a)], parsed |-> schemas, hidden |-> << >>,
         moves |-> moves, repeats |-> << >>, components |-> << >>, uses |-> << >>]

HandOver ==
    /\ stage = "rewritten" /\ phase = "idle"
    /\ doc' = Document(tree, moved)
    /\ phase' = "materialize"
    /\ readAt' = [id \in doc'.parsed |-> 0]
    /\ UNCHANGED <<normalizeVars, keyVars, aliases, round, targets, use, ends, noted>>

PipelineNext ==
    \/ NormalizeNext /\ UNCHANGED <<resolveVars, keyVars>>
    \/ HandOver
    \/ ResolveNext /\ UNCHANGED <<normalizeVars, keyVars>>
    \/ KeysNext /\ UNCHANGED normalizeVars

-----------------------------------------------------------------------------
(***************************************************************************)
(* Properties                                                              *)
(***************************************************************************)
\* The schemas whose pointer names a schema of the document as written.
Naming == {s \in Store : tree[s].ref # << >> /\ \E at \in Store : tree[s].ref = tree[at].origin}
IsReadAsWritten(s) == s \in DOMAIN targets /\ tree[targets[s]].origin = tree[s].ref

\* A rewritten document says what was written: every schema still accepts the
\* values it accepted in its own dialect, however its rewrites work on one
\* another and on what is around and below it; payloads that look like
\* schemas are untouched; outside 3.0 nothing changes without a report; and a
\* pointer to a position as it was written is resolved to the schema that was
\* written there, wherever the rewrites moved it.  Positions that `nullable`
\* takes into a branch are not recorded as moved and are left out here.
NormalizedAsWritten ==
    stage = "rewritten" =>
        /\ phase = "idle" => Normalized
        /\ phase = "resolved" =>
              \A s \in Naming : IsWrapped(tree[s].ref) \/ IsReadAsWritten(s)

\* A pointer that is resolved is resolved to no other schema than the one
\* written where it points: "a `$ref` to the position as written still reaches
\* the one schema that is there, rather than a copy read again" (normalize.rs,
\* of Move).
PointersReadAsWritten ==
    stage = "rewritten" /\ phase = "resolved" =>
        \A s \in Naming \cap DOMAIN targets : IsReadAsWritten(s)

=============================================================================
