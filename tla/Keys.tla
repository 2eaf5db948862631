-------------------------------- MODULE Keys --------------------------------
(***************************************************************************)
(* The key of a shape (shape/merge.rs key_of, shape/inheritance.rs): which *)
(* schemas constrain a value written at a schema, through references and   *)
(* allOf, over the targets resolution found.                               *)
(*                                                                         *)
(* A part is a schema read in full, or as the base a subtype extends.  A   *)
(* schema of the document says what key_of asks of it: whether it is a     *)
(* boolean, the members of its allOf, whether it writes one of oneOf and   *)
(* anyOf (dispatches) and with which branches (union), whether a keyword   *)
(* other than those constrains the value (says), and whether its           *)
(* additionalProperties leave a member it does not declare alone (open).   *)
(***************************************************************************)
EXTENDS Resolve

CONSTANT MaxParts   \* MAX_PARTS, the parts a walk looks at

ASSUME MaxPartsAssumption == MaxParts \in Nat \ {0}

VARIABLES
    asked,      \* the schema whose key is being worked out, or Nowhere
    stack,      \* the parts to look at, the next one last
    seen,       \* the parts looked at
    parts,      \* the parts that constrain the value
    truncated,  \* a part was not looked at
    key         \* the finished key, {} while there is none

keyVars == <<asked, stack, seen, parts, truncated, key>>

Nowhere == <<Nothing>>      \* no address

Full(id) == [id |-> id, reading |-> "full"]
InheritedBase(id) == [id |-> id, reading |-> "base"]

IsObject(id) == Schema(id).is = "object"
DeclaresUnion(id) == IsObject(id) /\ Schema(id).dispatches
Constrains(id) == Schema(id).says \/ DeclaresUnion(id)
Follow(id) == IF id \in DOMAIN targets THEN targets[id] ELSE Nowhere

\* The schema a bare reference names: one that says nothing else.
BareReference(id) ==
    IF IsObject(id) /\ ~Constrains(id) /\ Schema(id).allOf = << >> THEN Follow(id) ELSE Nowhere

(***************************************************************************)
(* Families                                                                *)
(***************************************************************************)
\* `subtype` extends `base` through its allOf, and no other schema with a
\* union, and has no union or reference of its own.
Extends(subtype, base) ==
    LET extended == {BareReference(m) : m \in Range(Schema(subtype).allOf)}
    IN  /\ IsObject(subtype)
        /\ ~DeclaresUnion(subtype)
        /\ Follow(subtype) = Nowhere
        /\ base \in extended
        /\ \A other \in extended \ {base, Nowhere} : ~DeclaresUnion(other)

\* Family::of: a base that refers to nothing, and whose union lists nothing
\* but subtypes that extend it.
HeadsFamily(base) ==
    /\ DeclaresUnion(base)
    /\ Schema(base).open
    /\ Schema(base).allOf = << >>
    /\ Follow(base) = Nowhere
    /\ Schema(base).union # << >>
    /\ \A branch \in Range(Schema(base).union) :
          /\ BareReference(branch) # Nowhere
          /\ Extends(BareReference(branch), base)
Subtypes(base) == {BareReference(branch) : branch \in Range(Schema(base).union)}

\* inheritance::part: what a member of child's allOf contributes.
MemberPart(child, member) ==
    LET base == BareReference(member)
    IN  IF base # Nowhere /\ HeadsFamily(base) /\ child \in Subtypes(base)
        THEN InheritedBase(base)
        ELSE Full(member)

-----------------------------------------------------------------------------
\* Mutant: what was looked at is known by schema alone.
SeenBySchema(part) == \E other \in seen : other.id = part.id

\* By reading as well as by schema, so a base reached in full after it was
\* reached as an inherited base is still expanded.
Seen(part) == part \in seen

\* What looking at a part puts on the stack: its target, then its allOf.
Pushed(id) ==
    (IF Follow(id) = Nowhere THEN << >> ELSE <<Full(Follow(id))>>)
    \o [i \in DOMAIN Schema(id).allOf |-> MemberPart(id, Schema(id).allOf[i])]

\* ShapeKey::new: a schema read both ways is read in full.
ShapeKey(S) == {p \in S : p.reading = "full" \/ Full(p.id) \notin S}

AskKey ==
    /\ phase = "resolved"
    /\ asked = Nowhere
    /\ asked' \in Store
    /\ stack' = <<Full(asked')>>
    /\ seen' = {} /\ parts' = {} /\ truncated' = FALSE
    /\ UNCHANGED <<resolveVars, key>>

\* The stack's last part comes off and is looked at, unless it was before.
PopPart ==
    LET part == Last(stack)
        id   == part.id
    IN  /\ asked # Nowhere /\ key = {} /\ stack # << >>
        /\ \/ /\ Seen(part)
              /\ stack' = Front(stack)
              /\ UNCHANGED <<seen, parts, truncated>>
           \/ /\ ~Seen(part)
              /\ Cardinality(seen) >= MaxParts
              /\ seen' = seen \cup {part}
              /\ stack' = Front(stack)
              /\ truncated' = TRUE
              /\ UNCHANGED parts
           \/ /\ ~Seen(part)
              /\ Cardinality(seen) < MaxParts
              /\ seen' = seen \cup {part}
              /\ stack' = Front(stack) \o
                    (IF part.reading = "full" /\ IsObject(id) THEN Pushed(id) ELSE << >>)
              /\ parts' = IF \/ part.reading = "base"
                             \/ Schema(id).is = "false"
                             \/ IsObject(id) /\ Constrains(id)
                          THEN parts \cup {part} ELSE parts
              /\ UNCHANGED truncated
        /\ UNCHANGED <<resolveVars, asked, key>>

\* A key that holds nothing, or not all it should, holds the schema itself.
FinishKey ==
    /\ asked # Nowhere /\ key = {} /\ stack = << >>
    /\ key' = ShapeKey(IF parts = {} \/ truncated THEN parts \cup {Full(asked)} ELSE parts)
    /\ UNCHANGED <<resolveVars, asked, stack, seen, parts, truncated>>

KeysIdle ==
    asked = Nowhere /\ stack = << >> /\ seen = {} /\ parts = {} /\ truncated = FALSE /\ key = {}

KeysNext == AskKey \/ PopPart \/ FinishKey

-----------------------------------------------------------------------------
\* The parts that reach the value: the least set that holds the schema, the
\* target of each schema of it and what each of their allOf contributes.
RECURSIVE Reaching(_)
Reaching(S) ==
    LET more == UNION {Range(Pushed(p.id)) : p \in {q \in S : q.reading = "full" /\ IsObject(q.id)}}
    IN  IF more \subseteq S THEN S ELSE Reaching(S \cup more)

Constraining(id) == {p \in Reaching({Full(id)}) :
                        p.reading = "base" \/ Schema(p.id).is = "false"
                            \/ (IsObject(p.id) /\ Constrains(p.id))}

\* A shape's key is every schema that constrains the value and nothing else,
\* each once and in full where any way to it is full; a key that lost a part
\* to the limit holds the schema it was asked for, so it is never taken for
\* the key of what is left; and a schema that only points at another has the
\* other's key wherever anything constrains the value.
KeysLoseNothing ==
    key # {} =>
        LET whole == ShapeKey(Constraining(asked))
        IN  \/ key = whole /\ key # {}
            \/ whole = {} /\ key = {Full(asked)}
            \/ /\ Cardinality(Reaching({Full(asked)})) > MaxParts
               /\ Full(asked) \in key
               /\ \A p \in key : \E q \in Constraining(asked) \cup {Full(asked)} : p.id = q.id

=============================================================================
