----------------------------- MODULE Multipart -----------------------------
(***************************************************************************)
(* support/multipart.rs: the boundary of a multipart body, and the framing *)
(* it has to keep unambiguous. A text is a sequence of tokens: the two     *)
(* halves of the stem every boundary is built from, a dash, digits, a line *)
(* break, anything else.                                                   *)
(***************************************************************************)
EXTENDS Integers, Sequences, FiniteSets

CONSTANTS
    Radix,      \* of the decimals, 10 in the code
    MaxAttempt, \* u32::MAX in the code
    Inputs      \* the bodies to frame: sequences of parts

\* The numbers below Radix are the digits.
Letter == 0..(Radix + 4)
St == Radix
Em == Radix + 1
Dash == Radix + 2
Break == Radix + 3
Other == Radix + 4

\* "header" stands for the name, the filename and the content type alike.
Part == [header : Seq(Letter), body : Seq(Letter)]

ASSUME WidthAssumption == Radix \in Nat \ {0, 1} /\ MaxAttempt \in Nat \ {0}
ASSUME InputsAssumption == Inputs \subseteq Seq(Part)

VARIABLES
    parts,      \* what the request carries
    framing,    \* scan, then probe until a candidate is free
    attempt     \* the suffix of the candidate, 0 for the stem alone

framingVars == <<parts, framing, attempt>>

Stem == <<St, Em>>

-----------------------------------------------------------------------------

OccursAt(needle, text, at) ==
    /\ at + Len(needle) - 1 <= Len(text)
    /\ \A k \in DOMAIN needle : text[at + k - 1] = needle[k]

Occurrences(needle, text) == {at \in DOMAIN text : OccursAt(needle, text, at)}

\* A value inside a header loses its line breaks, a body does not.
Quoted(text) ==
    LET kept[k \in 0..Len(text)] ==
            IF k = 0 THEN << >>
            ELSE IF text[k] = Break THEN kept[k - 1] ELSE Append(kept[k - 1], text[k])
    IN  kept[Len(text)]

\* What is looked at to find a collision. Mutant: the headers before they are quoted.
ScannedRaw(part) == {part.header, part.body}
Scanned(part) == {Quoted(part.header), part.body}

Searched == UNION {Scanned(parts[k]) : k \in DOMAIN parts}

Decimal(n) ==
    LET digits[k \in 0..n] ==
            IF k < Radix THEN <<k>> ELSE Append(digits[k \div Radix], k % Radix)
    IN  digits[n]

Candidate(n) == IF n = 0 THEN Stem ELSE Stem \o <<Dash>> \o Decimal(n)

Collides(n) == \E text \in Searched : Occurrences(Candidate(n), text) # {}

\* The digits right behind an occurrence of the stem and a dash, most of them.
Digits(text, at) ==
    LET from == at + Len(Stem) + 1
        run == {n \in 0..(Len(text) - from + 1) :
                    /\ OccursAt(<<Dash>>, text, from - 1)
                    /\ \A k \in from..(from + n - 1) : text[k] \in 0..(Radix - 1)}
    IN  IF run = {} THEN << >>
        ELSE SubSeq(text, from, from + (CHOOSE n \in run : \A m \in run : m <= n) - 1)

ValueOfDigits(digits) ==
    LET value[k \in 0..Len(digits)] ==
            IF k = 0 THEN 0 ELSE value[k - 1] * Radix + digits[k]
    IN  value[Len(digits)]

\* A number too large for the counter parses to nothing, which counts as 0.
Numbered(digits) == IF ValueOfDigits(digits) <= MaxAttempt THEN ValueOfDigits(digits) ELSE 0

Following(n) == IF n = MaxAttempt THEN n ELSE n + 1

Numbers == UNION {{Digits(text, at) : at \in Occurrences(Stem, text)} : text \in Searched}

\* One past the greatest number any occurrence of the stem carries.
First(suffixes) ==
    LET after == {1} \cup {Following(Numbered(digits)) : digits \in suffixes}
    IN  CHOOSE n \in after : \A m \in after : m <= n

-----------------------------------------------------------------------------

FramingInit ==
    /\ parts \in Inputs
    /\ framing = "scan"
    /\ attempt = 0

\* The stem alone, or a numbered candidate to start from.
Scan ==
    /\ framing = "scan"
    /\ IF Collides(0) THEN framing' = "probe" /\ attempt' = First(Numbers)
       ELSE framing' = "done" /\ attempt' = 0
    /\ UNCHANGED parts

Accept ==
    /\ framing = "probe"
    /\ ~Collides(attempt)
    /\ framing' = "done"
    /\ UNCHANGED <<parts, attempt>>

\* Mutant: the same candidate is tried again.
Unmoved(n) == n
Raised(n) == Following(n)

Retry ==
    /\ framing = "probe"
    /\ Collides(attempt)
    /\ attempt' = Raised(attempt)
    /\ UNCHANGED <<parts, framing>>

Finished == framing = "done" /\ UNCHANGED framingVars

FramingNext == Scan \/ Accept \/ Retry \/ Finished

\* One thread runs the loop.
FramingSpec == FramingInit /\ [][FramingNext]_framingVars /\ WF_framingVars(FramingNext)

-----------------------------------------------------------------------------

Delimiter == <<Dash, Dash>> \o Candidate(attempt)
Line == <<Break>>

\* A part as written: a delimiter, its headers and its body.
Piece(part) ==
    Delimiter \o Line \o <<Other>> \o Quoted(part.header) \o Line \o Line \o part.body \o Line

Pieces ==
    LET upTo[k \in 0..Len(parts)] ==
            IF k = 0 THEN << >> ELSE upTo[k - 1] \o Piece(parts[k])
    IN  upTo[Len(parts)]

\* The body as written: every part and the last delimiter.
Framed == Pieces \o (Delimiter \o <<Dash, Dash>> \o Line)

\* The boundary stands where the framing put it and nowhere else, so that a reader
\* splits the body into the parts it was written from (fn boundary: "appears in none
\* of the parts").
FramesExactly ==
    framing = "done" => Cardinality(Occurrences(Candidate(attempt), Framed)) = Len(parts) + 1

\* The choice ends unless a text carries the greatest number there is.
SettlesBelowMax ==
    (\A text \in Searched : Occurrences(Candidate(MaxAttempt), text) = {}) ~> framing = "done"

==========================================================================
