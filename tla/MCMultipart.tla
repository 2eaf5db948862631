---------------------------- MODULE MCMultipart ----------------------------
(* Bodies of no part, of one or of two, whose texts hold the stem behind up *)
(* to two numbers of up to three digits, whole or broken by a line break.   *)
EXTENDS Multipart

BaseThree == 3
\* 13 is 111: greater numbers of as many digits exist, as they do for u32::MAX.
Thirteen == 13

DigitStrings(lens) == UNION {[1..n -> 0..2] : n \in lens}

Behind(digits) == Stem \o <<Dash>> \o digits

PlainBodies == {<< >>, <<Other>>, Stem, <<St, Break, Em>>, Stem \o <<Dash, Dash>>}

\* One number of a length in lens, as it is or split in two.
Single(lens) ==
    {Behind(d) : d \in DigitStrings(lens)}
        \cup {<<St, Break, Em, Dash>> \o d : d \in DigitStrings({2})}
        \cup {Behind(<<d[1], Break, d[2]>>) : d \in DigitStrings({2})}

Double == {Behind(d) \o <<Other>> \o Behind(e) : d \in DigitStrings({1}), e \in DigitStrings({3})}

FramedBodies ==
    {<<[header |-> h, body |-> b]>> :
        h \in PlainBodies \cup Single(1..2), b \in PlainBodies \cup Single(1..3)}
        \cup {<<[header |-> << >>, body |-> b]>> : b \in Double \cup {Behind(<<1, 1, 1, 0>>)}}
        \cup {<<[header |-> h, body |-> <<Other>>], [header |-> << >>, body |-> b]>> :
                h \in PlainBodies, b \in Single(1..3)}
        \cup {<< >>}

==========================================================================
