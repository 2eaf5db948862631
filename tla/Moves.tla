------------------------------- MODULE Moves -------------------------------
(***************************************************************************)
(* Addresses in a document and the moves a rewrite makes between them      *)
(* (normalize.rs Move, moved_address).  An address is a sequence of        *)
(* tokens, a move says that what stood at `from` now stands at `to`.       *)
(***************************************************************************)
EXTENDS Naturals, Sequences, FiniteSets, SequencesExt

Move(from, to) == [from |-> from, to |-> to]

\* What is left of an address below one of its prefixes.
Past(prefix, address) == SubSeq(address, Len(prefix) + 1, Len(address))

\* Where one move puts what stood at an address.
Shifted(address, move) ==
    IF IsPrefix(move.from, address) THEN move.to \o Past(move.from, address) ELSE address

\* Mutant: the moves applied with the last one first.
ShiftedByLast(address, moves) == FoldRight(LAMBDA move, at : Shifted(at, move), moves, address)

\* Where normalization put what was written at `address`: the moves in the
\* order they ran, each at most once.
ShiftedByAll(address, moves) == FoldLeft(Shifted, address, moves)

=============================================================================
