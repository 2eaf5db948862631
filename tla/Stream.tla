------------------------------- MODULE Stream -------------------------------
(***************************************************************************)
(* What a stream over a paginated listing promises its caller: the items   *)
(* of the listing, in order, each once.  It may fail at any time, but it   *)
(* ends only when it has given everything.                                 *)
(***************************************************************************)
EXTENDS Sequences, Naturals

VARIABLES listing,   \* every item of every page, as the service holds them
          given,     \* the items the caller was given
          standing   \* "open", "ended" or "failed"

vars == <<listing, given, standing>>

Init == given = <<>> /\ standing = "open"

Give ==
    /\ standing = "open" /\ Len(given) < Len(listing)
    /\ given' = Append(given, listing[Len(given) + 1])
    /\ UNCHANGED <<listing, standing>>

End ==
    /\ standing = "open" /\ given = listing
    /\ standing' = "ended" /\ UNCHANGED <<listing, given>>

Fail ==
    /\ standing = "open"
    /\ standing' = "failed" /\ UNCHANGED <<listing, given>>

Next == Give \/ End \/ Fail
Spec == Init /\ [][Next]_vars

=============================================================================
