-------------------------------- MODULE Body --------------------------------
(***************************************************************************)
(* Reading one response body under a limit (read_body in support/http.rs). *)
(* The transport hands the body over in chunks; only their sizes matter    *)
(* here.  A delivery gives where each chunk ends, counted from the start   *)
(* of the body, and the length the service declared, if it declared one.   *)
(* The connection may break before any chunk, or instead of the end.       *)
(***************************************************************************)
EXTENDS Integers, Sequences

CONSTANTS Deliveries,   \* the deliveries the transport may make
          Limits        \* the limits a reading may have, Unlimited among them

Unlimited == -1
Undeclared == -1
NoDelivery == [declared |-> Undeclared, ends |-> <<>>]

Increasing(ends) ==
    /\ \A i \in DOMAIN ends : ends[i] > 0
    /\ \A i \in DOMAIN ends : i > 1 => ends[i - 1] < ends[i]

ASSUME DeliveriesAssumption ==
    \A d \in Deliveries : /\ d = [declared |-> d.declared, ends |-> d.ends]
                          /\ d.declared \in Nat \cup {Undeclared}
                          /\ d.ends \in Seq(Nat) /\ Increasing(d.ends)
ASSUME LimitsAssumption == Limits \subseteq Nat \cup {Unlimited}

VARIABLES
    delivery,   \* what the transport hands over for this response
    limit,      \* the limit this reading is held to
    taken,      \* how many chunks were taken
    held,       \* how many bytes the reader holds
    read        \* how the reading stands: "idle", "reading", "whole", "tooLarge", "broken"

bodyVars == <<delivery, limit, taken, held, read>>

Upto(d, k) == IF k = 0 THEN 0 ELSE d.ends[k]
Total(d) == Upto(d, Len(d.ends))
Size(d, k) == Upto(d, k) - Upto(d, k - 1)

BodyIdle ==
    /\ delivery = NoDelivery /\ limit = Unlimited
    /\ taken = 0 /\ held = 0 /\ read = "idle"

\* A response arrives and its body is about to be read.
Receive(d, l) ==
    /\ read # "reading"
    /\ delivery' = d /\ limit' = l
    /\ taken' = 0 /\ held' = 0 /\ read' = "reading"

-----------------------------------------------------------------------------
Settle(how) == read' = how /\ UNCHANGED <<delivery, limit, taken, held>>

\* Mutant: the chunk alone is held to the limit.
FitsLimitAlone(more) == more <= limit

\* What is held with one more chunk stays within the limit.
FitsLimit(more) == held + more <= limit

DeclaredTooLarge == limit # Unlimited /\ delivery.declared > limit

\* A declared length past the limit is refused before a byte is read.
RefuseUnread ==
    /\ read = "reading" /\ DeclaredTooLarge
    /\ Settle("tooLarge")

Streaming == read = "reading" /\ limit # Unlimited /\ ~DeclaredTooLarge
Coming == Size(delivery, taken + 1)

TakeChunk ==
    /\ Streaming /\ taken < Len(delivery.ends) /\ FitsLimit(Coming)
    /\ taken' = taken + 1
    /\ held' = held + Coming
    /\ UNCHANGED <<delivery, limit, read>>

Overrun ==
    /\ Streaming /\ taken < Len(delivery.ends) /\ ~FitsLimit(Coming)
    /\ Settle("tooLarge")

Finish ==
    /\ Streaming /\ taken = Len(delivery.ends)
    /\ Settle("whole")

\* Without a limit the body is collected in one go.
ReadWhole ==
    /\ read = "reading" /\ limit = Unlimited
    /\ taken' = Len(delivery.ends) /\ held' = Total(delivery) /\ read' = "whole"
    /\ UNCHANGED <<delivery, limit>>

\* The transport fails before the next chunk, or before it could say there is none.
BreakOff ==
    /\ read = "reading" /\ ~DeclaredTooLarge
    /\ Settle("broken")

BodyStep == RefuseUnread \/ TakeChunk \/ Overrun \/ Finish \/ ReadWhole \/ BreakOff
BodyNext == BodyStep \/ \E d \in Deliveries, l \in Limits : Receive(d, l)
BodySpec == BodyIdle /\ [][BodyNext]_bodyVars

-----------------------------------------------------------------------------
(* What the reader holds never passes the limit, whatever length was       *)
(* declared and however the body is cut into chunks; and a body that is    *)
(* handed on was read to its end (support/http.rs, read_body).             *)
BodyBounded ==
    /\ limit # Unlimited => held <= limit
    /\ read = "whole" => taken = Len(delivery.ends) /\ held = Total(delivery)

=============================================================================
