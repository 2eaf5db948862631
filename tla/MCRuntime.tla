----------------------------- MODULE MCRuntime -----------------------------
(***************************************************************************)
(* The runtime the generated crates share: whole calls (MCCall), whose     *)
(* multipart body stands for its parts, the framing of such a body         *)
(* (MCMultipart), and the answers and pages a client reads (MCClient), one *)
(* of them per behaviour.                                                  *)
(***************************************************************************)
EXTENDS MCCall, MCMultipart, MCClient

FramingIdle == parts = <<>> /\ framing = "done" /\ attempt = 0

CallIdle ==
    /\ call = [params |-> <<>>]
    /\ pc = "idle"
    /\ request = NoRequest /\ assembled = NoRequest
    /\ seen = <<>> /\ seenBody = None /\ rejection = "none"
    /\ reply = Refusal /\ outcome = [result |-> "none", arm |-> 0, headers |-> <<>>]

\* No one called, so no item is listed and none is owed.
ClientIdle ==
    /\ job = [caller |-> "none"] /\ reads = <<>> /\ listing = <<>>
    /\ phase = "idle" /\ cursor = NoValue /\ page = 0 /\ status = "ok"
    /\ result = Problem /\ told = {} /\ items = <<>> /\ next = NoValue /\ out = <<>>
    /\ failure = "none"
    /\ BodyIdle

RuntimeInit ==
    \/ Init /\ FramingIdle /\ ClientIdle
    \/ FramingInit /\ CallIdle /\ ClientIdle
    \/ ClientInit /\ CallIdle /\ FramingIdle
RuntimeNext ==
    \/ Next /\ UNCHANGED <<framingVars, clientVars>>
    \/ FramingNext /\ UNCHANGED <<vars, clientVars>>
    \/ ClientNext /\ UNCHANGED <<vars, framingVars>>

\* One thread runs the loop that chooses the boundary, and a caller awaits the
\* call, or polls the stream, until it is over.
RuntimeSpec ==
    /\ RuntimeInit /\ [][RuntimeNext]_<<vars, framingVars, clientVars>>
    /\ WF_framingVars(FramingNext) /\ WF_clientVars(ClientNext)

=============================================================================
