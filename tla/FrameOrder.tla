----------------------------- MODULE FrameOrder -----------------------------
(***************************************************************************)
(* What the read side of the driver promises, with no bytes in it: the     *)
(* frames the peer sent are handled whole, one at a time and in order,     *)
(* each by the verdict of decode under the requests live at that moment;   *)
(* the first one that answers no live request ends the session.            *)
(***************************************************************************)
EXTENDS Protocol, Sequences

CONSTANTS
    Ids,        \* request identifiers
    Frames,     \* the frames the peer may send
    MaxFrames,  \* bound: frames sent in one session
    Limits      \* the effective bounds

VARIABLES
    live,    \* the requests in flight
    stream,  \* the frames sent, in order
    log,     \* the frames dispatched so far: identifier and verdict
    ended    \* the session is over

vars == <<live, stream, log, ended>>

\* The context drain_frames decodes under.
Context(ids) ==
    [role |-> "Client", state |-> "Negotiated", limits |-> Limits, in_flight |-> ids]

\* The verdicts that leave the session usable.
Dispatchable(step) == step \in RequestScoped \cup {"Frame"}

Init == live = {} /\ stream = <<>> /\ log = <<>> /\ ended = FALSE

Submit(i) ==
    /\ ~ended /\ i \notin live
    /\ live' = live \cup {i}
    /\ UNCHANGED <<stream, log, ended>>

PeerSend(f) ==
    /\ Len(stream) < MaxFrames
    /\ stream' = Append(stream, f)
    /\ UNCHANGED <<live, log, ended>>

Handle ==
    /\ ~ended /\ Len(log) < Len(stream)
    /\ LET f == stream[Len(log) + 1]
           step == Decode(f, TotalLength(f), Context(live)).step
       IN  IF Dispatchable(step) /\ f.request_id \in live
           THEN /\ live' = live \ {f.request_id}
                /\ log' = Append(log, <<f.request_id, step>>)
                /\ UNCHANGED ended
           ELSE ended' = TRUE /\ live' = {} /\ UNCHANGED log
    /\ UNCHANGED stream

Next == (\E i \in Ids : Submit(i)) \/ (\E f \in Frames : PeerSend(f)) \/ Handle

Spec == Init /\ [][Next]_vars

=============================================================================
