------------------------------- MODULE Stream -------------------------------
(***************************************************************************)
(* The read side of run_driver and drain_frames (src/connection/driver.rs) *)
(* at the level of bytes. The peer's frames form one byte stream; a read   *)
(* appends up to READ_CHUNK bytes of it to the buffer, wherever they end;  *)
(* drain_frames then decodes the head of the buffer again and again until  *)
(* decode needs more. Session has the rest of the driver, with frames that *)
(* are whole: that this is sound is what Stream shows.                     *)
(***************************************************************************)
EXTENDS Protocol, Sequences

CONSTANTS
    Ids,         \* request identifiers
    Frames,      \* the frames the peer may send
    MaxFrames,   \* bound: frames sent in one session
    ChunkSizes,  \* the sizes a read may return
    Limits       \* the effective bounds

ASSUME StreamAssumption ==
    /\ \A f \in Frames : f.metadata_length \in Nat /\ f.payload_length \in Nat
    /\ MaxFrames \in Nat
    /\ ChunkSizes \subseteq Nat \ {0}
    /\ Limits.frame_size \in Nat /\ Limits.frame_size >= HEADER_LENGTH

VARIABLES
    live,     \* the registry and the completion map (equal: RegistryMatches)
    stream,   \* the frames the peer sent, in order
    arrived,  \* bytes of the stream read into the buffer
    drained,  \* bytes of the stream drained from the buffer
    log,      \* the frames dispatched so far: identifier and verdict
    dpc       \* "select", "drain" (inside drain_frames) or "ended"

vars == <<live, stream, arrived, drained, log, dpc>>

\* The length of the first k frames sent.
Boundary(k) ==
    LET sum[n \in 0 .. Len(stream)] ==
            IF n = 0 THEN 0 ELSE sum[n - 1] + TotalLength(stream[n])
    IN  sum[k]

Init ==
    /\ live = {} /\ stream = <<>> /\ log = <<>>
    /\ arrived = 0 /\ drained = 0 /\ dpc = "select"

-----------------------------------------------------------------------------

Submit(i) ==
    /\ dpc = "select" /\ i \notin live
    /\ live' = live \cup {i}
    /\ UNCHANGED <<stream, arrived, drained, log, dpc>>

PeerSend(f) ==
    /\ Len(stream) < MaxFrames
    /\ stream' = Append(stream, f)
    /\ UNCHANGED <<live, arrived, drained, log, dpc>>

\* read_chunk: what is there, up to n bytes; then drain_frames.
ReadChunk(n) ==
    /\ dpc = "select"
    /\ arrived < Boundary(Len(stream))
    /\ arrived' = IF arrived + n < Boundary(Len(stream))
                  THEN arrived + n ELSE Boundary(Len(stream))
    /\ dpc' = "drain"
    /\ UNCHANGED <<live, stream, drained, log>>

\* Mutant of FrameTotalLen: the metadata region is forgotten.
FrameTotalLenNoMetadata(f) == HEADER_LENGTH + f.payload_length

\* frame_total_len, the driver's own reading of the header.
FrameTotalLen(f) == HEADER_LENGTH + f.metadata_length + f.payload_length

\* Mutant of Retired: a refused frame does not retire its request.
RetiredByFramesOnly(f, step) == IF step = "Frame" THEN live \ {f.request_id} ELSE live

\* live.retire, in both arms that dispatch.
Retired(f, step) == live \ {f.request_id}

\* Mutant of Drained: one frame is handled for each read.
DrainedOnce(f, step, bytes) ==
    /\ live' = Retired(f, step)
    /\ log' = Append(log, <<f.request_id, step>>)
    /\ drained' = drained + bytes
    /\ dpc' = "select"

\* The arms that dispatch a frame and go round the loop.
Drained(f, step, bytes) ==
    /\ live' = Retired(f, step)
    /\ log' = Append(log, <<f.request_id, step>>)
    /\ drained' = drained + bytes
    /\ UNCHANGED dpc

\* The arms that return a failure; run_driver then fails every request.
SessionEnds == dpc' = "ended" /\ live' = {} /\ UNCHANGED <<log, drained>>

\* One turn of the loop of drain_frames.
DrainFrame ==
    /\ dpc = "drain"
    /\ LET buffered == arrived - drained
           context == [role |-> "Client", state |-> "Negotiated",
                       limits |-> Limits, in_flight |-> live]
       IN  \/ buffered = 0 /\ dpc' = "select" /\ UNCHANGED <<live, log, drained>>
           \/ /\ buffered > 0
              /\ \E k \in 1 .. Len(stream) :
                    /\ Boundary(k - 1) = drained
                    /\ LET f == stream[k]
                           verdict == Decode(f, buffered, context)
                       IN  \/ /\ verdict.step = "Need"
                              /\ dpc' = "select" /\ UNCHANGED <<live, log, drained>>
                           \/ /\ verdict.step = "Frame" /\ f.request_id \in live
                              /\ Drained(f, verdict.step, FrameTotalLen(f))
                           \/ /\ verdict.step \in RequestScoped /\ f.request_id \in live
                              /\ Drained(f, verdict.step, verdict.bytes)
                           \/ /\ verdict.step # "Need"
                              /\ \/ verdict.step \in ConnectionFatal
                                 \/ f.request_id \notin live
                              /\ SessionEnds
    /\ UNCHANGED <<stream, arrived>>

Next ==
    \/ \E i \in Ids : Submit(i)
    \/ \E f \in Frames : PeerSend(f)
    \/ \E n \in ChunkSizes : ReadChunk(n)
    \/ DrainFrame

Spec == Init /\ [][Next]_vars

-----------------------------------------------------------------------------
(* Properties *)

\* The head of the buffer is the start of a frame in every state of a
\* session that goes on, whatever was refused and however the bytes came:
\* drain_frames never decodes from the middle of a frame.
Aligned ==
    dpc # "ended" => drained = Boundary(Len(log)) /\ drained <= arrived

\* When drain_frames returns to select it has handled every frame that has
\* arrived whole, so no answer waits in the buffer for a next read that may
\* never come.
NothingLeft ==
    dpc = "select" /\ Len(log) < Len(stream) => Boundary(Len(log) + 1) > arrived

\* Between two reads the buffer holds less than one frame of the effective
\* bound, although it is never bounded explicitly.
BufferBounded == dpc = "select" => arrived - drained < Limits.frame_size

\* The driver implements FrameOrder: what it does with the byte stream is
\* what one would do with the frames, in their order, one at a time.
FramesInOrder ==
    INSTANCE FrameOrder WITH ended <- dpc = "ended"
ImplementsFrameOrder == FramesInOrder!Spec

=============================================================================
