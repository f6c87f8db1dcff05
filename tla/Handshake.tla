----------------------------- MODULE Handshake -----------------------------
(***************************************************************************)
(* Connection::connect and establish (src/connection/mod.rs): from a       *)
(* configuration to a usable connection or the error that says why not.    *)
(* The reply is one frame, whose bytes come in pieces of any size and may  *)
(* stop short; `body` is what its payload says when it is a response.      *)
(*                                                                         *)
(* The protocol's sizes are constants, so that TLC meets their boundaries. *)
(***************************************************************************)
EXTENDS Encoder

CONSTANTS
    MAX_FRAME_SIZE,      \* bound before negotiation, and the floor of what
                         \* may be negotiated (MINIMUM_NEGOTIATED_FRAME_SIZE)
    MAX_METADATA_SIZE,   \* the same two for the metadata region
    READ_CHUNK,          \* the most bytes one read returns
    Configs,             \* configurations, made from NewConfig
    Replies              \* replies: [frame, body]

\* The negotiable sizes start at the pre-negotiation bounds, as in protocol.rs.
MINIMUM_NEGOTIATED_FRAME_SIZE == MAX_FRAME_SIZE
MINIMUM_NEGOTIATED_METADATA_SIZE == MAX_METADATA_SIZE

HEAD_LENGTH == 10
HANDSHAKE_REQUEST_ID == 1
HIGHEST_HEADER_VERSION == 255

\* ConnectionConfig::new; `empty`: the endpoint is. The desired size defaults to
\* the floor as well.
NewConfig(empty) ==
    [empty |-> empty, desired |-> MAX_FRAME_SIZE,
     local_frame |-> MINIMUM_NEGOTIATED_FRAME_SIZE,
     local_metadata |-> MINIMUM_NEGOTIATED_METADATA_SIZE, in_flight |-> 64]

PRE_NEGOTIATION == [frame_size |-> MAX_FRAME_SIZE, metadata_size |-> MAX_METADATA_SIZE]

ASSUME HandshakeAssumption ==
    /\ {MAX_FRAME_SIZE, MAX_METADATA_SIZE, READ_CHUNK} \subseteq Nat \ {0}
    \* Our own request fits, so that build_handshake_request never fails.
    /\ MAX_FRAME_SIZE >= HEADER_LENGTH + HEAD_LENGTH /\ U32_MAX >= HEAD_LENGTH
    /\ \A c \in Configs : {c.desired, c.local_frame, c.local_metadata, c.in_flight} \subseteq Nat
    /\ \A r \in Replies : {r.frame.metadata_length, r.frame.payload_length,
                           r.body.frame_size, r.body.metadata_size} \subseteq Nat

VARIABLES
    config, reply,
    hpc,       \* "validate", "connect", "write", "decode", "read", "check", "done"
    sent,      \* bytes of the request written
    have,      \* bytes of the reply in the buffer
    in_flight, \* the registry of establish
    shut,      \* establish shut the transport down
    result     \* "none", "Usable", or the error

vars == <<config, reply, hpc, sent, have, in_flight, shut, result>>

-----------------------------------------------------------------------------
(* ConnectionConfig::validate *)

Validate(c) ==
    IF c.empty THEN "EmptyEndpoint"
    ELSE IF c.desired < MINIMUM_NEGOTIATED_FRAME_SIZE THEN "FrameSizeBelowFloor"
    ELSE IF c.local_frame < MINIMUM_NEGOTIATED_FRAME_SIZE THEN "LocalFrameSizeBelowFloor"
    ELSE IF c.local_metadata < MINIMUM_NEGOTIATED_METADATA_SIZE
         THEN "LocalMetadataSizeBelowFloor"
    ELSE IF c.in_flight < 1 THEN "InFlightBoundBelowMinimum"
    ELSE "ok"

\* HandshakeRequest::new and encode with what build_handshake_request proposes.
Proposal(c) ==
    [maximum_version |-> 0, minimum_version |-> 0, frame_size |-> c.desired,
     torn |-> FALSE, capabilities |-> <<>>, count |-> 0]

\* HandshakeRequest::encode: the head, and an entry without value for each
\* capability.
EncodedLength(b) == HEAD_LENGTH + 4 * Len(b.capabilities)

\* build_handshake_request.
HandshakeRequest(c) ==
    Encoded([kind |-> Request, code |-> HANDSHAKE_OPCODE,
             request_id |-> HANDSHAKE_REQUEST_ID, metadata |-> <<>>,
             payload |-> Opaque(EncodedLength(Proposal(c)), 0)])

-----------------------------------------------------------------------------
(* The payloads of the handshake; `torn`: the entries do not fill the rest *)
(* of the payload exactly (CapabilityEntries::parse).                      *)

\* check_ascending.
Ascending(ids) == \A i \in 1 .. Len(ids) - 1 : ids[i] < ids[i + 1]

\* HandshakeRequest::decode.
RequestVerdict(payloadLength, b) ==
    IF \/ payloadLength < HEAD_LENGTH
       \/ b.maximum_version < b.minimum_version
       \/ b.torn
       \/ ~Ascending(b.capabilities)
       \/ b.count # Len(b.capabilities)
    THEN "MalformedRequest" ELSE "ok"

\* highest_mutual_version: of those the versions are chosen from.
MutualVersions(b, supported) ==
    {v \in supported : v >= b.minimum_version /\ v <= b.maximum_version}

(* HandshakeResponse::decode against OFFER: version 0 and no capability.   *)

\* Mutant of ResponseVerdict: the metadata size has no floor.
ResponseVerdictNoFloor(payloadLength, b) ==
    IF \/ payloadLength < HEAD_LENGTH \/ b.torn \/ ~Ascending(b.capabilities)
       \/ b.count # Len(b.capabilities)
       \/ b.version # 0
       \/ b.frame_size < MINIMUM_NEGOTIATED_FRAME_SIZE
    THEN "MalformedRequest"
    ELSE IF b.capabilities # <<>> THEN "ProtocolViolation" ELSE "ok"

\* The verdict on a payload.
ResponseVerdict(payloadLength, b) ==
    IF \/ payloadLength < HEAD_LENGTH
       \/ b.torn
       \/ ~Ascending(b.capabilities)
       \/ b.count # Len(b.capabilities)
       \/ b.version > HIGHEST_HEADER_VERSION
       \/ b.version # 0
       \/ b.frame_size < MINIMUM_NEGOTIATED_FRAME_SIZE
       \/ b.metadata_size < MINIMUM_NEGOTIATED_METADATA_SIZE
    THEN "MalformedRequest"
    ELSE IF b.capabilities # <<>> THEN "ProtocolViolation" ELSE "ok"

(* interpret_response: the class an error frame names is the one reported. *)

Interpret(r) ==
    IF r.frame.kind = Error THEN ClassOf(r.frame.code)
    ELSE ResponseVerdict(r.frame.payload_length, r.body)

-----------------------------------------------------------------------------
(* connect and establish *)

Init ==
    /\ config \in Configs /\ reply \in Replies
    /\ hpc = "validate" /\ sent = 0 /\ have = 0 /\ in_flight = {} /\ shut = FALSE /\ result = "none"

\* Mutant of Refuse: the error is lost.
RefuseQuietly(error) == hpc' = "done" /\ UNCHANGED result

\* connect returns an error.
Refuse(error) == hpc' = "done" /\ result' = error

ValidateConfig ==
    /\ hpc = "validate"
    /\ IF Validate(config) = "ok"
       THEN hpc' = "connect" /\ UNCHANGED result
       ELSE Refuse(Validate(config))
    /\ UNCHANGED <<config, reply, sent, have, in_flight, shut>>

\* TokioTransport::connect, then the registration of the handshake.
Connect ==
    /\ hpc = "connect"
    /\ \/ /\ hpc' = "write" /\ in_flight' = {HANDSHAKE_REQUEST_ID}
          /\ UNCHANGED result
       \/ Refuse("Transport") /\ UNCHANGED in_flight
    /\ UNCHANGED <<config, reply, sent, have, shut>>

\* Mutant of Write: what a short write leaves is forgotten.
WriteOnce(n) ==
    /\ hpc = "write"
    /\ sent' = sent + n /\ sent' <= TotalLength(HandshakeRequest(config))
    /\ hpc' = "decode"
    /\ UNCHANGED <<config, reply, have, in_flight, shut, result>>

\* The loop of write_all: one write, of n bytes.
Write(n) ==
    /\ hpc = "write"
    /\ sent' = sent + n /\ sent' <= TotalLength(HandshakeRequest(config))
    /\ hpc' = IF sent' = TotalLength(HandshakeRequest(config)) THEN "decode" ELSE "write"
    /\ UNCHANGED <<config, reply, have, in_flight, shut, result>>

\* A write that fails, or writes nothing.
WriteFails ==
    /\ hpc = "write"
    /\ Refuse("Transport")
    /\ UNCHANGED <<config, reply, sent, have, in_flight, shut>>

\* The bound of the read buffer.
BufferCap(c) ==
    IF c.local_frame < MAX_FRAME_SIZE THEN c.local_frame ELSE MAX_FRAME_SIZE

Context ==
    [role |-> "Client", state |-> "PreNegotiation",
     limits |-> PRE_NEGOTIATION, in_flight |-> {HANDSHAKE_REQUEST_ID}]

\* Mutant of TooLong: the bound itself is refused.
TooLongAtBound(required) == required >= BufferCap(config) \/ have >= BufferCap(config)

\* The buffer check of read_handshake_response.
TooLong(required) == required > BufferCap(config) \/ have >= BufferCap(config)

\* One turn of the loop of read_handshake_response, up to the read; on a
\* frame, interpret_response and the retirement of the handshake too.
DecodeReply ==
    /\ hpc = "decode"
    /\ LET verdict == Decode(reply.frame, have, Context) IN
       \/ /\ verdict.step = "Need"
          /\ IF TooLong(verdict.bytes) THEN Refuse("ResourceLimit")
             ELSE hpc' = "read" /\ UNCHANGED result
          /\ UNCHANGED in_flight
       \/ /\ verdict.step = "Frame" /\ Interpret(reply) = "ok"
          /\ hpc' = "check" /\ in_flight' = in_flight \ {HANDSHAKE_REQUEST_ID}
          /\ UNCHANGED result
       \/ /\ verdict.step = "Frame" /\ Interpret(reply) # "ok"
          /\ Refuse(Interpret(reply)) /\ UNCHANGED in_flight
       \/ /\ verdict.step \in ConnectionFatal \cup RequestScoped
          /\ Refuse(verdict.step) /\ UNCHANGED in_flight
    /\ UNCHANGED <<config, reply, sent, have, shut>>

\* A read of n bytes; the reply may be followed by more.
Read(n) ==
    /\ hpc = "read"
    /\ have' = have + n /\ hpc' = "decode"
    /\ UNCHANGED <<config, reply, sent, in_flight, shut, result>>

\* Mutant of ReadEnd: an empty read is taken for progress.
ReadEndLoops ==
    /\ hpc = "read"
    /\ (hpc' = "decode" /\ UNCHANGED result) \/ Refuse("Transport")
    /\ UNCHANGED <<config, reply, sent, have, in_flight, shut>>

\* The peer closes, or the read fails.
ReadEnd ==
    /\ hpc = "read"
    /\ Refuse("ClosedDuringHandshake") \/ Refuse("Transport")
    /\ UNCHANGED <<config, reply, sent, have, in_flight, shut>>

\* effective_maximum_frame_size and effective_maximum_metadata_size, and the
\* limits the driver is spawned with.
EffectiveLimits(c, b) ==
    [frame_size |-> IF b.frame_size < c.local_frame THEN b.frame_size ELSE c.local_frame,
     metadata_size |-> IF b.metadata_size < c.local_metadata THEN b.metadata_size
                       ELSE c.local_metadata]

\* The rest of establish: the local caps, then the driver is spawned.
CheckCaps ==
    /\ hpc = "check"
    /\ IF in_flight # {} THEN Refuse("ProtocolViolation") /\ UNCHANGED shut
       ELSE IF reply.body.frame_size > config.local_frame
            THEN Refuse("NegotiatedFrameSizeAboveLocal") /\ shut' = TRUE
       ELSE IF reply.body.metadata_size > config.local_metadata
            THEN Refuse("NegotiatedMetadataSizeAboveLocal") /\ shut' = TRUE
       ELSE hpc' = "done" /\ result' = "Usable" /\ UNCHANGED shut
    /\ UNCHANGED <<config, reply, sent, have, in_flight>>

Next ==
    \/ ValidateConfig \/ Connect
    \/ (\E n \in 1 .. MAX_FRAME_SIZE : Write(n)) \/ WriteFails
    \/ DecodeReply
    \/ \E n \in 1 .. READ_CHUNK : Read(n)
    \/ ReadEnd \/ CheckCaps

\* The future of connect is polled, and the peer sends or closes in the end.
Spec == Init /\ [][Next]_vars /\ WF_vars(Next)

-----------------------------------------------------------------------------
(* Properties *)

TypeOK ==
    /\ config \in Configs /\ reply \in Replies
    /\ hpc \in {"validate", "connect", "write", "decode", "read", "check", "done"}
    /\ sent \in 0 .. TotalLength(HandshakeRequest(config))
    /\ have \in Nat
    /\ in_flight \subseteq {HANDSHAKE_REQUEST_ID} /\ shut \in BOOLEAN
    /\ (hpc = "done") = (result # "none")

\* What the reply deserves, read off the whole of it.
Deserved(c, r) ==
    LET verdict == Decode(r.frame, TotalLength(r.frame), Context).step IN
    IF verdict # "Frame" THEN verdict
    ELSE IF Interpret(r) # "ok" THEN Interpret(r)
    ELSE IF r.body.frame_size > c.local_frame THEN "NegotiatedFrameSizeAboveLocal"
    ELSE IF r.body.metadata_size > c.local_metadata THEN "NegotiatedMetadataSizeAboveLocal"
    ELSE "Usable"

\* A connect that the transport and the configuration let finish ends as the
\* reply deserves, however its bytes were cut and whatever follows them: no
\* reply that the bounds allow is refused for the way it was read.
EndsAsDeserved ==
    hpc = "done" /\ Validate(config) = "ok"
        => result \in {Deserved(config, reply), "Transport", "ClosedDuringHandshake"}

\* A usable connection runs under bounds not below the protocol's floor, and the
\* bounds in force, the stricter of the negotiated and the local ones, are the
\* negotiated ones (effective_maximum_frame_size: "on a usable connection the
\* effective bound equals the negotiated one"): neither side refuses a frame the
\* other may send. The handshake has left the registry of establish.
UsableWithinBounds ==
    result = "Usable" =>
        /\ EffectiveLimits(config, reply.body) =
               [frame_size |-> reply.body.frame_size,
                metadata_size |-> reply.body.metadata_size]
        /\ reply.body.frame_size >= MINIMUM_NEGOTIATED_FRAME_SIZE
        /\ reply.body.metadata_size >= MINIMUM_NEGOTIATED_METADATA_SIZE
        /\ in_flight = {} /\ ~shut

\* What a server that supports version 0 makes of the request as it comes in.
ServerContext ==
    [role |-> "Server", state |-> "PreNegotiation", limits |-> PRE_NEGOTIATION,
     in_flight |-> {}]

\* However write_all had to cut it, the request is never refused on the way, is
\* whole before a reply is waited for, and says to the decoder of this crate what
\* was proposed: version 0, no capabilities, the desired size.
RequestUnderstood ==
    LET request == HandshakeRequest(config)
        verdict == Decode(request, sent, ServerContext).step IN
    /\ verdict = IF sent < TotalLength(request) THEN "Need" ELSE "Frame"
    /\ hpc \in {"decode", "read", "check"} \/ result = "Usable" =>
          /\ verdict = "Frame"
          /\ RequestVerdict(request.payload_length, Proposal(config)) = "ok"
          /\ MutualVersions(Proposal(config), {0}) = {0}

\* connect returns: the buffer check and the end of stream leave no way to
\* read for ever.
ConnectReturns == <>(hpc = "done")

=============================================================================
