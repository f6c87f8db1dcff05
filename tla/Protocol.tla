------------------------------ MODULE Protocol ------------------------------
(***************************************************************************)
(* The receiving half of src/protocol.rs: what decode makes of the bytes   *)
(* at the head of a buffer. Encoder has the other half.                    *)
(*                                                                         *)
(* A frame is the record of its header fields and of what its body says:   *)
(* whether the metadata region is cut into entries ("torn" if not) whose   *)
(* identifiers are in order and optional ("refused" if not), and the       *)
(* number that heads the payload of a SET request (the length of the key), *)
(* of an error (of the detail) or of a value held outside memory (its own  *)
(* length). The bytes of a buffer matter by how many they are.             *)
(***************************************************************************)
EXTENDS Integers

HEADER_LENGTH == 20

-----------------------------------------------------------------------------
(* Assigned values *)

Request == 1
Response == 2
Error == 3
Kinds == {Request, Response, Error}
Sender(kind) == IF kind = Request THEN "Client" ELSE "Server"

HANDSHAKE_OPCODE == 1
PING_OPCODE == 2
GET_OPCODE == 3
SET_OPCODE == 4
DEL_OPCODE == 5
EXISTS_OPCODE == 6
Opcodes == 1 .. 6

Success == 0
Absent == 1
ValueHeldOutsideMemory == 4
ResultCodes == {Success, Absent, ValueHeldOutsideMemory}

ConnectionFatal == {"MalformedRequest", "UnsupportedProtocolVersion",
                    "ResourceLimit", "ProtocolViolation"}
RequestScoped == {"UnsupportedOperation", "InvalidArgument", "Overloaded",
                  "InternalError", "WrongType"}
\* ErrorClass::from_wire, by scope.
FatalCodes == {1, 2, 5, 12}
ScopedCodes == {3, 4, 8, 11, 14}

\* ErrorClass::from_wire, by name.
ClassOf(code) ==
    CASE code = 1 -> "MalformedRequest"
      [] code = 2 -> "UnsupportedProtocolVersion"
      [] code = 3 -> "UnsupportedOperation"
      [] code = 4 -> "InvalidArgument"
      [] code = 5 -> "ResourceLimit"
      [] code = 8 -> "Overloaded"
      [] code = 11 -> "InternalError"
      [] code = 12 -> "ProtocolViolation"
      [] code = 14 -> "WrongType"

-----------------------------------------------------------------------------
(* decode *)

TotalLength(f) == HEADER_LENGTH + f.metadata_length + f.payload_length

\* Mutant of HeaderVerdict: the frame limit is not checked before waiting.
HeaderVerdictUnlimited(f, limits) ==
    IF f.version # 0 THEN "UnsupportedProtocolVersion"
    ELSE IF f.kind \notin Kinds \/ f.flags # 0 THEN "ProtocolViolation"
    ELSE IF f.metadata_length > limits.metadata_size THEN "MalformedRequest"
    ELSE "ok"

\* admit, up to the length check: what the header alone decides.
HeaderVerdict(f, limits) ==
    IF f.version # 0 THEN "UnsupportedProtocolVersion"
    ELSE IF f.kind \notin Kinds THEN "ProtocolViolation"
    ELSE IF TotalLength(f) > limits.frame_size THEN "ResourceLimit"
    ELSE IF f.flags # 0 THEN "ProtocolViolation"
    ELSE IF f.metadata_length > limits.metadata_size THEN "MalformedRequest"
    ELSE "ok"

\* check_connection_state.
StateAllows(state, f) ==
    LET isHandshake == f.kind = Request /\ f.code = HANDSHAKE_OPCODE IN
    \/ /\ state = "PreNegotiation"
       /\ isHandshake \/ (f.kind = Response /\ f.code = 0) \/ f.kind = Error
    \/ state = "Negotiated" /\ ~isHandshake

\* Mutant of Correlate: a fatal error may not name a request in flight.
CorrelateFatalUnnamed(f, inFlight) ==
    LET named == f.request_id # 0 /\ f.request_id \in inFlight IN
    IF \/ f.kind = Request /\ f.request_id # 0 /\ ~named
       \/ f.kind = Response /\ named /\ f.code \in ResultCodes
       \/ f.kind = Error /\ f.code \in FatalCodes /\ ~named
       \/ f.kind = Error /\ f.code \in ScopedCodes /\ named
    THEN "ok" ELSE "ProtocolViolation"

\* correlate.
Correlate(f, inFlight) ==
    LET named == f.request_id # 0 /\ f.request_id \in inFlight IN
    IF f.kind = Request
    THEN IF f.request_id = 0 \/ f.request_id \in inFlight THEN "ProtocolViolation"
         ELSE IF f.code \in Opcodes THEN "ok" ELSE "UnsupportedOperation"
    ELSE IF \/ f.kind = Response /\ named /\ f.code \in ResultCodes
            \/ f.kind = Error /\ f.code \in FatalCodes
            \/ f.kind = Error /\ f.code \in ScopedCodes /\ named
         THEN "ok" ELSE "ProtocolViolation"

\* read_payload and check_operation_request.
PayloadFits(f) ==
    CASE f.kind = Request /\ f.code = PING_OPCODE -> f.payload_length = 0
      [] f.kind = Request /\ f.code = SET_OPCODE ->
            f.payload_length >= 4 /\ 4 + f.inner <= f.payload_length
      [] f.kind = Response /\ f.code = Absent -> f.payload_length = 0
      [] f.kind = Response /\ f.code = ValueHeldOutsideMemory -> f.payload_length = 8
      [] f.kind = Error -> f.payload_length >= 2 /\ 2 + f.inner <= f.payload_length
      [] OTHER -> TRUE

\* The rest of admit and decode, on a complete frame.
BodyVerdict(f, admission) ==
    IF f.metadata = "torn" THEN "MalformedRequest"
    ELSE IF Sender(f.kind) = admission.role THEN "ProtocolViolation"
    ELSE IF ~StateAllows(admission.state, f) THEN "ProtocolViolation"
    ELSE IF Correlate(f, admission.in_flight) # "ok" THEN Correlate(f, admission.in_flight)
    ELSE IF f.metadata = "refused" THEN "InvalidArgument"
    ELSE IF ~PayloadFits(f) THEN "MalformedRequest"
    ELSE "Frame"

\* retires_for: the identifier an admitted frame retires, 0 for none.
Retires(f) ==
    IF f.kind = Response \/ (f.kind = Error /\ f.code \in ScopedCodes)
    THEN f.request_id ELSE 0

Need(n) == [step |-> "Need", bytes |-> n]
Admitted(f) == [step |-> "Frame", bytes |-> TotalLength(f)]

\* Mutant of Refused: every failure consumes the whole buffer.
RefusedWhole(f, class, have) == [step |-> class, bytes |-> have]

\* step_for; the early returns of admit are all connection-fatal.
Refused(f, class, have) ==
    [step |-> class,
     bytes |-> IF class \in RequestScoped THEN TotalLength(f) ELSE have]

\* Mutant of Decode: the header is only checked while the body is awaited.
DecodeChecksWhenWaiting(f, have, admission) ==
    IF have < HEADER_LENGTH THEN Need(HEADER_LENGTH)
    ELSE IF have >= TotalLength(f)
         THEN IF BodyVerdict(f, admission) = "Frame" THEN Admitted(f)
              ELSE Refused(f, BodyVerdict(f, admission), have)
    ELSE IF HeaderVerdict(f, admission.limits) # "ok"
         THEN Refused(f, HeaderVerdict(f, admission.limits), have)
    ELSE Need(TotalLength(f))

\* decode of a buffer of `have` bytes that starts with the frame f.
Decode(f, have, admission) ==
    IF have < HEADER_LENGTH THEN Need(HEADER_LENGTH)
    ELSE IF HeaderVerdict(f, admission.limits) # "ok"
         THEN Refused(f, HeaderVerdict(f, admission.limits), have)
    ELSE IF have < TotalLength(f) THEN Need(TotalLength(f))
    ELSE IF BodyVerdict(f, admission) = "Frame" THEN Admitted(f)
    ELSE Refused(f, BodyVerdict(f, admission), have)

=============================================================================
