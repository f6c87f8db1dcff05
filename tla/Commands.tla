------------------------------ MODULE Commands ------------------------------
(***************************************************************************)
(* The five commands: what a command puts into a request                   *)
(* (src/command.rs), what its caller makes of the terminal frame, and the  *)
(* errors a caller is given (CommandError of src/connection/mod.rs).       *)
(*                                                                         *)
(* A key and a value are byte strings no part of the client looks into;    *)
(* each stands for its length. A command is a record [opcode, key, value]. *)
(***************************************************************************)
EXTENDS Encoder

\* Mutant of CommandPayload: the key length counts its own field.
CommandPayloadShifted(c) ==
    CASE c.opcode = PING_OPCODE -> Opaque(0, 0)
      [] c.opcode = SET_OPCODE -> Opaque(4 + c.key + c.value, 4 + c.key)
      [] OTHER -> Opaque(c.key, 0)

\* encode_ping, encode_key and encode_set.
CommandPayload(c) ==
    CASE c.opcode = PING_OPCODE -> Opaque(0, 0)
      [] c.opcode = SET_OPCODE -> Opaque(4 + c.key + c.value, c.key)
      [] OTHER -> Opaque(c.key, 0)

\* The refusals of encode_set.
Representable(c) ==
    c.opcode = SET_OPCODE => c.key <= U32_MAX /\ 4 + c.key + c.value <= U32_MAX

\* encode_request.
CommandRequest(c, id) ==
    [kind |-> Request, code |-> c.opcode, request_id |-> id, metadata |-> <<>>,
     payload |-> CommandPayload(c)]

\* What a command refuses before a byte is sent: set, the test of execute
\* against wire_size, and the mapping of encode_request.
LocalRefusal(c, id, limits) ==
    LET refusal == EncodeError(CommandRequest(c, id), limits) IN
    IF ~Representable(c) THEN "InvalidRequest"
    ELSE IF HEADER_LENGTH + CommandPayload(c).length > limits.frame_size
         THEN "LocalLimitExceeded"
    ELSE IF refusal \in {"FrameTooLarge", "MetadataTooLarge"} THEN "LocalLimitExceeded"
    ELSE IF refusal = "MetadataNotAscending" THEN "InvalidRequest"
    ELSE "none"

-----------------------------------------------------------------------------
(* What a call returns: [ok, value] with the outcome, or with the name of  *)
(* the CommandError. from_class keeps the names of the classes.            *)

Ok(value) == [ok |-> TRUE, value |-> value]
Err(error) == [ok |-> FALSE, value |-> error]
Violation == Err("ProtocolViolation")

Present(n) == <<"Present", n>>
HeldOutsideMemory(n) == <<"HeldOutsideMemory", n>>

\* interpret_ping and interpret_set.
InterpretDone(f) == IF f.code = Success THEN Ok(<<>>) ELSE Violation

\* Mutant of InterpretGet: an empty value is taken for a missing key.
InterpretGetEmpty(f) ==
    CASE f.code = Success /\ f.payload_length > 0 -> Ok(Present(f.payload_length))
      [] f.code = ValueHeldOutsideMemory -> Ok(HeldOutsideMemory(f.inner))
      [] OTHER -> Ok(<<"Absent">>)

\* interpret_get; read_payload gives a Warm payload to the third code and an
\* opaque one to the others.
InterpretGet(f) ==
    CASE f.code = Success -> Ok(Present(f.payload_length))
      [] f.code = Absent -> Ok(<<"Absent">>)
      [] f.code = ValueHeldOutsideMemory -> Ok(HeldOutsideMemory(f.inner))

\* interpret_del and interpret_exists.
InterpretFound(f) ==
    CASE f.code = Success -> Ok(<<TRUE>>)
      [] f.code = Absent -> Ok(<<FALSE>>)
      [] f.code = ValueHeldOutsideMemory -> Violation

\* The match on the kind that all of them share, with result_code_of and
\* error_of.
Interpret(opcode, f) ==
    IF f.kind = Error
    THEN IF f.code \in FatalCodes \cup ScopedCodes THEN Err(ClassOf(f.code)) ELSE Violation
    ELSE IF f.kind # Response \/ f.code \notin ResultCodes THEN Violation
    ELSE CASE opcode \in {PING_OPCODE, SET_OPCODE} -> InterpretDone(f)
           [] opcode = GET_OPCODE -> InterpretGet(f)
           [] opcode \in {DEL_OPCODE, EXISTS_OPCODE} -> InterpretFound(f)

\* Mutant of Ambiguous: a failure of the server counts as a refusal.
AmbiguousLost(error) == error \in {"Transport", "Closed", "Unusable"}

\* CommandError::is_ambiguous.
Ambiguous(error) == error \in {"InternalError", "Transport", "Closed", "Unusable"}

\* Mutant of Scope: a frame that cannot be parsed concerns one request.
ScopeMalformed(error) ==
    CASE error \in {"UnsupportedOperation", "InvalidArgument", "Overloaded",
                    "WrongType", "InternalError", "MalformedRequest"} -> "RequestScoped"
      [] error \in {"ProtocolViolation", "ResourceLimit",
                    "UnsupportedProtocolVersion"} -> "ConnectionFatal"
      [] OTHER -> "none"

\* CommandError::scope.
Scope(error) ==
    CASE error \in {"UnsupportedOperation", "InvalidArgument", "Overloaded",
                    "WrongType", "InternalError"} -> "RequestScoped"
      [] error \in {"ProtocolViolation", "MalformedRequest", "ResourceLimit",
                    "UnsupportedProtocolVersion"} -> "ConnectionFatal"
      [] OTHER -> "none"

=============================================================================
