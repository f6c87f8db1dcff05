------------------------------ MODULE Exchange ------------------------------
(***************************************************************************)
(* One command from its call to its result, through both codecs: the       *)
(* client encodes the request, the server decodes it as its bytes come in, *)
(* acts on what it holds and encodes an answer, the driver decodes that    *)
(* among the requests in flight, and the caller decodes it again           *)
(* (decode_own) and interprets it. Session has the many calls and the      *)
(* driver between them; here a frame has lengths, codes and contents.      *)
(*                                                                         *)
(* The server is not part of the repository. It does what the comments on  *)
(* ping, get, set, del and exists (src/connection/mod.rs) say of it, may   *)
(* refuse, may fail before or after it acted, and may answer what no       *)
(* server should, or with metadata the client must refuse.                 *)
(***************************************************************************)
EXTENDS Decoder, Commands

CONSTANTS
    Requests,    \* the commands a caller may issue
    Cells,       \* what the server may hold under a key: [form, length]
    Id, Others,  \* the identifier of the call, and of other requests in flight
    Limits,      \* the effective limits of both sides
    AnswerMetadata   \* the metadata of an answer

Keys == {c.key : c \in Requests}
None == [form |-> "absent", length |-> 0]

ASSUME ExchangeAssumption ==
    /\ \A c \in Requests : c.opcode \in Opcodes \ {HANDSHAKE_OPCODE} /\ {c.key, c.value} \subseteq Nat
    /\ Cells \subseteq [form : {"absent", "bytes", "warm", "other"}, length : Nat]
    /\ Id \in Nat \ {0} /\ Others \subseteq Nat \ {0, Id}
    /\ Limits \in [frame_size : Nat, metadata_size : Nat]
    /\ Limits.metadata_size <= U16_MAX /\ Limits.frame_size <= U32_MAX
    /\ \A m \in AnswerMetadata : MetadataLength(m) \in Nat

VARIABLES
    stage,    \* "stray": any frame at all; else "idle", "request", "answer", "done"
    command,  \* the command issued
    held,     \* what the server holds under each key
    was,      \* ... and held before
    conduct,  \* how the server treated the request
    fate,     \* whether the driver goes on after the answer
    result    \* what the call returned

exchange == <<stage, command, held, was, conduct, fate, result>>
evars == <<vars, exchange>>

ServerContext ==
    [role |-> "Server", state |-> "Negotiated", limits |-> Limits, in_flight |-> Others]
ClientContext ==
    [role |-> "Client", state |-> "Negotiated", limits |-> Limits, in_flight |-> Others \cup {Id}]

Pending == Ok("pending")
Ping == [opcode |-> PING_OPCODE, key |-> 0, value |-> 0]

ExchangeInit ==
    /\ \/ Init /\ stage = "stray"
       \/ /\ stage = "idle" /\ have = 0
          /\ frame = Encoded(CommandRequest(Ping, Id)) /\ admission = ServerContext
    /\ command = Ping /\ held = [k \in Keys |-> None] /\ was = held
    /\ conduct = "none" /\ fate = "usable" /\ result = Pending

-----------------------------------------------------------------------------

\* The call, up to the submission of the encoded request; the server happens
\* to hold `cell` under its key, and nothing under others.
Issue(c, cell) ==
    /\ stage = "idle"
    /\ command' = c /\ held' = [held EXCEPT ![c.key] = cell] /\ was' = held'
    /\ LET refusal == LocalRefusal(c, Id, Limits) IN
       IF refusal = "none"
       THEN /\ stage' = "request" /\ frame' = Encoded(CommandRequest(c, Id))
            /\ UNCHANGED result
       ELSE /\ stage' = "done" /\ result' = Err(refusal) /\ UNCHANGED frame
    /\ UNCHANGED <<admission, have, conduct, fate>>

\* Another byte of the frame under way, or of what follows it.
Arrive == stage \in {"stray", "request", "answer"} /\ Receive /\ UNCHANGED exchange

\* What the server reads out of the request: a SET is cut at its key length.
KeyRead == IF frame.code = SET_OPCODE THEN frame.inner ELSE frame.payload_length
ValueRead == frame.payload_length - 4 - frame.inner

\* What the operation leaves under its key.
After(cell) ==
    CASE frame.code = SET_OPCODE /\ cell.form # "other" -> [form |-> "bytes", length |-> ValueRead]
      [] frame.code = DEL_OPCODE -> None
      [] OTHER -> cell

\* The answer [kind, code, payload] to the operation on what its key holds.
Reply(kind, code, payload) == [kind |-> kind, code |-> code, payload |-> payload]
Empty(code) == Reply(Response, code, Opaque(0, 0))
Failed(code) == Reply(Error, code, ErrorPayload(0, 1))
AnswerTo(cell) ==
    CASE frame.code = PING_OPCODE -> Empty(Success)
      [] frame.code = GET_OPCODE /\ cell.form = "bytes" ->
           Reply(Response, Success, Opaque(cell.length, 0))
      [] frame.code = GET_OPCODE /\ cell.form = "warm" ->
           Reply(Response, ValueHeldOutsideMemory, Warm(cell.length))
      [] frame.code \in {GET_OPCODE, SET_OPCODE} /\ cell.form = "other" -> Failed(14)
      [] frame.code = SET_OPCODE /\ cell.form # "other" -> Empty(Success)
      [] frame.code \in {DEL_OPCODE, EXISTS_OPCODE} /\ cell.form # "absent" -> Empty(Success)
      [] OTHER -> Empty(Absent)

\* Results the operation does not have; a layout the result does not have; a
\* code that is not assigned; an error class that no answer should have.
Wrong ==
    {Reply(Response, Absent, Opaque(1, 0)), Empty(2), Failed(1)}
    \cup (IF frame.code = GET_OPCODE THEN {}
          ELSE {Reply(Response, ValueHeldOutsideMemory, Warm(3))})
    \cup (IF frame.code \in {PING_OPCODE, SET_OPCODE} THEN {Empty(Absent)} ELSE {})

\* The answer is encoded and its first bytes are on their way.
Send(reply, metadata) ==
    LET outgoing == [kind |-> reply.kind, code |-> reply.code, request_id |-> Id,
                     metadata |-> metadata, payload |-> reply.payload] IN
    /\ EncodeError(outgoing, Limits) = "none"
    /\ frame' = Encoded(outgoing) /\ admission' = ClientContext /\ have' = 0
    /\ stage' = "answer"

\* The server has read the request. PING names no key.
Serve ==
    /\ stage = "request" /\ Verdict.step = "Frame"
    /\ LET key == IF frame.code = PING_OPCODE THEN command.key ELSE KeyRead
           known == key \in Keys
           cell == IF known THEN held[key] ELSE None
           acted == IF known THEN [held EXCEPT ![key] = After(cell)] ELSE held
       IN  \E metadata \in AnswerMetadata :
           \/ /\ conduct' = "acts" /\ held' = acted
              /\ Send(AnswerTo(cell), metadata)
           \/ /\ conduct' = "refuses" /\ UNCHANGED held
              /\ \E code \in {3, 4, 8} : Send(Failed(code), metadata)
           \/ /\ conduct' = "fails" /\ held' \in {held, acted}
              /\ Send(Failed(11), metadata)
           \/ /\ conduct' = "errs" /\ held' \in {held, acted}
              /\ \E reply \in Wrong : Send(reply, metadata)
    /\ UNCHANGED <<command, was, fate, result>>

\* decode_own of a frame the driver dispatched, then interpret_*.
OwnContext == [ClientContext EXCEPT !.in_flight = {frame.request_id}]
Returned ==
    LET own == Decode(frame, TotalLength(frame), OwnContext) IN
    IF own.step = "Frame" THEN Interpret(command.opcode, frame)
    ELSE IF own.step = "Need" THEN Violation
    ELSE Err(own.step)

\* drain_frames decides on the answer and the call returns: the frame, or the
\* class of the failure (from_driver).
Finish ==
    /\ stage = "answer" /\ Verdict.step # "Need"
    /\ result' = IF Verdict.step = "Frame" THEN Returned ELSE Err(Verdict.step)
    /\ fate' = IF Verdict.step \in ConnectionFatal THEN "unusable" ELSE "usable"
    /\ stage' = "done"
    /\ UNCHANGED <<vars, command, held, was, conduct>>

ExchangeNext ==
    \/ \E c \in Requests, cell \in Cells : Issue(c, cell)
    \/ Arrive \/ Serve \/ Finish

ExchangeSpec == ExchangeInit /\ [][ExchangeNext]_evars

-----------------------------------------------------------------------------
(* Properties *)

\* A command that the client does not refuse to encode (execute) is never
\* refused by a server that decodes it under the same bounds.
CommandsAdmitted == stage = "request" => Verdict.step \in {"Need", "Frame"}

\* What the comments on the five commands say the outcome means, for a key
\* that held `cell`.
Meaning(c, cell) ==
    CASE c.opcode \in {PING_OPCODE, SET_OPCODE} -> <<>>
      [] c.opcode = GET_OPCODE ->
           (CASE cell.form = "bytes" -> Present(cell.length)
              [] cell.form = "warm" -> HeldOutsideMemory(cell.length)
              [] cell.form = "absent" -> <<"Absent">>)
      [] OTHER -> <<cell.form # "absent">>

\* What a command that succeeds leaves behind.
Effect(c, h) ==
    CASE c.opcode = SET_OPCODE -> [h EXCEPT ![c.key] = [form |-> "bytes", length |-> c.value]]
      [] c.opcode = DEL_OPCODE -> [h EXCEPT ![c.key] = None]
      [] OTHER -> h

\* A call that succeeds tells what was done, to the key and with the value
\* the caller named: through two encodings and three decodings a present
\* empty value is not a missing key (get), a length is not a value, and a
\* code the operation does not have (interpret_*) is no success.
ReportsWhatWasDone ==
    stage = "done" /\ result.ok =>
        /\ conduct = "acts"
        /\ held = Effect(command, was)
        /\ result.value = Meaning(command, was[command.key])

\* Once a call has failed with an error that is_ambiguous denies, the request
\* had no effect, if the server keeps to the contract. An answer no server
\* should give, and metadata the client must refuse, break it: then
\* is_ambiguous may be wrong (UnambiguousMeansNotExecuted of Session).
RefusedMeansUnchanged ==
    /\ stage = "done" /\ ~result.ok /\ ~Ambiguous(result.value)
    /\ conduct # "errs" /\ frame.metadata = "ordered"
    => held = was

\* The scope a failed call states (CommandError::scope) never promises more
\* than the driver keeps: an error scoped to the request leaves the session
\* usable, and whatever ends the session is reported as fatal to it.
ScopeTellsFate ==
    stage = "done" /\ ~result.ok =>
        /\ Scope(result.value) = "RequestScoped" => fate = "usable"
        /\ fate = "unusable" => Scope(result.value) = "ConnectionFatal"

=============================================================================
