--------------------------- MODULE ExchangeProofs ---------------------------
(***************************************************************************)
(* What decode promises its two callers, for every frame, context and      *)
(* amount of data; and what a command that returns has told its caller,    *)
(* for every key, value and stored value, every limit and every metadata   *)
(* of the answer.                                                          *)
(***************************************************************************)
EXTENDS Exchange, TLAPS

-----------------------------------------------------------------------------
(* decode *)

\* The frame and the context stay what they were; the buffer only grows.
DecoderInv == frame \in Inputs /\ admission \in Admissions /\ have \in Nat

LEMMA DecoderInvariant == Spec => []DecoderInv
<1>1. Init => DecoderInv
  BY DEF Init, DecoderInv
<1>2. DecoderInv /\ [Receive]_vars => DecoderInv'
  BY DEF DecoderInv, Receive, vars
<1> QED
  BY <1>1, <1>2, PTL DEF Spec

\* The lengths of a frame are numbers.
LEMMA LengthType ==
    ASSUME NEW f \in Inputs
    PROVE  TotalLength(f) \in Nat /\ TotalLength(f) >= HEADER_LENGTH
BY InputsAssumption DEF WellFormed, TotalLength, HEADER_LENGTH

\* What the header decides is a fatal class or nothing; what the body decides
\* is a class or admission, never a need for more.
LEMMA VerdictNames ==
    ASSUME NEW f, NEW a
    PROVE  /\ HeaderVerdict(f, a.limits) \in ConnectionFatal \cup {"ok"}
           /\ BodyVerdict(f, a) \in ConnectionFatal \cup RequestScoped \cup {"Frame"}
BY DEF HeaderVerdict, BodyVerdict, Correlate, ConnectionFatal, RequestScoped

\* The five ways decode answers, as equations for the step and the bytes.
LEMMA DecodeCases ==
    ASSUME NEW f \in Inputs, NEW a \in Admissions, NEW n \in Nat
    PROVE  LET d == Decode(f, n, a)
               header == HeaderVerdict(f, a.limits)
               body == BodyVerdict(f, a)
           IN  /\ n < HEADER_LENGTH => d = Need(HEADER_LENGTH)
               /\ (n >= HEADER_LENGTH /\ header # "ok") => d.step = header
               /\ (n >= HEADER_LENGTH /\ header = "ok" /\ n < TotalLength(f))
                      => d = Need(TotalLength(f))
               /\ (n >= HEADER_LENGTH /\ header = "ok" /\ n >= TotalLength(f))
                      => /\ d.step = body
                         /\ body \in RequestScoped \cup {"Frame"}
                                => d.bytes = TotalLength(f)
<1>1. TotalLength(f) \in Nat
  BY LengthType
<1> DEFINE header == HeaderVerdict(f, a.limits)
           body == BodyVerdict(f, a)
<1>2. HEADER_LENGTH \in Nat
  BY DEF HEADER_LENGTH
<1>3. CASE n < HEADER_LENGTH
  BY <1>2, <1>3 DEF Decode
<1>4. CASE n >= HEADER_LENGTH /\ header # "ok"
  BY <1>2, <1>4 DEF Decode, Refused
<1>5. CASE n >= HEADER_LENGTH /\ header = "ok" /\ n < TotalLength(f)
  BY <1>1, <1>2, <1>5 DEF Decode
<1>6. CASE n >= HEADER_LENGTH /\ header = "ok" /\ n >= TotalLength(f)
  <2>1. CASE body = "Frame"
    BY <1>1, <1>2, <1>6, <2>1 DEF Decode, Admitted
  <2>2. CASE body # "Frame"
    BY <1>1, <1>2, <1>6, <2>2 DEF Decode, Refused
  <2> QED
    BY <2>1, <2>2
<1> QED
  BY <1>1, <1>2, <1>3, <1>4, <1>5, <1>6

\* A header that passes admit has a length within the frame limit.
LEMMA HeaderBounds ==
    ASSUME NEW f \in Inputs, NEW a \in Admissions, HeaderVerdict(f, a.limits) = "ok"
    PROVE  TotalLength(f) <= a.limits.frame_size
<1>1. TotalLength(f) \in Nat /\ a.limits.frame_size \in Nat
  BY LengthType, InputsAssumption
<1> QED
  BY <1>1 DEF HeaderVerdict

\* decode asks for exactly what is missing and never for more than the frame
\* limit, whatever the frame, the context and the bytes at hand.
THEOREM NeedIsExactHolds == Spec => []NeedIsExact
<1>1. DecoderInv => NeedIsExact
  <2> SUFFICES ASSUME DecoderInv, Verdict.step = "Need"
               PROVE  /\ have < Verdict.bytes
                      /\ Verdict.bytes = HEADER_LENGTH
                            \/ Verdict.bytes <= admission.limits.frame_size
                      /\ Decode(frame, Verdict.bytes - 1, admission).step = "Need"
                      /\ Verdict.bytes > HEADER_LENGTH =>
                             Decode(frame, Verdict.bytes, admission).step # "Need"
    BY DEF NeedIsExact
  <2> DEFINE total == TotalLength(frame)
             header == HeaderVerdict(frame, admission.limits)
             body == BodyVerdict(frame, admission)
  <2>1. /\ frame \in Inputs /\ admission \in Admissions /\ have \in Nat
        /\ total \in Nat /\ total >= HEADER_LENGTH /\ HEADER_LENGTH = 20
    BY LengthType DEF DecoderInv, HEADER_LENGTH
  <2>2. header # "Need" /\ body # "Need"
    BY VerdictNames DEF ConnectionFatal, RequestScoped
  <2>3. \A n \in Nat :
           /\ n < HEADER_LENGTH => Decode(frame, n, admission) = Need(HEADER_LENGTH)
           /\ (n >= HEADER_LENGTH /\ header # "ok") => Decode(frame, n, admission).step = header
           /\ (n >= HEADER_LENGTH /\ header = "ok" /\ n < total)
                  => Decode(frame, n, admission) = Need(total)
           /\ (n >= HEADER_LENGTH /\ header = "ok" /\ n >= total)
                  => Decode(frame, n, admission).step = body
    BY <2>1, DecodeCases
  <2>4. \A n \in Nat : Need(n).step = "Need" /\ Need(n).bytes = n
    BY DEF Need
  <2>5. CASE have < HEADER_LENGTH
    <3>1. Verdict.bytes = HEADER_LENGTH
      BY <2>1, <2>3, <2>4, <2>5 DEF Verdict
    <3>2. Decode(frame, HEADER_LENGTH - 1, admission).step = "Need"
      BY <2>1, <2>3, <2>4
    <3> QED
      BY <2>1, <2>5, <3>1, <3>2
  <2>6. CASE have >= HEADER_LENGTH
    <3>1. header = "ok" /\ have < total /\ Verdict.bytes = total
      BY <2>1, <2>2, <2>3, <2>4, <2>6 DEF Verdict
    <3>2. total <= admission.limits.frame_size
      BY <2>1, <3>1, HeaderBounds
    <3>3. Decode(frame, total - 1, admission).step = "Need"
      BY <2>1, <2>3, <2>4, <2>6, <3>1
    <3>4. Decode(frame, total, admission).step # "Need"
      BY <2>1, <2>2, <2>3, <3>1
    <3> QED
      BY <3>1, <3>2, <3>3, <3>4
  <2> QED
    BY <2>1, <2>5, <2>6
<1> QED
  BY <1>1, DecoderInvariant, PTL

\* A frame that leaves the session usable reports its own length, all of
\* which has arrived.
THEOREM KeepsInSyncHolds == Spec => []KeepsInSync
<1>1. DecoderInv => KeepsInSync
  <2> SUFFICES ASSUME DecoderInv, Verdict.step \in RequestScoped \cup {"Frame"}
               PROVE  Verdict.bytes = TotalLength(frame) /\ Verdict.bytes <= have
    BY DEF KeepsInSync
  <2>1. /\ frame \in Inputs /\ admission \in Admissions /\ have \in Nat
        /\ TotalLength(frame) \in Nat /\ HEADER_LENGTH = 20
    BY LengthType DEF DecoderInv, HEADER_LENGTH
  <2>2. Verdict.step # "Need" /\ Verdict.step \notin ConnectionFatal
    BY DEF RequestScoped, ConnectionFatal
  <2>3. HeaderVerdict(frame, admission.limits) \in ConnectionFatal \cup {"ok"}
    BY VerdictNames
  <2>4. \A n \in Nat : Need(n).step = "Need"
    BY DEF Need
  <2> QED
    BY <2>1, <2>2, <2>3, <2>4, DecodeCases DEF Verdict
<1> QED
  BY <1>1, DecoderInvariant, PTL

\* Once decode has answered, more bytes do not change the answer: reading in
\* larger or smaller pieces cannot admit a frame that was refused.
THEOREM VerdictStableHolds == Spec => VerdictStable
<1>1. DecoderInv /\ DecoderInv' /\ [Receive]_vars
         => [Verdict.step # "Need" => Verdict'.step = Verdict.step]_vars
  <2> SUFFICES ASSUME DecoderInv, DecoderInv', Receive, Verdict.step # "Need"
               PROVE  Verdict'.step = Verdict.step
    BY DEF vars
  <2> DEFINE total == TotalLength(frame)
             header == HeaderVerdict(frame, admission.limits)
             body == BodyVerdict(frame, admission)
  <2>1. /\ frame \in Inputs /\ admission \in Admissions /\ have \in Nat
        /\ have + 1 \in Nat /\ total \in Nat /\ HEADER_LENGTH = 20
    BY LengthType DEF DecoderInv, HEADER_LENGTH
  <2>2. Verdict' = Decode(frame, have + 1, admission)
    BY DEF Receive, Verdict
  <2>3. have >= HEADER_LENGTH /\ (header = "ok" => have >= total)
    BY <2>1, DecodeCases DEF Verdict, Need
  <2>4. CASE header # "ok"
    <3>1. Verdict.step = header
      BY <2>1, <2>3, <2>4, DecodeCases DEF Verdict
    <3>2. Decode(frame, have + 1, admission).step = header
      BY <2>1, <2>3, <2>4, DecodeCases
    <3> QED
      BY <2>2, <3>1, <3>2
  <2>5. CASE header = "ok"
    <3>1. Verdict.step = body
      BY <2>1, <2>3, <2>5, DecodeCases DEF Verdict
    <3>2. Decode(frame, have + 1, admission).step = body
      BY <2>1, <2>3, <2>5, DecodeCases
    <3> QED
      BY <2>2, <3>1, <3>2
  <2> QED
    BY <2>4, <2>5
<1> QED
  BY <1>1, DecoderInvariant, PTL DEF Spec, VerdictStable

\* What decode_own, with only the frame's own identifier in flight, makes of a
\* frame the driver admitted is what the driver made of it.
THEOREM OwnDecodeAgreesHolds == Spec => []OwnDecodeAgrees
<1>1. DecoderInv => OwnDecodeAgrees
  <2> DEFINE total == TotalLength(frame)
             own == [admission EXCEPT !.in_flight = {frame.request_id}]
  <2> SUFFICES ASSUME DecoderInv, Verdict.step = "Frame", admission.role = "Client"
               PROVE  Decode(frame, total, own) = Verdict
    BY DEF OwnDecodeAgrees
  <2>1. /\ frame \in Inputs /\ admission \in Admissions /\ have \in Nat
        /\ total \in Nat /\ total >= HEADER_LENGTH /\ HEADER_LENGTH = 20
    BY LengthType DEF DecoderInv, HEADER_LENGTH
  <2>2. /\ own.role = admission.role /\ own.state = admission.state
        /\ own.limits = admission.limits /\ own.in_flight = {frame.request_id}
    BY <2>1, InputsAssumption
  <2>3. /\ have >= HEADER_LENGTH /\ have >= total
        /\ HeaderVerdict(frame, admission.limits) = "ok"
        /\ BodyVerdict(frame, admission) = "Frame"
    <3>1. HeaderVerdict(frame, admission.limits) # "Frame"
      BY VerdictNames DEF ConnectionFatal
    <3> QED
      BY <2>1, <3>1, DecodeCases DEF Verdict, Need
  <2>4. Verdict = Admitted(frame)
    BY <2>1, <2>3 DEF Verdict, Decode
  <2>5. /\ frame.metadata # "torn" /\ frame.metadata # "refused"
        /\ Sender(frame.kind) # admission.role
        /\ StateAllows(admission.state, frame) /\ PayloadFits(frame)
        /\ Correlate(frame, admission.in_flight) = "ok"
    <3>1. Correlate(frame, admission.in_flight) # "Frame"
      BY DEF Correlate
    <3> QED
      BY <2>3, <3>1 DEF BodyVerdict
  <2>6. Correlate(frame, own.in_flight) = "ok"
    <3>1. frame.kind # Request
      BY <2>5 DEF Sender
    <3> QED
      BY <2>2, <2>5, <3>1 DEF Correlate
  <2>7. BodyVerdict(frame, own) = "Frame"
    BY <2>2, <2>5, <2>6 DEF BodyVerdict
  <2> QED
    BY <2>1, <2>2, <2>3, <2>4, <2>7 DEF Decode
<1> QED
  BY <1>1, DecoderInvariant, PTL

-----------------------------------------------------------------------------
(* A command, there and back *)

Cell == [form : {"absent", "bytes", "warm", "other"}, length : Nat]

\* The names of the opcodes and of the kinds, where a proof needs their values.
LEMMA Commanded ==
    ASSUME NEW c \in Requests
    PROVE  /\ c.opcode \in {PING_OPCODE, GET_OPCODE, SET_OPCODE, DEL_OPCODE, EXISTS_OPCODE}
           /\ c.key \in Nat /\ c.value \in Nat /\ c.key \in Keys
BY ExchangeAssumption DEF Opcodes, Keys, HANDSHAKE_OPCODE, PING_OPCODE, GET_OPCODE,
   SET_OPCODE, DEL_OPCODE, EXISTS_OPCODE

\* The cases of the server's answer and of the client's reading of it.
LEMMA AnswerTable ==
    ASSUME NEW cell
    PROVE  /\ frame.code = PING_OPCODE => AnswerTo(cell) = Empty(Success)
           /\ frame.code = GET_OPCODE =>
                /\ cell.form = "bytes" =>
                      AnswerTo(cell) = Reply(Response, Success, Opaque(cell.length, 0))
                /\ cell.form = "warm" =>
                      AnswerTo(cell) = Reply(Response, ValueHeldOutsideMemory, Warm(cell.length))
                /\ cell.form = "absent" => AnswerTo(cell) = Empty(Absent)
           /\ frame.code \in {GET_OPCODE, SET_OPCODE} /\ cell.form = "other" =>
                AnswerTo(cell) = Failed(14)
           /\ frame.code = SET_OPCODE /\ cell.form # "other" => AnswerTo(cell) = Empty(Success)
           /\ frame.code \in {DEL_OPCODE, EXISTS_OPCODE} =>
                AnswerTo(cell) = Empty(IF cell.form = "absent" THEN Absent ELSE Success)
BY SMTT(30) DEF AnswerTo, PING_OPCODE, GET_OPCODE, SET_OPCODE, DEL_OPCODE, EXISTS_OPCODE

LEMMA InterpretTable ==
    ASSUME NEW f, f.kind = Response, f.code \in ResultCodes
    PROVE  /\ \A o \in {PING_OPCODE, SET_OPCODE} :
                f.code = Success => Interpret(o, f) = Ok(<<>>)
           /\ f.code = Success => Interpret(GET_OPCODE, f) = Ok(Present(f.payload_length))
           /\ f.code = Absent => Interpret(GET_OPCODE, f) = Ok(<<"Absent">>)
           /\ f.code = ValueHeldOutsideMemory =>
                Interpret(GET_OPCODE, f) = Ok(HeldOutsideMemory(f.inner))
           /\ \A o \in {DEL_OPCODE, EXISTS_OPCODE} :
                /\ f.code = Success => Interpret(o, f) = Ok(<<TRUE>>)
                /\ f.code = Absent => Interpret(o, f) = Ok(<<FALSE>>)
<1>1. /\ Response # Error /\ Success # Absent /\ Success # ValueHeldOutsideMemory
      /\ Absent # ValueHeldOutsideMemory
  BY DEF Response, Error, Success, Absent, ValueHeldOutsideMemory
<1>2. ASSUME NEW o PROVE
      /\ o \in {PING_OPCODE, SET_OPCODE} => Interpret(o, f) = InterpretDone(f)
      /\ o = GET_OPCODE => Interpret(o, f) = InterpretGet(f)
      /\ o \in {DEL_OPCODE, EXISTS_OPCODE} => Interpret(o, f) = InterpretFound(f)
  BY <1>1 DEF Interpret, PING_OPCODE, GET_OPCODE, SET_OPCODE, DEL_OPCODE, EXISTS_OPCODE
<1>3. f.code = Success => InterpretDone(f) = Ok(<<>>)
  BY Zenon DEF InterpretDone
<1>4. /\ f.code = Success => InterpretGet(f) = Ok(Present(f.payload_length))
      /\ f.code = Absent => InterpretGet(f) = Ok(<<"Absent">>)
      /\ f.code = ValueHeldOutsideMemory => InterpretGet(f) = Ok(HeldOutsideMemory(f.inner))
  BY <1>1 DEF InterpretGet
<1>5. /\ f.code = Success => InterpretFound(f) = Ok(<<TRUE>>)
      /\ f.code = Absent => InterpretFound(f) = Ok(<<FALSE>>)
  BY <1>1 DEF InterpretFound
<1> QED  BY Zenon, <1>2, <1>3, <1>4, <1>5

-----------------------------------------------------------------------------
(* The request *)

\* A frame without metadata entries has an empty region.
LEMMA EmptyRegion == MetadataLength(<<>>) = 0 /\ MetadataOrder(<<>>) = "ordered"
<1> DEFINE Folded(F) ==
             F = [s \in SUBSET (DOMAIN <<>>) |->
                    IF s = {} THEN 0
                    ELSE LET x == Max(s) IN F[s \ {x}] + 4 + <<>>[x].length]
<1>1. DOMAIN <<>> = {} /\ SUBSET {} = {{}}
  OBVIOUS
<1>2. Folded([s \in {{}} |-> 0])
  BY Zenon, <1>1
<1>3. MetadataLength(<<>>) = (CHOOSE F : Folded(F))[DOMAIN <<>>]
  BY Zenon DEF MetadataLength, FoldLeft, MapThenFoldSet
<1>4. Folded(CHOOSE F : Folded(F))
  BY Zenon, <1>2
<1>5. MetadataLength(<<>>) = 0
  BY <1>1, <1>3, <1>4
<1> QED  BY <1>5 DEF MetadataOrder, AscendingIds

LEMMA RequestFields ==
    ASSUME NEW c \in Requests
    PROVE  LET f == Encoded(CommandRequest(c, Id)) IN
           /\ f.version = 0 /\ f.kind = Request /\ f.flags = 0 /\ f.code = c.opcode
           /\ f.metadata_length = 0 /\ f.request_id = Id /\ f.metadata = "ordered"
           /\ f.payload_length = CommandPayload(c).length /\ f.payload_length \in Nat
           /\ f.inner = CommandPayload(c).inner
           /\ c.opcode = SET_OPCODE => f.payload_length = 4 + c.key + c.value /\ f.inner = c.key
           /\ c.opcode = PING_OPCODE => f.payload_length = 0
           /\ c.opcode \in {GET_OPCODE, DEL_OPCODE, EXISTS_OPCODE} => f.payload_length = c.key
<1> DEFINE f == Encoded(CommandRequest(c, Id))
<1>1. /\ f.version = 0 /\ f.kind = Request /\ f.flags = 0 /\ f.code = c.opcode
      /\ f.metadata_length = 0 /\ f.request_id = Id /\ f.metadata = "ordered"
      /\ f.payload_length = CommandPayload(c).length /\ f.inner = CommandPayload(c).inner
  BY Zenon, EmptyRegion DEF Encoded, CommandRequest
<1>2. /\ c.opcode = SET_OPCODE =>
            CommandPayload(c).length = 4 + c.key + c.value /\ CommandPayload(c).inner = c.key
      /\ c.opcode = PING_OPCODE => CommandPayload(c).length = 0
      /\ c.opcode \in {GET_OPCODE, DEL_OPCODE, EXISTS_OPCODE} => CommandPayload(c).length = c.key
  BY DEF CommandPayload, Opaque, PING_OPCODE, GET_OPCODE, SET_OPCODE, DEL_OPCODE, EXISTS_OPCODE
<1>3. CommandPayload(c).length \in Nat
  BY <1>2, Commanded
<1> HIDE DEF f
<1> QED  BY <1>1, <1>2, <1>3 DEF f

\* A request that is not refused locally is awaited, then admitted.
LEMMA RequestAdmitted ==
    ASSUME NEW c \in Requests, NEW n \in Nat, LocalRefusal(c, Id, Limits) = "none"
    PROVE  Decode(Encoded(CommandRequest(c, Id)), n, ServerContext).step \in {"Need", "Frame"}
<1> DEFINE f == Encoded(CommandRequest(c, Id))
<1>1. /\ f.version = 0 /\ f.kind = Request /\ f.flags = 0 /\ f.code = c.opcode
      /\ f.metadata_length = 0 /\ f.request_id = Id /\ f.metadata = "ordered"
      /\ f.payload_length = CommandPayload(c).length /\ f.payload_length \in Nat
  BY Zenon, RequestFields
<1>2. /\ c.opcode = SET_OPCODE => f.payload_length >= 4 /\ 4 + f.inner <= f.payload_length
      /\ c.opcode = PING_OPCODE => f.payload_length = 0
  <2>1. c.key \in Nat /\ c.value \in Nat
    BY Zenon, Commanded
  <2>2. /\ c.opcode = SET_OPCODE => f.payload_length = 4 + c.key + c.value /\ f.inner = c.key
        /\ c.opcode = PING_OPCODE => f.payload_length = 0
    BY Zenon, RequestFields
  <2> HIDE DEF f
  <2> QED  BY <2>1, <2>2
<1>3. ~(HEADER_LENGTH + CommandPayload(c).length > Limits.frame_size)
  BY Zenon DEF LocalRefusal
<1>4. Limits.frame_size \in Nat /\ Limits.metadata_size \in Nat /\ HEADER_LENGTH = 20
  BY Zenon, ExchangeAssumption DEF HEADER_LENGTH
<1> HIDE DEF f
<1>5. TotalLength(f) = HEADER_LENGTH + CommandPayload(c).length
  BY <1>1, <1>4 DEF TotalLength
<1>6. HeaderVerdict(f, ServerContext.limits) = "ok"
  BY <1>1, <1>3, <1>4, <1>5 DEF HeaderVerdict, ServerContext, Kinds, Request
<1>7. Correlate(f, Others) = "ok"
  BY Zenon, <1>1, ExchangeAssumption DEF Correlate, Request, Opcodes
<1>8. StateAllows("Negotiated", f)
  BY <1>1, Commanded DEF StateAllows, HANDSHAKE_OPCODE, PING_OPCODE, GET_OPCODE, SET_OPCODE,
     DEL_OPCODE, EXISTS_OPCODE
<1>9. PayloadFits(f)
  BY <1>1, <1>2 DEF PayloadFits, Request, Response, Error
<1>10. BodyVerdict(f, ServerContext) = "Frame"
  <2>1. Sender(f.kind) # "Server"
    BY Zenon, <1>1 DEF Sender
  <2> QED  BY <1>1, <1>7, <1>8, <1>9, <2>1 DEF BodyVerdict, ServerContext
<1>11. Decode(f, n, ServerContext).step \in {"Need", "Frame"}
  BY Zenon, <1>6, <1>10 DEF Decode, Need, Admitted
<1> QED  BY Zenon, <1>11 DEF f

-----------------------------------------------------------------------------
(* The answer on its way back *)

\* Its fields are numbers within the limits, and it names the call.
Bounded(f) ==
    /\ f.version = 0 /\ f.flags = 0 /\ f.request_id = Id
    /\ f.metadata \in {"ordered", "refused"}
    /\ TotalLength(f) \in Nat /\ TotalLength(f) >= HEADER_LENGTH
    /\ ~(TotalLength(f) > Limits.frame_size) /\ ~(f.metadata_length > Limits.metadata_size)

\* The right answer, with what the operation left behind: a result that says
\* what was there, or the error that the value has another type.
Right(f, c, before, after) ==
    \/ /\ f.kind = Response /\ f.code \in ResultCodes /\ PayloadFits(f)
       /\ Interpret(c.opcode, f) = Ok(Meaning(c, before[c.key]))
       /\ after = Effect(c, before)
    \/ f.kind = Error /\ f.code = 14 /\ PayloadFits(f) /\ after = before

\* What the conduct of the server says of its answer.
Conducted(f, c, before, after) ==
    \/ conduct = "acts" /\ Right(f, c, before, after)
    \/ conduct = "refuses" /\ f.kind = Error /\ after = before
    \/ conduct = "fails" /\ f.kind = Error /\ f.code = 11 /\ PayloadFits(f)
    \/ conduct = "errs" /\ (f.kind = Error \/ ~PayloadFits(f) \/ ~Interpret(c.opcode, f).ok)

\* Every call is told the truth from the first step on: what holds at each
\* stage of the exchange.
ExchangeInv ==
    /\ have \in Nat /\ command \in Requests \cup {Ping}
    /\ held \in [Keys -> Cell] /\ was \in [Keys -> Cell]
    /\ stage = "idle" => admission = ServerContext /\ conduct = "none" /\ fate = "usable"
    /\ stage = "request" =>
          /\ command \in Requests /\ LocalRefusal(command, Id, Limits) = "none"
          /\ frame = Encoded(CommandRequest(command, Id)) /\ admission = ServerContext
          /\ held = was /\ conduct = "none" /\ fate = "usable"
    /\ stage = "answer" =>
          /\ command \in Requests /\ admission = ClientContext /\ fate = "usable"
          /\ Bounded(frame) /\ Conducted(frame, command, was, held)
    /\ ReportsWhatWasDone /\ RefusedMeansUnchanged /\ ScopeTellsFate

\* Answers within the limits that are well laid out are admitted, among many
\* requests in flight and alone.
LEMMA AnswerAdmitted ==
    ASSUME NEW f, Bounded(f), f.metadata = "ordered", PayloadFits(f),
           \/ f.kind = Response /\ f.code \in ResultCodes
           \/ f.kind = Error /\ f.code \in ScopedCodes,
           NEW n \in Nat, NEW inFlight, Id \in inFlight,
           Decode(f, n, [ClientContext EXCEPT !.in_flight = inFlight]).step # "Need"
    PROVE  Decode(f, n, [ClientContext EXCEPT !.in_flight = inFlight]).step = "Frame"
<1> DEFINE a == [ClientContext EXCEPT !.in_flight = inFlight]
<1>1. /\ a.role = "Client" /\ a.state = "Negotiated" /\ a.limits = Limits /\ a.in_flight = inFlight
  BY Zenon DEF ClientContext
<1> HIDE DEF a
<1>2. HeaderVerdict(f, a.limits) = "ok"
  BY Zenon, <1>1 DEF HeaderVerdict, Bounded, Kinds
<1>3. Correlate(f, inFlight) = "ok"
  BY ExchangeAssumption DEF Correlate, Bounded, Request, Response, Error
<1>4. StateAllows("Negotiated", f) /\ Sender(f.kind) # "Client"
  BY DEF StateAllows, Sender, Request, Response, Error
<1>5. BodyVerdict(f, a) = "Frame"
  BY Zenon, <1>1, <1>3, <1>4 DEF BodyVerdict
<1>6. Decode(f, n, a).step \in {"Need", "Frame"}
  BY Zenon, <1>2, <1>5 DEF Decode, Need, Admitted
<1> QED  BY Zenon, <1>6 DEF a

\* What is admitted is well laid out.
LEMMA AdmittedFits ==
    ASSUME NEW f, NEW n, NEW a, Decode(f, n, a).step = "Frame"
    PROVE  PayloadFits(f)
<1>1. HeaderVerdict(f, a.limits) # "Frame" /\ Correlate(f, a.in_flight) # "Frame"
  BY Zenon DEF HeaderVerdict, Correlate
<1>2. BodyVerdict(f, a) = "Frame"
  BY Zenon, <1>1 DEF Decode, Need, Admitted, Refused
<1> QED  BY Zenon, <1>1, <1>2 DEF BodyVerdict

\* decode gives one of its names.
LEMMA StepNames ==
    ASSUME NEW f, NEW n, NEW a
    PROVE  Decode(f, n, a).step \in {"Need", "Frame"} \cup ConnectionFatal \cup RequestScoped
<1>1. /\ HeaderVerdict(f, a.limits) \in ConnectionFatal \cup {"ok"}
      /\ BodyVerdict(f, a) \in ConnectionFatal \cup RequestScoped \cup {"Frame"}
  BY Zenon DEF HeaderVerdict, BodyVerdict, Correlate, ConnectionFatal, RequestScoped
<1> QED  BY Zenon, <1>1 DEF Decode, Need, Admitted, Refused

\* An error frame never makes a call succeed.
LEMMA ErrorsAreErrors ==
    ASSUME NEW opcode, NEW f, f.kind = Error
    PROVE  ~Interpret(opcode, f).ok
BY Zenon DEF Interpret, Err, Violation

\* The call returns.
LEMMA FinishKeeps == ExchangeInv /\ Finish => ExchangeInv'
<1> SUFFICES ASSUME ExchangeInv, Finish PROVE ExchangeInv'
  OBVIOUS
<1>1. /\ stage = "answer" /\ stage' = "done" /\ Verdict.step # "Need"
      /\ result' = IF Verdict.step = "Frame" THEN Returned ELSE Err(Verdict.step)
      /\ fate' = IF Verdict.step \in ConnectionFatal THEN "unusable" ELSE "usable"
      /\ UNCHANGED <<frame, admission, have, command, held, was, conduct>>
  BY Zenon DEF Finish, vars
<1>2. /\ command \in Requests /\ admission = ClientContext /\ have \in Nat
      /\ Bounded(frame) /\ Conducted(frame, command, was, held)
  BY <1>1 DEF ExchangeInv
<1> DEFINE own == Decode(frame, TotalLength(frame), OwnContext)
<1>3. Returned = IF own.step = "Frame" THEN Interpret(command.opcode, frame)
                 ELSE IF own.step = "Need" THEN Violation ELSE Err(own.step)
  BY Zenon DEF Returned
<1>4. Verdict.step \in {"Frame"} \cup ConnectionFatal \cup RequestScoped
  BY <1>1, StepNames DEF Verdict
<1>5. \A e : Err(e).ok = FALSE /\ Err(e).value = e
  BY Zenon DEF Err
<1>6. "Frame" \notin ConnectionFatal \cup RequestScoped /\ ConnectionFatal \cap RequestScoped = {}
  BY Zenon DEF ConnectionFatal, RequestScoped
<1> HIDE DEF own
<1>7. ScopeTellsFate'
  <2>1. CASE Verdict.step = "Frame"
    BY <1>1, <1>6, <2>1 DEF ScopeTellsFate
  <2>2. CASE Verdict.step \in RequestScoped
    BY <1>1, <1>6, <2>2 DEF ScopeTellsFate
  <2>3. CASE Verdict.step \in ConnectionFatal
    <3>1. result' = Err(Verdict.step) /\ fate' = "unusable"
      BY <1>1, <1>6, <2>3
    <3>2. Scope(Verdict.step) = "ConnectionFatal"
      BY Zenon, <2>3 DEF Scope, ConnectionFatal
    <3> QED  BY <1>5, <3>1, <3>2 DEF ScopeTellsFate
  <2> QED  BY <1>4, <2>1, <2>2, <2>3
<1>8. ASSUME result'.ok
      PROVE  /\ Verdict.step = "Frame" /\ result' = Interpret(command.opcode, frame)
             /\ PayloadFits(frame)
  <2>1. Verdict.step = "Frame"
    BY Zenon, <1>1, <1>5, <1>8
  <2>2. own.step = "Frame" /\ result' = Interpret(command.opcode, frame)
    BY <1>1, <1>3, <1>5, <1>8, <2>1 DEF Violation
  <2>3. PayloadFits(frame)
    BY Zenon, <2>1, AdmittedFits DEF Verdict
  <2> QED  BY <2>1, <2>2, <2>3
<1>9. ReportsWhatWasDone'
  <2> SUFFICES ASSUME result'.ok
               PROVE  /\ conduct = "acts" /\ held = Effect(command, was)
                      /\ result'.value = Meaning(command, was[command.key])
    BY Zenon, <1>1 DEF ReportsWhatWasDone
  <2>1. frame.kind # Error /\ PayloadFits(frame) /\ Interpret(command.opcode, frame).ok
    BY Zenon, <1>8, ErrorsAreErrors
  <2>2. conduct = "acts" /\ Right(frame, command, was, held)
    BY Zenon, <1>2, <2>1 DEF Conducted
  <2>3. /\ Interpret(command.opcode, frame) = Ok(Meaning(command, was[command.key]))
        /\ held = Effect(command, was)
    BY Zenon, <2>1, <2>2 DEF Right
  <2> QED  BY <1>8, <2>2, <2>3 DEF Ok
<1>10. ASSUME frame.metadata = "ordered", PayloadFits(frame),
              \/ frame.kind = Response /\ frame.code \in ResultCodes
              \/ frame.kind = Error /\ frame.code \in ScopedCodes
       PROVE  result' = Interpret(command.opcode, frame)
  <2>1. ClientContext = [ClientContext EXCEPT !.in_flight = Others \cup {Id}]
    BY DEF ClientContext
  <2>2. Verdict.step = "Frame"
    <3>1. Verdict = Decode(frame, have, [ClientContext EXCEPT !.in_flight = Others \cup {Id}])
      BY <1>2, <2>1 DEF Verdict
    <3> QED  BY <1>1, <1>2, <1>10, <3>1, AnswerAdmitted
  <2>3. own.step = "Frame"
    <3>1. own = Decode(frame, TotalLength(frame), [ClientContext EXCEPT !.in_flight = {Id}])
      BY Zenon, <1>2 DEF own, OwnContext, Bounded
    <3>2. TotalLength(frame) \in Nat /\ TotalLength(frame) >= HEADER_LENGTH /\ HEADER_LENGTH \in Nat
      BY Zenon, <1>2 DEF Bounded, HEADER_LENGTH
    <3>3. own.step # "Need"
      <4>1. ~(TotalLength(frame) < HEADER_LENGTH) /\ ~(TotalLength(frame) < TotalLength(frame))
        BY <3>2
      <4>2. own.step \in {HeaderVerdict(frame, OwnContext.limits), BodyVerdict(frame, OwnContext),
                          "Frame"}
        BY Zenon, <4>1 DEF own, Decode, Admitted, Refused
      <4>3. HeaderVerdict(frame, OwnContext.limits) # "Need" /\ BodyVerdict(frame, OwnContext) # "Need"
        BY Zenon DEF HeaderVerdict, BodyVerdict, Correlate
      <4> QED  BY Zenon, <4>2, <4>3
    <3> QED  BY ZenonT(30), <1>2, <1>10, <3>1, <3>2, <3>3, AnswerAdmitted
  <2> QED  BY <1>1, <1>3, <2>2, <2>3
<1>11. RefusedMeansUnchanged'
  <2> SUFFICES ASSUME ~result'.ok, ~Ambiguous(result'.value), conduct # "errs",
                      frame.metadata = "ordered"
               PROVE  held = was
    BY Zenon, <1>1 DEF RefusedMeansUnchanged
  <2>1. CASE conduct = "acts" /\ Right(frame, command, was, held)
    <3>1. held # was => result' = Ok(Meaning(command, was[command.key]))
      BY <1>10, <2>1 DEF Right
    <3> QED  BY <3>1 DEF Ok
  <2>2. CASE conduct = "fails" /\ frame.kind = Error /\ frame.code = 11 /\ PayloadFits(frame)
    <3>1. result' = Interpret(command.opcode, frame)
      BY <1>10, <2>2 DEF ScopedCodes
    <3>2. Interpret(command.opcode, frame) = Err("InternalError")
      BY <2>2 DEF Interpret, ClassOf, ScopedCodes
    <3> QED  BY <1>5, <3>1, <3>2 DEF Ambiguous
  <2> QED  BY <1>2, <2>1, <2>2 DEF Conducted
<1> QED  BY <1>1, <1>7, <1>9, <1>11 DEF ExchangeInv

-----------------------------------------------------------------------------
(* The server *)

\* What the server encodes is within the limits of both sides.
LEMMA SentBounded ==
    ASSUME NEW reply, NEW metadata \in AnswerMetadata, Send(reply, metadata),
           reply.payload.length \in Nat
    PROVE  /\ Bounded(frame') /\ admission' = ClientContext /\ have' = 0 /\ stage' = "answer"
           /\ frame'.kind = reply.kind /\ frame'.code = reply.code
           /\ frame'.payload_length = reply.payload.length /\ frame'.inner = reply.payload.inner
<1> DEFINE o == [kind |-> reply.kind, code |-> reply.code, request_id |-> Id,
                 metadata |-> metadata, payload |-> reply.payload]
<1>1. /\ EncodeError(o, Limits) = "none" /\ frame' = Encoded(o)
      /\ admission' = ClientContext /\ have' = 0 /\ stage' = "answer"
  BY Zenon DEF Send
<1>2. o.metadata = metadata /\ o.payload = reply.payload
  OBVIOUS
<1>3. /\ ~(MetadataLength(metadata) > Limits.metadata_size)
      /\ ~(HEADER_LENGTH + MetadataLength(metadata) + reply.payload.length > Limits.frame_size)
  BY <1>1, <1>2 DEF EncodeError
<1>4. /\ frame'.version = 0 /\ frame'.flags = 0 /\ frame'.request_id = Id
      /\ frame'.metadata = MetadataOrder(metadata)
      /\ frame'.metadata_length = MetadataLength(metadata)
      /\ frame'.kind = reply.kind /\ frame'.code = reply.code
      /\ frame'.payload_length = reply.payload.length /\ frame'.inner = reply.payload.inner
  BY Zenon, <1>1 DEF Encoded
<1>5. MetadataOrder(metadata) \in {"ordered", "refused"}
  BY Zenon DEF MetadataOrder
<1>6. TotalLength(frame') = HEADER_LENGTH + MetadataLength(metadata) + reply.payload.length
  BY Zenon, <1>4 DEF TotalLength
<1>7. TotalLength(frame') \in Nat /\ TotalLength(frame') >= HEADER_LENGTH
  <2>1. MetadataLength(metadata) \in Nat
    BY Zenon, ExchangeAssumption
  <2> QED  BY <1>6, <2>1 DEF HEADER_LENGTH
<1> QED  BY <1>1, <1>3, <1>4, <1>5, <1>6, <1>7 DEF Bounded

\* The server reads the key and the value the caller named.
LEMMA ServerReads ==
    ASSUME ExchangeInv, stage = "request"
    PROVE  /\ frame.code = command.opcode
           /\ command.opcode # PING_OPCODE => KeyRead = command.key
           /\ command.opcode = SET_OPCODE => ValueRead = command.value
<1>1. command \in Requests /\ frame = Encoded(CommandRequest(command, Id))
  BY Zenon DEF ExchangeInv
<1>2. command.key \in Nat /\ command.value \in Nat
  BY Zenon, <1>1, Commanded
<1>3. /\ frame.code = command.opcode
      /\ command.opcode = SET_OPCODE =>
            frame.payload_length = 4 + command.key + command.value /\ frame.inner = command.key
      /\ command.opcode \in {GET_OPCODE, DEL_OPCODE, EXISTS_OPCODE} =>
            frame.payload_length = command.key
  BY Zenon, <1>1, RequestFields
<1>4. command.opcode # PING_OPCODE => KeyRead = command.key
  BY Zenon, <1>1, <1>3, Commanded DEF KeyRead, PING_OPCODE, GET_OPCODE, SET_OPCODE, DEL_OPCODE, EXISTS_OPCODE
<1>5. command.opcode = SET_OPCODE => ValueRead = command.value
  BY <1>2, <1>3 DEF ValueRead
<1> QED  BY <1>3, <1>4, <1>5

\* The answer of a server that acts tells what its key held.
LEMMA RightAnswer ==
    ASSUME ExchangeInv, stage = "request", NEW f,
           LET reply == AnswerTo(held[command.key]) IN
           /\ f.kind = reply.kind /\ f.code = reply.code
           /\ f.payload_length = reply.payload.length /\ f.inner = reply.payload.inner
    PROVE  /\ Right(f, command, was, [held EXCEPT ![command.key] = After(held[command.key])])
           /\ AnswerTo(held[command.key]).payload.length \in Nat
<1> DEFINE cell == held[command.key]
           reply == AnswerTo(cell)
           after == [held EXCEPT ![command.key] = After(cell)]
<1>1. /\ command \in Requests /\ command.key \in Keys /\ held = was /\ held \in [Keys -> Cell]
      /\ command.value \in Nat
  BY Zenon, Commanded DEF ExchangeInv
<1>2. /\ cell \in Cell /\ cell.length \in Nat /\ cell.form \in {"absent", "bytes", "warm", "other"}
      /\ was[command.key] = cell
  BY Zenon, <1>1 DEF Cell
<1>3. /\ frame.code = command.opcode
      /\ command.opcode = SET_OPCODE => ValueRead = command.value
  BY ServerReads
<1>4. f.kind = reply.kind /\ f.code = reply.code
      /\ f.payload_length = reply.payload.length /\ f.inner = reply.payload.inner
  OBVIOUS
<1>5. ASSUME After(cell) = cell PROVE after = was
  BY <1>1, <1>5
<1> SUFFICES Right(f, command, was, after) /\ reply.payload.length \in Nat
  OBVIOUS
<1> HIDE DEF cell, reply, after
<1> DEFINE Says(code, length, inner) ==
             /\ reply = Reply(Response, code, [length |-> length, inner |-> inner, fits |-> TRUE])
<1>6. ASSUME NEW code, NEW length, NEW inner, Says(code, length, inner)
      PROVE  /\ f.kind = Response /\ f.code = code /\ f.payload_length = length /\ f.inner = inner
             /\ reply.payload.length = length
  BY Zenon, <1>4, <1>6 DEF Reply
<1>7. ASSUME reply = Failed(14), After(cell) = cell
      PROVE  Right(f, command, was, after) /\ reply.payload.length \in Nat
  <2>1. f.kind = Error /\ f.code = 14 /\ f.payload_length = 3 /\ f.inner = 0
        /\ reply.payload.length = 3
    BY <1>4, <1>7 DEF Failed, Reply, ErrorPayload
  <2>2. PayloadFits(f)
    BY <2>1 DEF PayloadFits, Request, Response, Error
  <2> QED  BY <1>5, <1>7, <2>1, <2>2 DEF Right
<1>8. ASSUME NEW code \in ResultCodes, NEW length \in Nat, NEW inner, Says(code, length, inner),
             code = Absent => length = 0, code = ValueHeldOutsideMemory => length = 8,
             after = Effect(command, was),
             Interpret(command.opcode, f) = Ok(Meaning(command, was[command.key]))
      PROVE  Right(f, command, was, after) /\ reply.payload.length \in Nat
  <2>1. f.kind = Response /\ f.code = code /\ f.payload_length = length
        /\ reply.payload.length = length
    BY Zenon, <1>6, <1>8
  <2>2. PayloadFits(f)
    BY <1>8, <2>1 DEF PayloadFits, Request, Response, Error
  <2> QED  BY Zenon, <1>8, <2>1, <2>2 DEF Right
<1> USE DEF PING_OPCODE, GET_OPCODE, SET_OPCODE, DEL_OPCODE, EXISTS_OPCODE
<1>9. /\ Response # Error /\ ResultCodes = {Success, Absent, ValueHeldOutsideMemory}
      /\ Success # Absent /\ Success # ValueHeldOutsideMemory /\ Absent # ValueHeldOutsideMemory
  BY DEF Response, Error, ResultCodes, Success, Absent, ValueHeldOutsideMemory
<1>10. CASE command.opcode = PING_OPCODE
  <2>1. Says(Success, 0, 0) /\ After(cell) = cell
    <3>1. Says(Success, 0, 0)
      BY Zenon, <1>3, <1>10, AnswerTable DEF Empty, Opaque, reply
    <3> QED  BY <1>3, <1>10, <3>1 DEF After
  <2>2. Interpret(command.opcode, f) = Ok(<<>>)
    BY Zenon, <1>6, <1>9, <1>10, <2>1, InterpretTable
  <2>3. Meaning(command, was[command.key]) = <<>> /\ Effect(command, was) = was
    BY <1>10 DEF Meaning, Effect
  <2> QED  BY <1>5, <1>8, <1>9, <2>1, <2>2, <2>3
<1>11. CASE command.opcode = GET_OPCODE
  <2>1. After(cell) = cell /\ Effect(command, was) = was
    BY <1>3, <1>11 DEF After, Effect
  <2>2. CASE cell.form = "bytes"
    <3>1. Says(Success, cell.length, 0)
      BY Zenon, <1>3, <1>11, <2>2, AnswerTable DEF Opaque, reply
    <3>2. Interpret(command.opcode, f) = Ok(Present(cell.length))
      <4>1. f.kind = Response /\ f.code = Success /\ f.payload_length = cell.length
        BY Zenon, <1>6, <3>1
      <4> QED  BY Zenon, <1>9, <1>11, <4>1, InterpretTable
    <3>3. Meaning(command, cell) = Present(cell.length)
      BY <1>11, <2>2 DEF Meaning
    <3> QED  BY <1>2, <1>5, <1>8, <1>9, <2>1, <3>1, <3>2, <3>3
  <2>3. CASE cell.form = "warm"
    <3>1. Says(ValueHeldOutsideMemory, 8, cell.length)
      BY Zenon, <1>3, <1>11, <2>3, AnswerTable DEF Warm, reply
    <3>2. Interpret(command.opcode, f) = Ok(HeldOutsideMemory(cell.length))
      <4>1. f.kind = Response /\ f.code = ValueHeldOutsideMemory /\ f.inner = cell.length
        BY Zenon, <1>6, <3>1
      <4> QED  BY Zenon, <1>9, <1>11, <4>1, InterpretTable
    <3>3. Meaning(command, cell) = HeldOutsideMemory(cell.length)
      BY <1>11, <2>3 DEF Meaning
    <3> QED  BY <1>2, <1>5, <1>8, <1>9, <2>1, <3>1, <3>2, <3>3
  <2>4. CASE cell.form = "absent"
    <3>1. Says(Absent, 0, 0)
      BY Zenon, <1>3, <1>11, <2>4, AnswerTable DEF Empty, Opaque, reply
    <3>2. Interpret(command.opcode, f) = Ok(<<"Absent">>)
      BY Zenon, <1>6, <1>9, <1>11, <3>1, InterpretTable
    <3>3. Meaning(command, cell) = <<"Absent">>
      BY <1>11, <2>4 DEF Meaning
    <3> QED  BY <1>2, <1>5, <1>8, <1>9, <2>1, <3>1, <3>2, <3>3
  <2>5. CASE cell.form = "other"
    <3>1. reply = Failed(14)
      BY Zenon, <1>3, <1>11, <2>5, AnswerTable DEF reply
    <3> QED  BY <1>7, <2>1, <3>1
  <2> QED  BY <1>2, <2>2, <2>3, <2>4, <2>5
<1>12. CASE command.opcode = SET_OPCODE
  <2>1. CASE cell.form # "other"
    <3>1. Says(Success, 0, 0)
      BY Zenon, <1>3, <1>12, <2>1, AnswerTable DEF Empty, Opaque, reply
    <3>2. Interpret(command.opcode, f) = Ok(<<>>)
      BY Zenon, <1>6, <1>9, <1>12, <3>1, InterpretTable
    <3>3. After(cell) = [form |-> "bytes", length |-> command.value]
      BY <1>3, <1>12, <2>1 DEF After
    <3>4. Meaning(command, cell) = <<>> /\ after = Effect(command, was)
      BY <1>1, <1>12, <3>3 DEF Meaning, Effect, after
    <3> QED  BY <1>2, <1>8, <1>9, <3>1, <3>2, <3>4
  <2>2. CASE cell.form = "other"
    <3>1. reply = Failed(14)
      BY Zenon, <1>3, <1>12, <2>2, AnswerTable DEF reply
    <3>2. After(cell) = cell
      BY <1>3, <1>12, <2>2 DEF After
    <3> QED  BY <1>7, <3>1, <3>2
  <2> QED  BY <2>1, <2>2
<1>13. CASE command.opcode \in {DEL_OPCODE, EXISTS_OPCODE}
  <2>1. after = Effect(command, was)
    <3>1. CASE command.opcode = DEL_OPCODE
      BY <1>1, <1>3, <3>1 DEF After, Effect, after
    <3>2. CASE command.opcode = EXISTS_OPCODE
      <4>1. After(cell) = cell /\ Effect(command, was) = was
        BY <1>3, <3>2 DEF After, Effect
      <4> QED  BY Zenon, <1>5, <4>1
    <3> QED  BY <1>13, <3>1, <3>2
  <2>2. CASE cell.form # "absent"
    <3>1. Says(Success, 0, 0)
      BY Zenon, <1>3, <1>13, <2>2, AnswerTable DEF Empty, Opaque, reply
    <3>2. Interpret(command.opcode, f) = Ok(<<TRUE>>)
      BY Zenon, <1>6, <1>9, <1>13, <3>1, InterpretTable
    <3>3. Meaning(command, cell) = <<TRUE>>
      <4>1. (cell.form # "absent") = TRUE
        BY <2>2
      <4>2. Meaning(command, cell) = <<cell.form # "absent">>
        BY <1>13 DEF Meaning
      <4> QED  BY Zenon, <4>1, <4>2
    <3> QED  BY <1>2, <1>8, <1>9, <2>1, <3>1, <3>2, <3>3
  <2>3. CASE cell.form = "absent"
    <3>1. Says(Absent, 0, 0)
      BY Zenon, <1>3, <1>13, <2>3, AnswerTable DEF Empty, Opaque, reply
    <3>2. Interpret(command.opcode, f) = Ok(<<FALSE>>)
      BY Zenon, <1>6, <1>9, <1>13, <3>1, InterpretTable
    <3>3. Meaning(command, cell) = <<FALSE>>
      <4>1. (cell.form # "absent") = FALSE
        BY <2>3
      <4>2. Meaning(command, cell) = <<cell.form # "absent">>
        BY <1>13 DEF Meaning
      <4> QED  BY Zenon, <4>1, <4>2
    <3> QED  BY <1>2, <1>8, <1>9, <2>1, <3>1, <3>2, <3>3
  <2> QED  BY Zenon, <2>2, <2>3
<1> QED  BY <1>1, <1>10, <1>11, <1>12, <1>13, Commanded

\* Answers that no server should give never make a call succeed.
LEMMA WrongAnswer ==
    ASSUME ExchangeInv, stage = "request", NEW reply \in Wrong, NEW f,
           f.kind = reply.kind, f.code = reply.code, f.payload_length = reply.payload.length
    PROVE  /\ f.kind = Error \/ ~PayloadFits(f) \/ ~Interpret(command.opcode, f).ok
           /\ reply.payload.length \in Nat
<1> USE DEF Response, Error, Request
<1>1. frame.code = command.opcode /\ command.opcode \in
        {PING_OPCODE, GET_OPCODE, SET_OPCODE, DEL_OPCODE, EXISTS_OPCODE}
  BY ServerReads, Commanded DEF ExchangeInv
<1>2. ~Violation.ok
  BY Zenon DEF Violation, Err
<1>3. CASE reply = Reply(Response, Absent, Opaque(1, 0))
  <2>1. f.kind = Response /\ f.code = Absent /\ f.payload_length = 1 /\ reply.payload.length = 1
    BY <1>3 DEF Reply, Opaque
  <2>2. ~PayloadFits(f)
    BY <2>1 DEF PayloadFits, Absent
  <2> QED  BY <2>1, <2>2
<1>4. CASE reply = Empty(2)
  <2>1. f.kind = Response /\ f.code = 2 /\ reply.payload.length = 0
    BY <1>4 DEF Empty, Reply, Opaque
  <2>2. Interpret(command.opcode, f) = Violation
    BY <2>1 DEF Interpret, ResultCodes, Success, Absent, ValueHeldOutsideMemory
  <2> QED  BY <1>2, <2>1, <2>2
<1>5. CASE reply = Failed(1)
  BY <1>5 DEF Failed, Reply, ErrorPayload
<1>6. CASE reply = Reply(Response, ValueHeldOutsideMemory, Warm(3)) /\ frame.code # GET_OPCODE
  <2>1. f.kind = Response /\ f.code = ValueHeldOutsideMemory /\ reply.payload.length = 8
    BY <1>6 DEF Reply, Warm
  <2>2. CASE command.opcode \in {PING_OPCODE, SET_OPCODE}
    <3>1. InterpretDone(f) = Violation
      BY <2>1 DEF InterpretDone, Success, ValueHeldOutsideMemory
    <3>2. Interpret(command.opcode, f) = InterpretDone(f)
      BY <2>1, <2>2 DEF Interpret, ResultCodes, ValueHeldOutsideMemory, PING_OPCODE, GET_OPCODE,
         SET_OPCODE, DEL_OPCODE, EXISTS_OPCODE
    <3> QED  BY <1>2, <2>1, <3>1, <3>2
  <2>3. CASE command.opcode \in {DEL_OPCODE, EXISTS_OPCODE}
    <3>1. InterpretFound(f) = Violation
      BY <2>1 DEF InterpretFound, Success, Absent, ValueHeldOutsideMemory
    <3>2. Interpret(command.opcode, f) = InterpretFound(f)
      BY <2>1, <2>3 DEF Interpret, ResultCodes, ValueHeldOutsideMemory, PING_OPCODE, GET_OPCODE,
         SET_OPCODE, DEL_OPCODE, EXISTS_OPCODE
    <3> QED  BY <1>2, <2>1, <3>1, <3>2
  <2> QED  BY <1>1, <1>6, <2>2, <2>3
<1>7. CASE reply = Empty(Absent) /\ frame.code \in {PING_OPCODE, SET_OPCODE}
  <2>1. f.kind = Response /\ f.code = Absent /\ reply.payload.length = 0
    BY Zenon, <1>7 DEF Empty, Reply, Opaque
  <2>2. InterpretDone(f) = Violation
    BY <2>1 DEF InterpretDone, Success, Absent
  <2>3. Interpret(command.opcode, f) = InterpretDone(f)
    BY <1>1, <1>7, <2>1 DEF Interpret, ResultCodes, Absent, PING_OPCODE, GET_OPCODE,
       SET_OPCODE, DEL_OPCODE, EXISTS_OPCODE
  <2> QED  BY <1>2, <2>1, <2>2, <2>3
<1> QED  BY <1>3, <1>4, <1>5, <1>6, <1>7 DEF Wrong

LEMMA ServeKeeps == ExchangeInv /\ Serve => ExchangeInv'
<1> SUFFICES ASSUME ExchangeInv, Serve PROVE ExchangeInv'
  OBVIOUS
<1> DEFINE cell == held[command.key]
           acted == [held EXCEPT ![command.key] = After(cell)]
<1>1. /\ stage = "request" /\ UNCHANGED <<command, was, fate, result>>
  BY Zenon DEF Serve
<1>2. /\ command \in Requests /\ command.key \in Keys /\ held = was /\ held \in [Keys -> Cell]
      /\ fate = "usable"
  BY Zenon, <1>1, Commanded DEF ExchangeInv
<1>3. PICK metadata \in AnswerMetadata :
        \/ conduct' = "acts" /\ held' = acted /\ Send(AnswerTo(cell), metadata)
        \/ conduct' = "refuses" /\ UNCHANGED held /\ \E code \in {3, 4, 8} : Send(Failed(code), metadata)
        \/ conduct' = "fails" /\ held' \in {held, acted} /\ Send(Failed(11), metadata)
        \/ conduct' = "errs" /\ held' \in {held, acted} /\ \E reply \in Wrong : Send(reply, metadata)
  <2>1. (IF frame.code = PING_OPCODE THEN command.key ELSE KeyRead) = command.key
    BY <1>1, ServerReads
  <2> QED  BY <1>2, <2>1 DEF Serve
<1>4. acted \in [Keys -> Cell]
  <2>1. cell \in Cell /\ None \in Cell
    BY Zenon, <1>2 DEF Cell, None
  <2>2. command.opcode = SET_OPCODE => ValueRead \in Nat
    BY <1>1, <1>2, ServerReads, Commanded
  <2>3. After(cell) \in Cell
    BY <1>1, <2>1, <2>2, ServerReads DEF After, Cell
  <2> QED  BY Zenon, <1>2, <2>3
<1> HIDE DEF cell, acted
<1>5. \A code : Failed(code).kind = Error /\ Failed(code).code = code
                /\ Failed(code).payload.length = 3 /\ Failed(code).payload.inner = 0
  BY DEF Failed, Reply, ErrorPayload
<1>6. ASSUME NEW reply, Send(reply, metadata), reply.payload.length \in Nat,
             held' \in [Keys -> Cell], Conducted(frame, command, was, held)'
      PROVE  ExchangeInv'
  <2>1. Bounded(frame') /\ admission' = ClientContext /\ have' = 0 /\ stage' = "answer"
    BY Zenon, <1>6, SentBounded
  <2>2. ReportsWhatWasDone' /\ RefusedMeansUnchanged' /\ ScopeTellsFate'
    BY Zenon, <2>1 DEF ReportsWhatWasDone, RefusedMeansUnchanged, ScopeTellsFate
  <2>3. Bounded(frame)'
    BY Zenon, <2>1
  <2> QED  BY <1>1, <1>2, <1>6, <2>1, <2>2, <2>3 DEF ExchangeInv
<1>7. CASE conduct' = "acts" /\ held' = acted /\ Send(AnswerTo(cell), metadata)
  <2>1. AnswerTo(cell).payload.length \in Nat
    <3> DEFINE f == [kind |-> AnswerTo(cell).kind, code |-> AnswerTo(cell).code,
                     payload_length |-> AnswerTo(cell).payload.length,
                     inner |-> AnswerTo(cell).payload.inner]
    <3>1. f.kind = AnswerTo(cell).kind /\ f.code = AnswerTo(cell).code
          /\ f.payload_length = AnswerTo(cell).payload.length
          /\ f.inner = AnswerTo(cell).payload.inner
      OBVIOUS
    <3> HIDE DEF f
    <3> QED  BY <1>1, <3>1, RightAnswer DEF cell
  <2>2. /\ frame'.kind = AnswerTo(cell).kind /\ frame'.code = AnswerTo(cell).code
        /\ frame'.payload_length = AnswerTo(cell).payload.length
        /\ frame'.inner = AnswerTo(cell).payload.inner
    BY <1>7, <2>1, SentBounded
  <2>3. Right(frame', command, was, acted)
    BY <1>1, <2>2, RightAnswer DEF cell, acted
  <2>4. Right(frame, command, was, held)'
    BY <1>1, <1>7, <2>3
  <2>5. Conducted(frame, command, was, held)'
    BY <1>7, <2>4 DEF Conducted
  <2> QED  BY <1>4, <1>6, <1>7, <2>1, <2>5
<1>8. ASSUME NEW code \in {3, 4, 8}, Send(Failed(code), metadata), conduct' = "refuses", UNCHANGED held
      PROVE  ExchangeInv'
  <2>1. frame'.kind = Error
    BY <1>5, <1>8, SentBounded
  <2>2. Conducted(frame, command, was, held)'
    BY Zenon, <1>1, <1>2, <1>8, <2>1 DEF Conducted
  <2> QED  BY <1>2, <1>5, <1>6, <1>8, <2>2
<1>9. CASE conduct' = "fails" /\ held' \in {held, acted} /\ Send(Failed(11), metadata)
  <2>1. frame'.kind = Error /\ frame'.code = 11 /\ frame'.payload_length = 3 /\ frame'.inner = 0
    BY <1>5, <1>9, SentBounded
  <2>2. PayloadFits(frame')
    BY <2>1 DEF PayloadFits, Request, Response, Error
  <2>3. Conducted(frame, command, was, held)'
    BY <1>9, <2>1, <2>2 DEF Conducted
  <2> QED  BY <1>2, <1>4, <1>5, <1>6, <1>9, <2>3
<1>10. ASSUME NEW reply \in Wrong, Send(reply, metadata), conduct' = "errs", held' \in {held, acted}
       PROVE  ExchangeInv'
  <2>1. reply.payload.length \in Nat
    <3> DEFINE f == [kind |-> reply.kind, code |-> reply.code,
                     payload_length |-> reply.payload.length]
    <3>1. f.kind = reply.kind /\ f.code = reply.code /\ f.payload_length = reply.payload.length
      OBVIOUS
    <3> HIDE DEF f
    <3> QED  BY <1>1, <3>1, WrongAnswer
  <2>2. frame'.kind = reply.kind /\ frame'.code = reply.code
        /\ frame'.payload_length = reply.payload.length
    BY <1>10, <2>1, SentBounded
  <2>3. frame'.kind = Error \/ ~PayloadFits(frame') \/ ~Interpret(command.opcode, frame').ok
    BY <1>1, <2>2, WrongAnswer
  <2>4. Conducted(frame, command, was, held)'
    BY <1>1, <1>10, <2>3 DEF Conducted
  <2> QED  BY <1>2, <1>4, <1>6, <1>10, <2>1, <2>4
<1> QED  BY <1>3, <1>7, <1>8, <1>9, <1>10

-----------------------------------------------------------------------------
(* The whole exchange *)

LEMMA ExchangeInitial == ExchangeInit => ExchangeInv
<1> SUFFICES ASSUME ExchangeInit PROVE ExchangeInv
  OBVIOUS
<1>1. stage \in {"stray", "idle"} /\ have = 0 /\ command = Ping /\ conduct = "none"
      /\ fate = "usable" /\ (stage = "idle" => admission = ServerContext)
  BY Zenon DEF ExchangeInit, Init
<1>2. held \in [Keys -> Cell] /\ was \in [Keys -> Cell]
  BY Zenon DEF ExchangeInit, None, Cell
<1>3. ReportsWhatWasDone /\ RefusedMeansUnchanged /\ ScopeTellsFate
  BY Zenon, <1>1 DEF ReportsWhatWasDone, RefusedMeansUnchanged, ScopeTellsFate
<1> QED  BY <1>1, <1>2, <1>3 DEF ExchangeInv

LEMMA IssueKeeps ==
    ASSUME ExchangeInv, NEW c \in Requests, NEW cell \in Cells, Issue(c, cell)
    PROVE  ExchangeInv'
<1>1. /\ stage = "idle" /\ command' = c /\ was' = held'
      /\ held' = [held EXCEPT ![c.key] = cell]
      /\ UNCHANGED <<admission, have, conduct, fate>>
  BY Zenon DEF Issue
<1>2. held' \in [Keys -> Cell]
  BY <1>1, Commanded, ExchangeAssumption DEF ExchangeInv, Cell
<1>3. admission = ServerContext /\ conduct = "none" /\ fate = "usable" /\ have \in Nat
  BY Zenon, <1>1 DEF ExchangeInv
<1>4. CASE LocalRefusal(c, Id, Limits) = "none"
  <2>1. stage' = "request" /\ frame' = Encoded(CommandRequest(c, Id))
    BY Zenon, <1>4 DEF Issue
  <2>2. ReportsWhatWasDone' /\ RefusedMeansUnchanged' /\ ScopeTellsFate'
    BY Zenon, <2>1 DEF ReportsWhatWasDone, RefusedMeansUnchanged, ScopeTellsFate
  <2> QED  BY <1>1, <1>2, <1>3, <1>4, <2>1, <2>2 DEF ExchangeInv
<1>5. CASE LocalRefusal(c, Id, Limits) # "none"
  <2>1. stage' = "done" /\ result' = Err(LocalRefusal(c, Id, Limits))
    BY Zenon, <1>5 DEF Issue
  <2>2. LocalRefusal(c, Id, Limits) \in {"InvalidRequest", "LocalLimitExceeded"}
    BY Zenon, <1>5 DEF LocalRefusal
  <2>3. ~result'.ok /\ Scope(result'.value) = "none"
    BY Zenon, <2>1, <2>2 DEF Err, Scope
  <2>4. ReportsWhatWasDone' /\ RefusedMeansUnchanged'
    BY Zenon, <1>1, <2>3 DEF ReportsWhatWasDone, RefusedMeansUnchanged
  <2>5. ScopeTellsFate'
    BY <1>1, <1>3, <2>3 DEF ScopeTellsFate
  <2> QED  BY <1>1, <1>2, <1>3, <2>1, <2>4, <2>5 DEF ExchangeInv
<1> QED  BY Zenon, <1>4, <1>5

LEMMA ExchangeInvariant == ExchangeSpec => []ExchangeInv
<1>1. ASSUME ExchangeInv, [ExchangeNext]_evars PROVE ExchangeInv'
  <2>1. CASE UNCHANGED <<frame, admission, exchange>> /\ have' \in Nat
    <3>1. UNCHANGED <<frame, admission, stage, command, held, was, conduct, fate, result>>
      BY Zenon, <2>1 DEF exchange
    <3>2. ReportsWhatWasDone' /\ RefusedMeansUnchanged' /\ ScopeTellsFate'
      BY Zenon, <1>1, <3>1 DEF ExchangeInv, ReportsWhatWasDone, RefusedMeansUnchanged, ScopeTellsFate
    <3>3. Conducted(frame, command, was, held)' = Conducted(frame, command, was, held)
      BY Zenon, <3>1 DEF Conducted
    <3>4. Bounded(frame)' = Bounded(frame)
      BY Zenon, <3>1
    <3> QED  BY <1>1, <2>1, <3>1, <3>2, <3>3, <3>4 DEF ExchangeInv
  <2>2. CASE Arrive
    BY SMTT(30), <1>1, <2>1, <2>2 DEF Arrive, Receive, ExchangeInv
  <2>3. CASE UNCHANGED evars
    BY <1>1, <2>1, <2>3 DEF evars, vars, ExchangeInv
  <2> QED  BY <1>1, <2>2, <2>3, IssueKeeps, ServeKeeps, FinishKeeps DEF ExchangeNext
<1>2. ExchangeInv /\ [ExchangeNext]_evars => ExchangeInv'
  BY Zenon, <1>1
<1> QED  BY <1>2, ExchangeInitial, PTL DEF ExchangeSpec

\* Whatever execute does not refuse, a decoder of this crate under the same
\* bounds admits (encode_request, admit).
THEOREM CommandsAdmittedHolds == ExchangeSpec => []CommandsAdmitted
<1>1. ExchangeInv => CommandsAdmitted
  BY RequestAdmitted DEF ExchangeInv, CommandsAdmitted, Verdict
<1> QED  BY <1>1, ExchangeInvariant, PTL

\* A call that succeeds tells what was done (interpret_ping to interpret_exists).
THEOREM ReportsWhatWasDoneHolds == ExchangeSpec => []ReportsWhatWasDone
<1>1. ExchangeInv => ReportsWhatWasDone
  BY DEF ExchangeInv
<1> QED  BY <1>1, ExchangeInvariant, PTL

\* An error that is not ambiguous means that nothing was done, when the server
\* keeps to the contract (CommandError::is_ambiguous).
THEOREM RefusedMeansUnchangedHolds == ExchangeSpec => []RefusedMeansUnchanged
<1>1. ExchangeInv => RefusedMeansUnchanged
  BY DEF ExchangeInv
<1> QED  BY <1>1, ExchangeInvariant, PTL

\* The scope an error states is what the driver does (CommandError::scope).
THEOREM ScopeTellsFateHolds == ExchangeSpec => []ScopeTellsFate
<1>1. ExchangeInv => ScopeTellsFate
  BY Zenon DEF ExchangeInv
<1> QED  BY <1>1, ExchangeInvariant, PTL

=============================================================================
