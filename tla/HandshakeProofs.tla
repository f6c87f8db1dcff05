-------------------------- MODULE HandshakeProofs --------------------------
(***************************************************************************)
(* What connect promises, for every configuration, every reply, every way  *)
(* its bytes are cut, and every size the protocol may fix.                 *)
(***************************************************************************)
EXTENDS Handshake, TLAPS

-----------------------------------------------------------------------------
(* The request *)

\* A frame without metadata entries has an empty region.
LEMMA NoMetadata == MetadataLength(<<>>) = 0 /\ MetadataOrder(<<>>) = "ordered"
<1> DEFINE Folded(F) ==
             F = [s \in SUBSET (DOMAIN <<>>) |->
                    IF s = {} THEN 0
                    ELSE LET x == Max(s) IN F[s \ {x}] + 4 + <<>>[x].length]
<1>1. DOMAIN <<>> = {} /\ SUBSET {} = {{}}
  OBVIOUS
<1>2. Folded([s \in {{}} |-> 0])
  BY <1>1
<1>3. MetadataLength(<<>>) = (CHOOSE F : Folded(F))[DOMAIN <<>>]
  BY DEF MetadataLength, FoldLeft, MapThenFoldSet
<1>4. Folded(CHOOSE F : Folded(F))
  BY <1>2
<1>5. MetadataLength(<<>>) = 0
  BY <1>1, <1>3, <1>4
<1> QED  BY <1>5 DEF MetadataOrder, AscendingIds

\* The request for any configuration: 30 bytes.
LEMMA RequestFields ==
    ASSUME NEW c
    PROVE  /\ HandshakeRequest(c) =
                  [version |-> 0, kind |-> Request, flags |-> 0, code |-> HANDSHAKE_OPCODE,
                   metadata_length |-> 0, payload_length |-> HEAD_LENGTH,
                   request_id |-> HANDSHAKE_REQUEST_ID, metadata |-> "ordered", inner |-> 0]
           /\ TotalLength(HandshakeRequest(c)) = 30
<1>1. EncodedLength(Proposal(c)) = HEAD_LENGTH
  BY DEF EncodedLength, Proposal, HEAD_LENGTH
<1>2. HandshakeRequest(c) =
        [version |-> 0, kind |-> Request, flags |-> 0, code |-> HANDSHAKE_OPCODE,
         metadata_length |-> 0, payload_length |-> HEAD_LENGTH,
         request_id |-> HANDSHAKE_REQUEST_ID, metadata |-> "ordered", inner |-> 0]
  BY <1>1, NoMetadata DEF HandshakeRequest, Encoded, Opaque
<1> QED  BY <1>2 DEF TotalLength, HEADER_LENGTH, HEAD_LENGTH

\* What the decoder of a server makes of its first n bytes.
LEMMA RequestDecoded ==
    ASSUME NEW c, NEW n \in Nat
    PROVE  Decode(HandshakeRequest(c), n, ServerContext).step =
               IF n < TotalLength(HandshakeRequest(c)) THEN "Need" ELSE "Frame"
<1> DEFINE f == HandshakeRequest(c)
<1>1. /\ f.version = 0 /\ f.kind = Request /\ f.flags = 0 /\ f.code = HANDSHAKE_OPCODE
      /\ f.metadata_length = 0 /\ f.request_id = 1 /\ f.metadata = "ordered"
      /\ TotalLength(f) = 30
  BY RequestFields DEF HANDSHAKE_REQUEST_ID
<1> HIDE DEF f
<1>2. HeaderVerdict(f, ServerContext.limits) = "ok"
  BY <1>1, HandshakeAssumption
     DEF HeaderVerdict, ServerContext, PRE_NEGOTIATION, Kinds, Request, HEADER_LENGTH, HEAD_LENGTH
<1>3. BodyVerdict(f, ServerContext) = "Frame"
  <2>1. Correlate(f, {}) = "ok"
    BY <1>1 DEF Correlate, Request, HANDSHAKE_OPCODE, Opcodes
  <2>2. StateAllows("PreNegotiation", f)
    BY <1>1 DEF StateAllows
  <2>3. PayloadFits(f)
    BY <1>1 DEF PayloadFits, Request, Response, Error, HANDSHAKE_OPCODE, PING_OPCODE, SET_OPCODE
  <2>4. Sender(f.kind) # "Server"
    BY <1>1 DEF Sender
  <2> QED  BY <1>1, <2>1, <2>2, <2>3, <2>4 DEF BodyVerdict, ServerContext
<1>4. Decode(f, n, ServerContext).step = IF n < TotalLength(f) THEN "Need" ELSE "Frame"
  BY <1>1, <1>2, <1>3 DEF Decode, Need, Admitted, HEADER_LENGTH
<1> QED  BY <1>4 DEF f

-----------------------------------------------------------------------------
(* The reply *)

Verdict(r, n) == Decode(r.frame, n, Context)
Whole(r) == Verdict(r, TotalLength(r.frame)).step

Classes == ConnectionFatal \cup RequestScoped

\* decode asks for more only within the bound before negotiation, and what it
\* says once it does not ask is what it says of the whole reply.
LEMMA ReplyDecoded ==
    ASSUME NEW r \in Replies, NEW n \in Nat
    PROVE  /\ Verdict(r, n).step \in {"Need", "Frame"} \cup Classes
           /\ Verdict(r, n).step = "Need" =>
                 /\ Verdict(r, n).bytes \in Nat /\ n < Verdict(r, n).bytes
                 /\ Verdict(r, n).bytes <= MAX_FRAME_SIZE
           /\ Verdict(r, n).step # "Need" => Whole(r) = Verdict(r, n).step
<1> DEFINE f == r.frame
           header == HeaderVerdict(f, Context.limits)
           body == BodyVerdict(f, Context)
<1>1. TotalLength(f) \in Nat /\ TotalLength(f) >= HEADER_LENGTH /\ HEADER_LENGTH \in Nat
  BY HandshakeAssumption DEF TotalLength, HEADER_LENGTH
<1>2. /\ header \in ConnectionFatal \cup {"ok"} /\ body \in Classes \cup {"Frame"}
      /\ "Need" \notin Classes /\ "ok" \notin Classes
  BY DEF HeaderVerdict, BodyVerdict, Correlate, ConnectionFatal, RequestScoped, Classes
<1>3. header = "ok" => TotalLength(f) <= MAX_FRAME_SIZE
  BY <1>1, HandshakeAssumption DEF HeaderVerdict, Context, PRE_NEGOTIATION
<1>4. HEADER_LENGTH <= MAX_FRAME_SIZE
  BY HandshakeAssumption DEF HEADER_LENGTH, HEAD_LENGTH
<1> HIDE DEF f, header, body
<1>5. \A k \in Nat :
        LET d == Decode(f, k, Context) IN
        /\ k < HEADER_LENGTH => d = Need(HEADER_LENGTH)
        /\ k >= HEADER_LENGTH /\ header # "ok" => d.step = header
        /\ k >= HEADER_LENGTH /\ header = "ok" /\ k < TotalLength(f) => d = Need(TotalLength(f))
        /\ k >= HEADER_LENGTH /\ header = "ok" /\ k >= TotalLength(f) => d.step = body
  BY <1>1 DEF Decode, Refused, Admitted, header, body
<1>6. \A k : Need(k).step = "Need" /\ Need(k).bytes = k
  BY DEF Need
<1>7. Verdict(r, n) = Decode(f, n, Context) /\ Whole(r) = Decode(f, TotalLength(f), Context).step
  BY DEF Verdict, Whole, f
<1>8. CASE n < HEADER_LENGTH
  BY <1>1, <1>4, <1>5, <1>6, <1>7, <1>8
<1>9. CASE n >= HEADER_LENGTH /\ header # "ok"
  BY <1>1, <1>2, <1>5, <1>7, <1>9 DEF Classes
<1>10. CASE n >= HEADER_LENGTH /\ header = "ok" /\ n < TotalLength(f)
  BY <1>1, <1>3, <1>5, <1>6, <1>7, <1>10
<1>11. CASE n >= HEADER_LENGTH /\ header = "ok" /\ n >= TotalLength(f)
  BY <1>1, <1>2, <1>5, <1>7, <1>11
<1> QED  BY <1>1, <1>8, <1>9, <1>10, <1>11

\* A reply that is admitted is a response, or an error of an assigned class.
LEMMA ReplyInterpreted ==
    ASSUME NEW r \in Replies, Whole(r) = "Frame"
    PROVE  /\ Interpret(r) \in {"ok"} \cup Classes
           /\ Interpret(r) = "ok" =>
                 /\ r.body.frame_size >= MINIMUM_NEGOTIATED_FRAME_SIZE
                 /\ r.body.metadata_size >= MINIMUM_NEGOTIATED_METADATA_SIZE
<1>1. TotalLength(r.frame) \in Nat /\ TotalLength(r.frame) >= HEADER_LENGTH
      /\ HEADER_LENGTH \in Nat
  BY HandshakeAssumption DEF TotalLength, HEADER_LENGTH
<1>2. BodyVerdict(r.frame, Context) = "Frame"
  <2>1. \/ HeaderVerdict(r.frame, Context.limits) = "Frame"
        \/ BodyVerdict(r.frame, Context) = "Frame"
    BY <1>1 DEF Whole, Verdict, Decode, Refused, Admitted
  <2>2. HeaderVerdict(r.frame, Context.limits) # "Frame"
    BY DEF HeaderVerdict
  <2> QED  BY <2>1, <2>2
<1>3. Correlate(r.frame, Context.in_flight) = "ok"
  <2>1. Correlate(r.frame, Context.in_flight) # "Frame"
    BY DEF Correlate
  <2> QED  BY <1>2, <2>1 DEF BodyVerdict
<1>4. r.frame.kind = Error => r.frame.code \in FatalCodes \cup ScopedCodes
  BY <1>3 DEF Correlate, Error, Response, Request
<1>5. r.frame.kind = Error => Interpret(r) \in Classes
  BY <1>4 DEF Interpret, ClassOf, FatalCodes, ScopedCodes, Classes, ConnectionFatal, RequestScoped
<1>6. r.frame.kind # Error => Interpret(r) \in {"ok"} \cup Classes
  BY DEF Interpret, ResponseVerdict, Classes, ConnectionFatal
<1>7. "ok" \notin Classes
  BY DEF Classes, ConnectionFatal, RequestScoped
<1>8. r.frame.kind # Error /\ Interpret(r) = "ok" =>
        /\ r.body.frame_size >= MINIMUM_NEGOTIATED_FRAME_SIZE
        /\ r.body.metadata_size >= MINIMUM_NEGOTIATED_METADATA_SIZE
  BY HandshakeAssumption DEF Interpret, ResponseVerdict,
     MINIMUM_NEGOTIATED_FRAME_SIZE, MINIMUM_NEGOTIATED_METADATA_SIZE
<1> QED  BY <1>5, <1>6, <1>7, <1>8

-----------------------------------------------------------------------------
(* The invariant: how far connect is says what was checked on the way.     *)

ConnectInv ==
    /\ TypeOK
    /\ have < BufferCap(config) + READ_CHUNK
    /\ hpc \in {"validate", "connect"} => sent = 0 /\ have = 0
    /\ hpc \notin {"validate", "done"} => Validate(config) = "ok"
    /\ hpc \in {"decode", "read", "check"} \/ result = "Usable" =>
          sent = TotalLength(HandshakeRequest(config))
    /\ hpc # "done" => ~shut
    /\ hpc = "write" => have = 0
    /\ hpc = "read" => have < BufferCap(config)
    /\ hpc = "check" => Whole(reply) = "Frame" /\ Interpret(reply) = "ok" /\ in_flight = {}
    /\ EndsAsDeserved
    /\ UsableWithinBounds

\* A configuration that passed validate lets the reply be as long as the bound
\* before negotiation.
LEMMA CapIsBound ==
    ASSUME NEW c \in Configs
    PROVE  /\ BufferCap(c) \in Nat
           /\ Validate(c) = "ok" => BufferCap(c) = MAX_FRAME_SIZE
<1>1. c.local_frame \in Nat /\ MAX_FRAME_SIZE \in Nat
  BY HandshakeAssumption
<1>2. Validate(c) = "ok" => ~(c.local_frame < MAX_FRAME_SIZE)
  BY DEF Validate, MINIMUM_NEGOTIATED_FRAME_SIZE
<1> QED  BY <1>1, <1>2 DEF BufferCap

LEMMA ConnectInit == Init => ConnectInv
<1> SUFFICES ASSUME Init PROVE ConnectInv
  OBVIOUS
<1>1. BufferCap(config) \in Nat /\ TotalLength(HandshakeRequest(config)) = 30
      /\ READ_CHUNK \in Nat \ {0}
  BY CapIsBound, RequestFields, HandshakeAssumption DEF Init
<1>2. TypeOK
  <2>1. have \in Nat
    BY DEF Init
  <2>2. sent \in 0 .. TotalLength(HandshakeRequest(config))
    BY <1>1 DEF Init
  <2>3. shut \in BOOLEAN /\ (hpc = "done") = (result # "none")
    BY DEF Init
  <2> QED  BY <2>1, <2>2, <2>3 DEF Init, TypeOK
<1>3. /\ hpc = "validate" /\ result = "none" /\ sent = 0 /\ have = 0 /\ ~shut
      /\ have < BufferCap(config) + READ_CHUNK
  BY <1>1 DEF Init
<1>4. EndsAsDeserved /\ UsableWithinBounds
  BY <1>3 DEF EndsAsDeserved, UsableWithinBounds
<1> QED  BY <1>2, <1>3, <1>4 DEF ConnectInv

\* The three facts a step that ends connect with an error must respect.
LEMMA RefuseKeeps ==
    ASSUME ConnectInv, NEW error, Refuse(error), UNCHANGED <<config, reply, sent, have>>,
           error \notin {"none", "Usable"},
           in_flight' \subseteq {HANDSHAKE_REQUEST_ID}, shut' \in BOOLEAN,
           Validate(config) = "ok" =>
               error \in {Deserved(config, reply), "Transport", "ClosedDuringHandshake"}
    PROVE  ConnectInv'
<1>1. hpc' = "done" /\ result' = error
  BY DEF Refuse
<1>2. TypeOK'
  BY <1>1 DEF ConnectInv, TypeOK
<1>3. EndsAsDeserved' /\ UsableWithinBounds'
  BY <1>1 DEF EndsAsDeserved, UsableWithinBounds
<1> QED  BY <1>1, <1>2, <1>3 DEF ConnectInv

\* One that goes on.
LEMMA GoesOn ==
    ASSUME ConnectInv, UNCHANGED <<config, reply, result>>, hpc # "done", hpc' # "done"
    PROVE  EndsAsDeserved' /\ UsableWithinBounds' /\ result' = "none"
BY DEF ConnectInv, TypeOK, EndsAsDeserved, UsableWithinBounds

LEMMA ConnectNext == ConnectInv /\ [Next]_vars => ConnectInv'
<1> SUFFICES ASSUME ConnectInv, [Next]_vars PROVE ConnectInv'
  OBVIOUS
<1>1. /\ config \in Configs /\ reply \in Replies /\ have \in Nat /\ sent \in Nat
      /\ READ_CHUNK \in Nat \ {0} /\ MAX_FRAME_SIZE \in Nat
      /\ TotalLength(HandshakeRequest(config)) = 30
      /\ BufferCap(config) \in Nat
  <2>1. config \in Configs /\ reply \in Replies
    BY DEF ConnectInv, TypeOK
  <2>2. BufferCap(config) \in Nat /\ TotalLength(HandshakeRequest(config)) = 30
    BY <2>1, CapIsBound, RequestFields
  <2> QED  BY <2>1, <2>2, HandshakeAssumption DEF ConnectInv, TypeOK
<1>2. CASE ValidateConfig
  <2>1. CASE Validate(config) = "ok"
    <3>1. hpc = "validate" /\ hpc' = "connect" /\ UNCHANGED <<config, reply, sent, have, in_flight, shut, result>>
      BY <1>2, <2>1 DEF ValidateConfig
    <3>2. EndsAsDeserved' /\ UsableWithinBounds' /\ result' = "none"
      BY <3>1, GoesOn
    <3>3. TypeOK'
      BY <3>1, <3>2 DEF ConnectInv, TypeOK
    <3> QED  BY <2>1, <3>1, <3>2, <3>3 DEF ConnectInv
  <2>2. CASE Validate(config) # "ok"
    <3>1. Validate(config) \notin {"none", "Usable"}
      BY DEF Validate
    <3>2. Refuse(Validate(config)) /\ UNCHANGED <<config, reply, sent, have, in_flight, shut>>
      BY <1>2, <2>2 DEF ValidateConfig
    <3> QED  BY <2>2, <3>1, <3>2, RefuseKeeps DEF ConnectInv, TypeOK
  <2> QED  BY <2>1, <2>2
<1>3. CASE Connect
  <2>1. hpc = "connect" /\ UNCHANGED <<config, reply, sent, have, shut>>
    BY <1>3 DEF Connect
  <2>2. CASE hpc' = "write" /\ in_flight' = {HANDSHAKE_REQUEST_ID} /\ UNCHANGED result
    <3>1. EndsAsDeserved' /\ UsableWithinBounds' /\ result' = "none"
      BY <2>1, <2>2, GoesOn
    <3>2. TypeOK'
      BY <2>1, <2>2, <3>1 DEF ConnectInv, TypeOK
    <3>3. ~shut
      BY <2>1 DEF ConnectInv
    <3> QED  BY <2>1, <2>2, <3>1, <3>2, <3>3 DEF ConnectInv
  <2>3. CASE Refuse("Transport") /\ UNCHANGED in_flight
    BY <2>1, <2>3, RefuseKeeps DEF ConnectInv, TypeOK
  <2> QED  BY <1>3, <2>2, <2>3 DEF Connect
<1>4. ASSUME NEW n \in 1 .. MAX_FRAME_SIZE, Write(n) PROVE ConnectInv'
  <2>1. /\ hpc = "write" /\ UNCHANGED <<config, reply, have, in_flight, shut, result>>
        /\ hpc' \in {"decode", "write"} /\ sent' = sent + n /\ sent' <= 30
        /\ hpc' = "decode" => sent' = 30
    BY <1>1, <1>4 DEF Write
  <2>2. EndsAsDeserved' /\ UsableWithinBounds' /\ result' = "none"
    BY <2>1, GoesOn
  <2>3. sent' \in 0 .. TotalLength(HandshakeRequest(config))
    BY <1>1, <2>1
  <2>4. TypeOK'
    BY <2>1, <2>2, <2>3 DEF ConnectInv, TypeOK
  <2> QED  BY <1>1, <2>1, <2>2, <2>4 DEF ConnectInv
<1>5. CASE WriteFails
  BY <1>5, RefuseKeeps DEF WriteFails, ConnectInv, TypeOK
<1>6. CASE DecodeReply
  <2> DEFINE v == Verdict(reply, have)
  <2>1. hpc = "decode" /\ UNCHANGED <<config, reply, sent, have, shut>>
    BY <1>6 DEF DecodeReply
  <2>2. Validate(config) = "ok" /\ BufferCap(config) = MAX_FRAME_SIZE /\ ~shut
    BY <1>1, <2>1, CapIsBound DEF ConnectInv
  <2>3. /\ v.step = "Need" => v.bytes \in Nat /\ have < v.bytes /\ v.bytes <= MAX_FRAME_SIZE
        /\ v.step # "Need" => Whole(reply) = v.step
    BY <1>1, ReplyDecoded
  <2>4. Whole(reply) # "Frame" => Deserved(config, reply) = Whole(reply)
    BY DEF Deserved, Whole, Verdict
  <2>5. Whole(reply) = "Frame" /\ Interpret(reply) # "ok" => Deserved(config, reply) = Interpret(reply)
    BY DEF Deserved, Whole, Verdict
  <2>6. {"none", "Usable"} \cap Classes = {} /\ "ok" \notin Classes
    BY DEF Classes, ConnectionFatal, RequestScoped
  <2>7. \/ /\ v.step = "Need"
           /\ IF TooLong(v.bytes) THEN Refuse("ResourceLimit") ELSE hpc' = "read" /\ UNCHANGED result
           /\ UNCHANGED in_flight
        \/ /\ v.step = "Frame" /\ Interpret(reply) = "ok"
           /\ hpc' = "check" /\ in_flight' = in_flight \ {HANDSHAKE_REQUEST_ID}
           /\ UNCHANGED result
        \/ /\ v.step = "Frame" /\ Interpret(reply) # "ok"
           /\ Refuse(Interpret(reply)) /\ UNCHANGED in_flight
        \/ /\ v.step \in Classes
           /\ Refuse(v.step) /\ UNCHANGED in_flight
    BY <1>6 DEF DecodeReply, Verdict, Classes
  <2> HIDE DEF v
  <2>8. CASE v.step = "Need" /\ UNCHANGED in_flight
             /\ IF TooLong(v.bytes) THEN Refuse("ResourceLimit") ELSE hpc' = "read" /\ UNCHANGED result
    <3>1. ~TooLong(v.bytes) /\ have < BufferCap(config)
      BY <1>1, <2>2, <2>3, <2>8 DEF TooLong
    <3>2. hpc' = "read" /\ UNCHANGED result
      BY <2>8, <3>1
    <3>3. EndsAsDeserved' /\ UsableWithinBounds' /\ result' = "none"
      BY <2>1, <3>2, GoesOn
    <3>4. TypeOK'
      BY <2>1, <2>8, <3>2, <3>3 DEF ConnectInv, TypeOK
    <3> QED  BY <2>1, <2>2, <3>1, <3>2, <3>3, <3>4 DEF ConnectInv, BufferCap
  <2>9. CASE /\ v.step = "Frame" /\ Interpret(reply) = "ok"
             /\ hpc' = "check" /\ in_flight' = in_flight \ {HANDSHAKE_REQUEST_ID}
             /\ UNCHANGED result
    <3>1. EndsAsDeserved' /\ UsableWithinBounds' /\ result' = "none"
      BY <2>1, <2>9, GoesOn
    <3>2. in_flight' = {}
      BY <2>9 DEF ConnectInv, TypeOK
    <3>3. TypeOK'
      BY <2>1, <2>9, <3>1, <3>2 DEF ConnectInv, TypeOK
    <3>4. Whole(reply)' = "Frame" /\ Interpret(reply)' = "ok"
      BY <2>1, <2>3, <2>9
    <3> QED  BY <2>1, <2>2, <2>9, <3>1, <3>2, <3>3, <3>4 DEF ConnectInv
  <2>10. CASE v.step = "Frame" /\ Interpret(reply) # "ok" /\ Refuse(Interpret(reply)) /\ UNCHANGED in_flight
    <3>1. Interpret(reply) \notin {"none", "Usable"}
      BY <1>1, <2>3, <2>6, <2>10, ReplyInterpreted
    <3> QED  BY <2>1, <2>3, <2>5, <2>10, <3>1, RefuseKeeps DEF ConnectInv, TypeOK
  <2>11. CASE v.step \in Classes /\ Refuse(v.step) /\ UNCHANGED in_flight
    <3>1. v.step \notin {"none", "Usable", "Need", "Frame"}
      BY <2>11 DEF Classes, ConnectionFatal, RequestScoped
    <3>2. v.step = Deserved(config, reply)
      BY <2>3, <2>4, <3>1
    <3> QED  BY <2>1, <2>11, <3>1, <3>2, RefuseKeeps DEF ConnectInv, TypeOK
  <2> QED  BY <2>7, <2>8, <2>9, <2>10, <2>11
<1>7. ASSUME NEW n \in 1 .. READ_CHUNK, Read(n) PROVE ConnectInv'
  <2>1. /\ hpc = "read" /\ hpc' = "decode" /\ have' = have + n
        /\ UNCHANGED <<config, reply, sent, in_flight, shut, result>>
    BY <1>7 DEF Read
  <2>2. EndsAsDeserved' /\ UsableWithinBounds' /\ result' = "none"
    BY <2>1, GoesOn
  <2>3. have < BufferCap(config)
    BY <2>1 DEF ConnectInv
  <2>4. have' \in Nat /\ have' < BufferCap(config) + READ_CHUNK
    BY <1>1, <2>1, <2>3
  <2>5. TypeOK'
    BY <2>1, <2>2, <2>4 DEF ConnectInv, TypeOK
  <2>6. BufferCap(config') = BufferCap(config)
    BY <2>1
  <2> QED  BY <2>1, <2>2, <2>4, <2>5, <2>6 DEF ConnectInv
<1>8. CASE ReadEnd
  BY <1>8, RefuseKeeps DEF ReadEnd, ConnectInv, TypeOK
<1>9. CASE CheckCaps
  <2>1. hpc = "check" /\ UNCHANGED <<config, reply, sent, have, in_flight>>
    BY <1>9 DEF CheckCaps
  <2>2. /\ Whole(reply) = "Frame" /\ Interpret(reply) = "ok" /\ in_flight = {} /\ ~shut
        /\ sent = TotalLength(HandshakeRequest(config))
    BY <2>1 DEF ConnectInv
  <2>3. Deserved(config, reply) =
          IF reply.body.frame_size > config.local_frame THEN "NegotiatedFrameSizeAboveLocal"
          ELSE IF reply.body.metadata_size > config.local_metadata
               THEN "NegotiatedMetadataSizeAboveLocal" ELSE "Usable"
    BY <2>2 DEF Deserved, Whole, Verdict
  <2>4. CASE reply.body.frame_size > config.local_frame
    BY <1>9, <2>1, <2>2, <2>3, <2>4, RefuseKeeps DEF CheckCaps
  <2>5. CASE /\ ~(reply.body.frame_size > config.local_frame)
             /\ reply.body.metadata_size > config.local_metadata
    BY <1>9, <2>1, <2>2, <2>3, <2>5, RefuseKeeps DEF CheckCaps
  <2>6. CASE /\ ~(reply.body.frame_size > config.local_frame)
             /\ ~(reply.body.metadata_size > config.local_metadata)
    <3>1. hpc' = "done" /\ result' = "Usable" /\ UNCHANGED shut
      BY <1>9, <2>2, <2>6 DEF CheckCaps
    <3>2. {reply.body.frame_size, reply.body.metadata_size, config.local_frame,
           config.local_metadata} \subseteq Nat
      BY <1>1, HandshakeAssumption
    <3>3. /\ reply.body.frame_size >= MINIMUM_NEGOTIATED_FRAME_SIZE
          /\ reply.body.metadata_size >= MINIMUM_NEGOTIATED_METADATA_SIZE
      BY <1>1, <2>2, ReplyInterpreted
    <3>4. EffectiveLimits(config, reply.body) =
            [frame_size |-> reply.body.frame_size, metadata_size |-> reply.body.metadata_size]
      BY <2>6, <3>2 DEF EffectiveLimits
    <3>5. UsableWithinBounds'
      BY <2>1, <2>2, <3>1, <3>3, <3>4 DEF UsableWithinBounds
    <3>6. EndsAsDeserved'
      BY <2>1, <2>3, <2>6, <3>1 DEF EndsAsDeserved
    <3>7. TypeOK'
      BY <2>1, <3>1 DEF ConnectInv, TypeOK
    <3> QED  BY <2>1, <2>2, <3>1, <3>5, <3>6, <3>7 DEF ConnectInv
  <2> QED  BY <2>4, <2>5, <2>6
<1>10. CASE UNCHANGED vars
  BY <1>10 DEF vars, ConnectInv, TypeOK, EndsAsDeserved, UsableWithinBounds
<1> QED  BY <1>2, <1>3, <1>4, <1>5, <1>6, <1>7, <1>8, <1>9, <1>10 DEF Next

LEMMA ConnectInvariant == Spec => []ConnectInv
BY ConnectInit, ConnectNext, PTL DEF Spec

-----------------------------------------------------------------------------
\* connect keeps its types, and has a result exactly when it has returned.
THEOREM HandshakeTypeCorrect == Spec => []TypeOK
<1>1. ConnectInv => TypeOK
  BY DEF ConnectInv
<1> QED  BY <1>1, ConnectInvariant, PTL

\* The most the handshake buffer can hold. read_handshake_response tests the
\* length before a read and not after it, so a peer that sends more than its
\* reply takes the buffer past the bound its comment states, by less than one
\* read.
THEOREM BufferWithinOneRead == Spec => [](have < BufferCap(config) + READ_CHUNK)
<1>1. ConnectInv => have < BufferCap(config) + READ_CHUNK
  BY DEF ConnectInv
<1> QED  BY <1>1, ConnectInvariant, PTL

\* connect ends as the reply deserves, however it was cut (establish).
THEOREM EndsAsDeservedHolds == Spec => []EndsAsDeserved
<1>1. ConnectInv => EndsAsDeserved
  BY DEF ConnectInv
<1> QED  BY <1>1, ConnectInvariant, PTL

\* A usable connection runs under the negotiated bounds, which the floors of
\* the protocol bound from below (establish, HandshakeResponse::decode).
THEOREM UsableWithinBoundsHolds == Spec => []UsableWithinBounds
<1>1. ConnectInv => UsableWithinBounds
  BY DEF ConnectInv
<1> QED  BY <1>1, ConnectInvariant, PTL

\* The request reaches the peer whole and says what was proposed, however the
\* transport cut it (write_all, build_handshake_request).
THEOREM RequestUnderstoodHolds == Spec => []RequestUnderstood
<1>1. ASSUME ConnectInv PROVE RequestUnderstood
  <2> DEFINE request == HandshakeRequest(config)
             verdict == Decode(request, sent, ServerContext).step
  <2>1. TotalLength(request) = 30 /\ request.payload_length = HEAD_LENGTH
    BY RequestFields
  <2>2. sent \in Nat
    BY <1>1, <2>1 DEF ConnectInv, TypeOK
  <2>3. verdict = IF sent < TotalLength(request) THEN "Need" ELSE "Frame"
    BY <2>2, RequestDecoded
  <2>4. RequestVerdict(request.payload_length, Proposal(config)) = "ok"
    BY <2>1 DEF RequestVerdict, Proposal, Ascending, HEAD_LENGTH
  <2>5. MutualVersions(Proposal(config), {0}) = {0}
    BY DEF MutualVersions, Proposal
  <2>6. hpc \in {"decode", "read", "check"} \/ result = "Usable" => sent = TotalLength(request)
    BY <1>1 DEF ConnectInv
  <2>7. hpc \in {"decode", "read", "check"} \/ result = "Usable" => verdict = "Frame"
    <3> HIDE DEF verdict, request
    <3> QED  BY <2>1, <2>3, <2>6
  <2> QED  BY <2>3, <2>4, <2>5, <2>7 DEF RequestUnderstood
<1> QED  BY <1>1, ConnectInvariant, PTL

=============================================================================
