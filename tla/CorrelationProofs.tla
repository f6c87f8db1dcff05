------------------------- MODULE CorrelationProofs -------------------------
(***************************************************************************)
(* Correlation by identifier, for every number of calls and closers, every *)
(* bound and every peer that answers a request at most once.               *)
(***************************************************************************)
EXTENDS DispatchProofs

(* OwnAnswer is not inductive. A request is written, crosses the wire, is  *)
(* read by the peer, and its answer crosses back and is drained: at every  *)
(* moment it must be in one of these places only, and the driver must hold *)
(* its identifier for the call that sent it.                               *)

\* The frames of a sequence that answer a request.
Answers(s) == {n \in 1 .. Len(s) : s[n].kind # "garbage"}

\* The identifiers in each place.
BeingWritten == IF dpc = "writing" THEN {writing.id} ELSE {}
OnWire == {wire[n].id : n \in 1 .. Len(wire)}
AtPeer == {r.id : r \in received}
Carried(s) == {s[n].id : n \in Answers(s)}

\* They answer, once each, what the driver holds for the call they name.
Answering(s, holding) ==
    /\ \A n \in 1 .. Len(s) : s[n].kind # "fatalError"
    /\ \A n \in Answers(s) :
          s[n].id \in RequestId /\ s[n].by \in Calls /\ holding[s[n].id] = s[n].by
    /\ \A m, n \in Answers(s) : s[m].id = s[n].id => m = n

Apart ==
    /\ BeingWritten \cap (OnWire \cup AtPeer \cup Carried(inbound) \cup Carried(buffer)) = {}
    /\ OnWire \cap (AtPeer \cup Carried(inbound) \cup Carried(buffer)) = {}
    /\ AtPeer \cap (Carried(inbound) \cup Carried(buffer)) = {}
    /\ Carried(inbound) \cap Carried(buffer) = {}

Flow ==
    /\ dpc = "writing" => completions[writing.id] = writing.call
    /\ \A n \in 1 .. Len(wire) : completions[wire[n].id] = wire[n].call
    /\ \A m, n \in 1 .. Len(wire) : wire[m].id = wire[n].id => m = n
    /\ \A r \in received : completions[r.id] = r.call
    /\ \A q, r \in received : q.id = r.id => q = r
    /\ Answering(inbound, completions)
    /\ Answering(buffer, completions)
    /\ Apart

Own == \A c \in Calls : outcome[c].tag \in {"frame", "RequestFailed"} => outcome[c].by = c

Correlated == Own /\ (~Ended => Flow)

-----------------------------------------------------------------------------
(* Frames that are appended, cut off and kept *)

LEMMA AnsweringAppend ==
    ASSUME NEW s \in Seq(Frames), NEW f \in Frames, NEW holding, Answering(s, holding),
           f.kind # "fatalError",
           f.kind # "garbage" => /\ f.id \in RequestId /\ f.by \in Calls
                                 /\ holding[f.id] = f.by /\ f.id \notin Carried(s)
    PROVE  /\ Answering(Append(s, f), holding)
           /\ Carried(Append(s, f)) \subseteq
                  Carried(s) \cup (IF f.kind = "garbage" THEN {} ELSE {f.id})
<1> DEFINE t == Append(s, f)
<1>1. /\ Len(s) \in Nat /\ Len(t) = Len(s) + 1 /\ t[Len(s) + 1] = f
      /\ \A n \in 1 .. Len(s) : t[n] = s[n]
  BY AppendProperties, LenProperties
<1> HIDE DEF t
<1>2. \A n \in 1 .. Len(t) : n \in 1 .. Len(s) \/ n = Len(s) + 1
  BY <1>1
<1>3. \A n \in Answers(t) : \/ n \in Answers(s) /\ t[n] = s[n]
                            \/ n = Len(s) + 1 /\ t[n] = f /\ f.kind # "garbage"
  BY Zenon, <1>1, <1>2 DEF Answers
<1>4. Carried(t) \subseteq Carried(s) \cup (IF f.kind = "garbage" THEN {} ELSE {f.id})
  BY Zenon, <1>3 DEF Carried
<1>5. \A n \in 1 .. Len(t) : t[n].kind # "fatalError"
  BY Zenon, <1>1, <1>2 DEF Answering
<1>6. \A n \in Answers(t) :
         t[n].id \in RequestId /\ t[n].by \in Calls /\ holding[t[n].id] = t[n].by
  BY Zenon, <1>3 DEF Answering
<1>7. \A m, n \in Answers(t) : t[m].id = t[n].id => m = n
  BY <1>3 DEF Answering, Carried
<1>8. Answering(t, holding)
  BY Zenon, <1>5, <1>6, <1>7 DEF Answering
<1> QED  BY Zenon, <1>4, <1>8 DEF t

LEMMA AnsweringPart ==
    ASSUME NEW s \in Seq(Frames), NEW t \in Seq(Frames), NEW k \in Nat,
           Len(t) + k <= Len(s), \A n \in 1 .. Len(t) : t[n] = s[n + k],
           NEW holding, Answering(s, holding)
    PROVE  /\ Answering(t, holding)
           /\ \A i \in Carried(t) : \E n \in Answers(s) : n > k /\ n <= k + Len(t) /\ i = s[n].id
<1>1. Len(s) \in Nat /\ Len(t) \in Nat
  BY Zenon, LenProperties
<1>2. \A n \in 1 .. Len(t) : n + k \in 1 .. Len(s) /\ n + k > k /\ n + k <= k + Len(t)
  BY <1>1
<1>3. \A n \in Answers(t) : n \in 1 .. Len(t) /\ n + k \in Answers(s) /\ t[n] = s[n + k]
  BY Zenon, <1>2 DEF Answers
<1>4. \A n \in 1 .. Len(t) : t[n].kind # "fatalError"
  BY Zenon, <1>2 DEF Answering
<1>5. \A n \in Answers(t) :
         t[n].id \in RequestId /\ t[n].by \in Calls /\ holding[t[n].id] = t[n].by
  BY <1>3 DEF Answering
<1>6. \A m, n \in Answers(t) : t[m].id = t[n].id => m = n
  <2> SUFFICES ASSUME NEW m \in Answers(t), NEW n \in Answers(t), t[m].id = t[n].id
               PROVE  m = n
    OBVIOUS
  <2>1. m + k = n + k
    BY <1>3 DEF Answering
  <2>2. m \in Int /\ n \in Int
    BY <1>1, <1>3
  <2> QED  BY <2>1, <2>2
<1>7. \A i \in Carried(t) : \E n \in Answers(s) : n > k /\ n <= k + Len(t) /\ i = s[n].id
  BY Zenon, <1>2, <1>3 DEF Carried
<1> QED  BY Zenon, <1>4, <1>5, <1>6, <1>7 DEF Answering

LEMMA AnsweringKept ==
    ASSUME NEW s, NEW before, NEW after, Answering(s, before),
           \A i \in Carried(s) : after[i] = before[i]
    PROVE  Answering(s, after)
BY Zenon DEF Answering, Carried

\* What the types say of the places.
LEMMA FlowTypes ==
    ASSUME Typed
    PROVE  /\ wire \in Seq(Requests) /\ Len(wire) \in Nat
           /\ \A n \in 1 .. Len(wire) :
                 wire[n] \in Requests /\ wire[n].id \in RequestId /\ wire[n].call \in Calls
           /\ \A r \in received : r \in Requests /\ r.id \in RequestId /\ r.call \in Calls
           /\ inbound \in Seq(Frames) /\ buffer \in Seq(Frames)
           /\ completions \in [RequestId -> Calls \cup {NoCall}]
           /\ outcome \in [Calls -> Outcomes]
<1>1. wire \in Seq(Requests) /\ received \subseteq Requests
  BY Zenon DEF Typed, TypeOK, PeerTypes
<1>2. Len(wire) \in Nat /\ \A n \in 1 .. Len(wire) : wire[n] \in Requests
  BY Zenon, <1>1, LenProperties, ElementOfSeq
<1>3. \A r \in Requests : r.id \in RequestId /\ r.call \in Calls
  BY Zenon DEF Requests
<1> QED  BY Zenon, <1>1, <1>2, <1>3 DEF Typed, TypeOK, CallTypes, DriverTypes, PeerTypes

\* Everything in a place is pending.
LEMMA FlowPending ==
    ASSUME Typed, DriverShape, Flow
    PROVE  /\ BeingWritten \subseteq Pending /\ OnWire \subseteq Pending
           /\ AtPeer \subseteq Pending
           /\ Carried(inbound) \subseteq Pending /\ Carried(buffer) \subseteq Pending
<1>1. BeingWritten \subseteq Pending
  <2>1. dpc = "writing" => writing.id \in RequestId /\ writing.call \in Calls
    BY Zenon DEF DriverShape, Requests
  <2> QED  BY Zenon, <2>1, CallsAssumption DEF Flow, Pending, BeingWritten
<1>2. OnWire \subseteq Pending
  BY FlowTypes, CallsAssumption DEF Flow, Pending, OnWire
<1>3. AtPeer \subseteq Pending
  BY FlowTypes, CallsAssumption DEF Flow, Pending, AtPeer
<1>4. Carried(inbound) \subseteq Pending /\ Carried(buffer) \subseteq Pending
  BY CallsAssumption DEF Flow, Answering, Pending, Carried
<1> QED  BY <1>1, <1>2, <1>3, <1>4

-----------------------------------------------------------------------------
(* The steps that move a request or its answer *)

\* Nothing moves, and nothing is being written any more.
LEMMA FlowStays ==
    ASSUME Flow, UNCHANGED <<completions, wire, received, inbound, buffer>>,
           dpc' # "writing"
    PROVE  Flow'
<1>1. /\ BeingWritten' = {} /\ OnWire' = OnWire /\ AtPeer' = AtPeer
      /\ Carried(inbound)' = Carried(inbound) /\ Carried(buffer)' = Carried(buffer)
  BY Zenon DEF BeingWritten, OnWire, AtPeer, Carried, Answers
<1>2. Apart'
  BY Zenon, <1>1 DEF Flow, Apart
<1>3. Answering(inbound, completions)' /\ Answering(buffer, completions)'
  BY DEF Flow, Answering, Answers
<1> QED  BY Zenon, <1>2, <1>3 DEF Flow

LEMMA FlowUntouched ==
    ASSUME Flow, UNCHANGED <<completions, dpc, writing, buffer, wire, received, inbound>>
    PROVE  Flow'
<1>1. /\ BeingWritten' = BeingWritten /\ OnWire' = OnWire /\ AtPeer' = AtPeer
      /\ Carried(inbound)' = Carried(inbound) /\ Carried(buffer)' = Carried(buffer)
  BY Zenon DEF BeingWritten, OnWire, AtPeer, Carried, Answers
<1>2. Apart'
  BY Zenon, <1>1 DEF Flow, Apart
<1>3. Answering(inbound, completions)' /\ Answering(buffer, completions)'
  BY ZenonT(30) DEF Flow, Answering, Answers
<1> QED  BY Zenon, <1>2, <1>3 DEF Flow

\* A submission is registered under an identifier nothing else bears.
LEMMA FlowSubmit ==
    ASSUME Typed, RegistryMatches, Flow, RecvSubmit, Admissible(live, Head(queue).id)
    PROVE  Flow'
<1> DEFINE s == Head(queue)
<1>1. /\ completions' = [completions EXCEPT ![s.id] = s.call]
      /\ writing' = s /\ dpc' = "writing" /\ UNCHANGED <<wire, received, inbound, buffer>>
  BY Zenon DEF RecvSubmit, peerVars
<1>2. s.id \in RequestId /\ s.call \in Calls
  BY SMTT(30), HolderTypes, HeadTailProperties DEF RecvSubmit, Requests
<1>3. s.id \notin Pending
  BY Zenon DEF Admissible, RegistryMatches
<1> HIDE DEF s
<1>4. /\ completions'[s.id] = s.call
      /\ \A i \in Pending : completions'[i] = completions[i]
  BY Zenon, <1>1, <1>2, <1>3, FlowTypes DEF Pending
<1>5. /\ s.id \notin OnWire /\ s.id \notin AtPeer
      /\ s.id \notin Carried(inbound) /\ s.id \notin Carried(buffer)
  BY Zenon, <1>3, FlowPending DEF Typed
<1>6. /\ BeingWritten' = {s.id} /\ OnWire' = OnWire /\ AtPeer' = AtPeer
      /\ Carried(inbound)' = Carried(inbound) /\ Carried(buffer)' = Carried(buffer)
  BY Zenon, <1>1 DEF BeingWritten, OnWire, AtPeer, Carried, Answers
<1>7. Apart'
  BY <1>5, <1>6 DEF Flow, Apart
<1>8. Answering(inbound, completions') /\ Answering(buffer, completions')
  BY <1>4, FlowPending, AnsweringKept DEF Flow, Typed
<1>9. \A n \in 1 .. Len(wire) : completions'[wire[n].id] = wire[n].call
  BY Zenon, <1>4, FlowPending DEF Flow, OnWire, Typed
<1>10. \A r \in received : completions'[r.id] = r.call
  BY Zenon, <1>4, FlowPending DEF Flow, AtPeer, Typed
<1>11. Answering(inbound, completions)' /\ Answering(buffer, completions)'
  BY Zenon, <1>1, <1>8
<1> QED  BY <1>1, <1>4, <1>7, <1>9, <1>10, <1>11 DEF Flow

\* The whole request is on the wire.
LEMMA FlowWrite ==
    ASSUME Typed, Flow, FinishWrite, wire' = Append(wire, writing), dpc' # "writing",
           UNCHANGED completions
    PROVE  Flow'
<1>1. dpc = "writing" /\ UNCHANGED <<received, inbound, buffer>>
  BY Zenon DEF FinishWrite
<1>2. writing \in Requests
  BY Zenon, <1>1 DEF Typed, DriverShape
<1>3. /\ Len(wire') = Len(wire) + 1 /\ wire'[Len(wire) + 1] = writing
      /\ \A n \in 1 .. Len(wire) : wire'[n] = wire[n]
      /\ Len(wire) \in Nat
  BY <1>2, FlowTypes, AppendProperties
<1>4. \A n \in 1 .. Len(wire') : n \in 1 .. Len(wire) \/ n = Len(wire) + 1
  BY <1>3
<1>5. writing.id \notin OnWire /\ writing.id \notin AtPeer
      /\ writing.id \notin Carried(inbound) /\ writing.id \notin Carried(buffer)
  BY Zenon, <1>1 DEF Flow, Apart, BeingWritten
<1>6. BeingWritten' = {} /\ AtPeer' = AtPeer
      /\ Carried(inbound)' = Carried(inbound) /\ Carried(buffer)' = Carried(buffer)
  BY Zenon, <1>1 DEF BeingWritten, AtPeer, Carried, Answers
<1>7. OnWire' \subseteq OnWire \cup {writing.id}
  BY Zenon, <1>3, <1>4 DEF OnWire
<1>8. Apart'
  BY <1>5, <1>6, <1>7 DEF Flow, Apart
<1>9. \A n \in 1 .. Len(wire') : completions'[wire'[n].id] = wire'[n].call
  BY <1>1, <1>3, <1>4 DEF Flow
<1>10. \A m, n \in 1 .. Len(wire') : wire'[m].id = wire'[n].id => m = n
  BY <1>3, <1>4, <1>5 DEF Flow, OnWire
<1>11. Answering(inbound, completions)' /\ Answering(buffer, completions)'
  BY ZenonT(30), <1>1 DEF Flow, Answering, Answers
<1> QED  BY <1>1, <1>8, <1>9, <1>10, <1>11 DEF Flow

\* One read takes a prefix of what is coming; the buffer was drained.
LEMMA FlowRead ==
    ASSUME Typed, Flow, ReadChunk
    PROVE  Flow'
<1>1. PICK k \in 1 .. Len(inbound) :
        /\ buffer' = SubSeq(inbound, 1, k)
        /\ inbound' = SubSeq(inbound, k + 1, Len(inbound))
  BY Zenon DEF ReadChunk
<1>2. dpc' = "drain" /\ UNCHANGED <<completions, wire, received>>
  BY Zenon DEF ReadChunk
<1>3. inbound \in Seq(Frames) /\ Len(inbound) \in Nat /\ k \in Nat /\ k <= Len(inbound)
  BY <1>1, FlowTypes, LenProperties
<1>4. /\ buffer' \in Seq(Frames) /\ Len(buffer') = k
      /\ \A n \in 1 .. Len(buffer') : buffer'[n] = inbound[n + 0]
  BY <1>1, <1>3, SubSeqProperties
<1>5. /\ inbound' \in Seq(Frames) /\ Len(inbound') = Len(inbound) - k
      /\ \A n \in 1 .. Len(inbound') : inbound'[n] = inbound[n + k]
  BY <1>1, <1>3, SubSeqProperties
<1>6. /\ Answering(buffer', completions)
      /\ \A i \in Carried(buffer') : \E n \in Answers(inbound) : n <= k /\ i = inbound[n].id
  <2>1. 0 \in Nat /\ Len(buffer') + 0 <= Len(inbound) /\ 0 + Len(buffer') = k
    BY <1>3, <1>4
  <2>2. Answering(inbound, completions)
    BY Zenon DEF Flow
  <2>3. \A i \in Carried(buffer') : \E n \in Answers(inbound) :
             n > 0 /\ n <= 0 + Len(buffer') /\ i = inbound[n].id
    BY <1>3, <1>4, <2>1, <2>2, AnsweringPart
  <2> QED  BY <1>3, <1>4, <2>1, <2>2, <2>3, AnsweringPart
<1>7. /\ Answering(inbound', completions)
      /\ \A i \in Carried(inbound') : \E n \in Answers(inbound) : n > k /\ i = inbound[n].id
  <2>1. Len(inbound') + k <= Len(inbound)
    BY <1>3, <1>5
  <2>2. Answering(inbound, completions)
    BY Zenon DEF Flow
  <2>3. \A i \in Carried(inbound') : \E n \in Answers(inbound) :
             n > k /\ n <= k + Len(inbound') /\ i = inbound[n].id
    BY <1>3, <1>5, <2>1, <2>2, AnsweringPart
  <2> QED  BY <1>3, <1>5, <2>1, <2>2, <2>3, AnsweringPart
<1>8. Carried(buffer') \subseteq Carried(inbound) /\ Carried(inbound') \subseteq Carried(inbound)
  BY Zenon, <1>6, <1>7 DEF Carried
<1>9. Carried(buffer') \cap Carried(inbound') = {}
  <2> SUFFICES ASSUME NEW i \in Carried(buffer'), i \in Carried(inbound') PROVE FALSE
    OBVIOUS
  <2>1. PICK m \in Answers(inbound) : m <= k /\ i = inbound[m].id
    BY Zenon, <1>6
  <2>2. PICK n \in Answers(inbound) : n > k /\ i = inbound[n].id
    BY Zenon, <1>7
  <2>3. m = n
    BY Zenon, <2>1, <2>2 DEF Flow, Answering
  <2>4. m \in Nat
    BY <1>3 DEF Answers
  <2> QED  BY <1>3, <2>1, <2>2, <2>3, <2>4
<1>10. BeingWritten' = {} /\ OnWire' = OnWire /\ AtPeer' = AtPeer
  BY Zenon, <1>2 DEF BeingWritten, OnWire, AtPeer
<1>11. Carried(buffer)' = Carried(buffer') /\ Carried(inbound)' = Carried(inbound')
  BY Zenon DEF Carried, Answers
<1>12. Apart'
  BY <1>8, <1>9, <1>10, <1>11 DEF Flow, Apart
<1>13. Answering(inbound, completions)' /\ Answering(buffer, completions)'
  BY <1>2, <1>6, <1>7
<1> QED  BY Zenon, <1>2, <1>12, <1>13 DEF Flow

\* A frame is dispatched: its identifier is retired and nothing else has it.
LEMMA FlowDrain ==
    ASSUME Typed, Flow, DrainFrame, Dispatches(Head(buffer)), dpc' # "writing"
    PROVE  /\ Flow'
           /\ Head(buffer).by = completions[Head(buffer).id]
<1> DEFINE f == Head(buffer)
<1>1. /\ f.id \in Pending /\ Decode(f) # "ConnectionFatal"
      /\ completions' = [completions EXCEPT ![f.id] = NoCall]
      /\ buffer' = Tail(buffer) /\ UNCHANGED <<wire, received, inbound>>
  BY Zenon DEF DrainFrame, Dispatches, peerVars
<1>2. /\ buffer \in Seq(Frames) /\ buffer # <<>> /\ Len(buffer) \in Nat /\ Len(buffer) >= 1
      /\ f = buffer[1] /\ buffer' \in Seq(Frames) /\ Len(buffer') = Len(buffer) - 1
      /\ \A n \in 1 .. Len(buffer') : buffer'[n] = buffer[n + 1]
  BY SMTT(30), <1>1, FlowTypes, HeadTailProperties, LenProperties DEF DrainFrame, Typed, DriverShape
<1>3. Answering(buffer, completions)
  BY Zenon DEF Flow
<1>4. 1 \in Answers(buffer)
  <2>1. buffer[1].kind # "garbage"
    BY Zenon, <1>1, <1>2 DEF Decode
  <2> QED  BY <1>2, <2>1 DEF Answers
<1>5. f.by = completions[f.id] /\ f.id \in Carried(buffer) /\ f.id \in RequestId
  BY <1>2, <1>3, <1>4 DEF Answering, Carried
<1> HIDE DEF f
<1>6. /\ Answering(buffer', completions)
      /\ \A i \in Carried(buffer') : \E n \in Answers(buffer) : n > 1 /\ i = buffer[n].id
  <2>1. 1 \in Nat /\ Len(buffer') + 1 <= Len(buffer)
    BY <1>2
  <2>2. \A i \in Carried(buffer') : \E n \in Answers(buffer) :
             n > 1 /\ n <= 1 + Len(buffer') /\ i = buffer[n].id
    BY <1>2, <1>3, <2>1, AnsweringPart
  <2> QED  BY <1>2, <1>3, <2>1, <2>2, AnsweringPart
<1>7. Carried(buffer') \subseteq Carried(buffer)
  BY Zenon, <1>6 DEF Carried
<1>8. f.id \notin Carried(buffer')
  <2> SUFFICES ASSUME f.id \in Carried(buffer') PROVE FALSE
    OBVIOUS
  <2>1. PICK n \in Answers(buffer) : n > 1 /\ f.id = buffer[n].id
    BY Zenon, <1>6
  <2>2. n = 1
    BY <1>2, <1>3, <1>4, <2>1 DEF Answering
  <2> QED  BY <2>1, <2>2
<1>9. f.id \notin OnWire /\ f.id \notin AtPeer /\ f.id \notin Carried(inbound)
  BY Zenon, <1>5 DEF Flow, Apart
<1>10. \A i : i # f.id => completions'[i] = completions[i]
  <2>1. \A i \in RequestId : i # f.id => completions'[i] = completions[i]
    BY Zenon, <1>1, FlowTypes
  <2>2. DOMAIN completions' = DOMAIN completions
    BY Zenon, <1>1
  <2> QED  BY <1>1, <2>1, <2>2
<1>11. BeingWritten' = {} /\ OnWire' = OnWire /\ AtPeer' = AtPeer
  BY Zenon, <1>1 DEF BeingWritten, OnWire, AtPeer
<1>12. Carried(buffer)' = Carried(buffer') /\ Carried(inbound)' = Carried(inbound)
  BY Zenon, <1>1 DEF Carried, Answers
<1>13. Apart'
  BY Zenon, <1>7, <1>11, <1>12 DEF Flow, Apart
<1>14. Answering(buffer', completions')
  BY <1>6, <1>8, <1>10, AnsweringKept
<1>15. Answering(inbound, completions')
  BY SMTT(30), <1>9, <1>10, AnsweringKept DEF Flow
<1>16. \A n \in 1 .. Len(wire) : completions'[wire[n].id] = wire[n].call
  BY Zenon, <1>9, <1>10 DEF Flow, OnWire
<1>17. \A r \in received : completions'[r.id] = r.call
  BY Zenon, <1>9, <1>10 DEF Flow, AtPeer
<1>18. Answering(inbound, completions)' /\ Answering(buffer, completions)'
  BY <1>1, <1>14, <1>15
<1>19. Flow'
  BY <1>1, <1>13, <1>16, <1>17, <1>18 DEF Flow
<1> QED  BY Zenon, <1>5, <1>19 DEF f

\* The peer's violations are counted, and never forgotten.
LEMMA FaultsType ==
    ASSUME Typed
    PROVE  faults \in Nat
BY LimitsAssumption DEF Typed, TypeOK, PeerTypes

LEMMA TruthfulBefore ==
    ASSUME Typed, [Next]_vars, Truthful'
    PROVE  Truthful
<1> SUFFICES ASSUME faults' = 0 PROVE faults = 0
  BY Zenon DEF Truthful
<1>1. CASE UNCHANGED faults
  BY Zenon, <1>1
<1>2. CASE PeerStep
  <2>1. faults' = faults \/ faults' = faults + 1
    BY Zenon, <1>2 DEF PeerStep, PeerRead, PeerAnswer, PeerBadMeta, PeerViolates, PeerSends
  <2> QED  BY <2>1, FaultsType
<1>3. CASE NetStep
  BY Zenon, <1>1, <1>3 DEF NetStep, PeerClose, LinkDown
<1>4. ASSUME NEW c \in Calls, Start(c) \/ CallStep(c) \/ AbandonWait(c) \/ Abandon(c)
      PROVE  faults' = faults
  BY Zenon, <1>4 DEF Start, CallStep, Acquire, Woken, Granted, Send, Resolve, AbandonWait,
         Abandon, callFrame, peerVars
<1>5. ASSUME NEW k \in Closers, CloseStart(k) \/ CloseStep(k) \/ AbandonClose(k)
      PROVE  faults' = faults
  BY Zenon, <1>5 DEF CloseStart, CloseStep, BeginClosing, CloseSeal, HasDriver, SignalShutdown,
         TakeHandle, JoinDriver, CloseDriverless, AbandonClose, closeFrame, peerVars
<1>6. CASE DriverStep
  BY Zenon, <1>1, <1>6 DEF DriverStep, TakeShutdown, PollOthers, RecvSubmit, RecvClosed,
         FinishWrite, ReadChunk, ReadEnd, DrainFrame, MarkState, SealAdmission, ShutTransport,
         DriverReturn, Abort, peerVars
<1>7. CASE DropShared \/ DropShutdownSender \/ Terminated \/ UNCHANGED vars
  BY Zenon, <1>1, <1>7 DEF DropShared, DropShutdownSender, Terminated, vars, peerVars
<1> QED  BY Zenon, <1>1, <1>2, <1>3, <1>4, <1>5, <1>6, <1>7 DEF Next

\* A truthful peer, or the link, moves a request or an answer, or loses it.
LEMMA FlowPeer ==
    ASSUME Typed, Truthful', Flow, PeerStep \/ NetStep
    PROVE  Flow'
<1>1. UNCHANGED <<completions, dpc, writing, buffer>>
  BY Zenon DEF PeerStep, NetStep, PeerRead, PeerAnswer, PeerBadMeta, PeerViolates,
         PeerSends, PeerClose, LinkDown, peerFrame, driverVars
<1>2. BeingWritten' = BeingWritten /\ Carried(buffer)' = Carried(buffer)
  BY Zenon, <1>1 DEF BeingWritten, Carried, Answers
<1>3. Answering(buffer, completions)'
  BY ZenonT(30), <1>1 DEF Flow, Answering, Answers
<1>4. CASE PeerRead
  <2>1. /\ wire # <<>> /\ received' = received \cup {Head(wire)} /\ wire' = Tail(wire)
        /\ inbound' = inbound
    BY Zenon, <1>4 DEF PeerRead
  <2>2. /\ Head(wire) = wire[1] /\ Len(wire) >= 1 /\ Len(wire') = Len(wire) - 1
        /\ \A n \in 1 .. Len(wire') : wire'[n] = wire[n + 1]
        /\ Len(wire) \in Nat
    BY <2>1, FlowTypes, HeadTailProperties, LenProperties
  <2>3. wire[1].id \in OnWire /\ completions[wire[1].id] = wire[1].call
    BY <2>2 DEF OnWire, Flow
  <2>4. \A n \in 1 .. Len(wire') : n + 1 \in 1 .. Len(wire) /\ n + 1 # 1
    BY <2>2
  <2>5. OnWire' \subseteq OnWire \ {wire[1].id}
    <3> SUFFICES ASSUME NEW n \in 1 .. Len(wire')
                 PROVE  wire'[n].id \in OnWire /\ wire'[n].id # wire[1].id
      BY Zenon DEF OnWire
    <3>1. wire'[n] = wire[n + 1] /\ n + 1 \in 1 .. Len(wire) /\ 1 \in 1 .. Len(wire)
      BY <2>2, <2>4
    <3>2. wire[n + 1].id # wire[1].id
      BY Zenon, <2>4, <3>1 DEF Flow
    <3> QED  BY Zenon, <3>1, <3>2 DEF OnWire
  <2>6. AtPeer' = AtPeer \cup {wire[1].id}
    BY Zenon, <2>1, <2>2 DEF AtPeer
  <2>7. Carried(inbound)' = Carried(inbound)
    BY Zenon, <2>1 DEF Carried, Answers
  <2>8. Apart'
    <3>1. Apart
      BY Zenon DEF Flow
    <3> QED  BY SMTT(30), <1>2, <2>3, <2>5, <2>6, <2>7, <3>1 DEF Apart
  <2>9. \A n \in 1 .. Len(wire') : completions'[wire'[n].id] = wire'[n].call
    <3>1. \A n \in 1 .. Len(wire) : completions[wire[n].id] = wire[n].call
      BY Zenon DEF Flow
    <3> QED  BY Zenon, <1>1, <2>2, <2>4, <3>1
  <2>10. \A m, n \in 1 .. Len(wire') : wire'[m].id = wire'[n].id => m = n
    <3> SUFFICES ASSUME NEW m \in 1 .. Len(wire'), NEW n \in 1 .. Len(wire'),
                        wire'[m].id = wire'[n].id
                 PROVE  m = n
      OBVIOUS
    <3>1. m + 1 = n + 1
      <4>1. /\ wire'[m] = wire[m + 1] /\ wire'[n] = wire[n + 1]
            /\ m + 1 \in 1 .. Len(wire) /\ n + 1 \in 1 .. Len(wire)
        BY Zenon, <2>2, <2>4
      <4>2. wire[m + 1].id = wire[n + 1].id
        BY Zenon, <4>1
      <4> QED  BY Zenon, <4>1, <4>2 DEF Flow
    <3> QED  BY <2>2, <3>1
  <2>11. \A q, r \in received' : q.id = r.id => q = r
    <3>1. wire[1].id \notin AtPeer
      BY Zenon, <2>3 DEF Flow, Apart
    <3>2. \A q, r \in received : q.id = r.id => q = r
      BY Zenon DEF Flow
    <3>3. \A r \in received : r.id # wire[1].id
      BY Zenon, <3>1 DEF AtPeer
    <3>4. received' = received \cup {wire[1]}
      BY Zenon, <2>1, <2>2
    <3> QED  BY Zenon, <3>2, <3>3, <3>4
  <2>12. \A r \in received' : completions'[r.id] = r.call
    BY <1>1, <2>1, <2>2, <2>3 DEF Flow
  <2>13. Answering(inbound, completions)'
    BY ZenonT(30), <1>1, <2>1 DEF Flow, Answering, Answers
  <2> QED  BY Zenon, <1>1, <1>3, <2>8, <2>9, <2>10, <2>11, <2>12, <2>13 DEF Flow
<1>5. ASSUME NEW r \in received, NEW kind \in {"answer", "badMeta"}, NEW b \in BOOLEAN,
             PeerSends([kind |-> kind, id |-> r.id, by |-> r.call], b),
             received' = received \ {r}
      PROVE  Flow'
  <2> DEFINE f == [kind |-> kind, id |-> r.id, by |-> r.call]
  <2>1. inbound' = Append(inbound, f) /\ wire' = wire
    BY Zenon, <1>5 DEF PeerSends
  <2>2. f \in Frames /\ f.kind = kind /\ f.id = r.id /\ f.by = r.call
    BY Zenon, <1>5, FlowTypes DEF Frames, FrameKinds, RequestId
  <2> HIDE DEF f
  <2>3. /\ r.id \in AtPeer /\ r.id \in RequestId /\ r.call \in Calls
        /\ completions[r.id] = r.call
    BY Zenon, FlowTypes DEF AtPeer, Flow
  <2>4. r.id \notin Carried(inbound)
    BY Zenon, <2>3 DEF Flow, Apart
  <2>5. /\ Answering(inbound', completions)
        /\ Carried(inbound') \subseteq Carried(inbound) \cup {r.id}
    <3>1. inbound \in Seq(Frames) /\ Answering(inbound, completions)
      BY Zenon, FlowTypes DEF Flow
    <3>2. f.kind # "fatalError" /\ f.kind # "garbage"
      BY Zenon, <1>5, <2>2
    <3> QED  BY <2>1, <2>2, <2>3, <2>4, <3>1, <3>2, AnsweringAppend
  <2>6. AtPeer' \subseteq AtPeer \ {r.id} /\ OnWire' = OnWire
    BY ZenonT(30), <1>5, <2>1 DEF AtPeer, OnWire, Flow
  <2>7. Carried(inbound)' = Carried(inbound')
    BY Zenon DEF Carried, Answers
  <2>8. Apart'
    <3>1. Apart
      BY Zenon DEF Flow
    <3> QED  BY SMTT(30), <1>2, <2>3, <2>5, <2>6, <2>7, <3>1 DEF Apart
  <2>9. Answering(inbound, completions)'
    BY Zenon, <1>1, <2>5
  <2> QED  BY Zenon, <1>1, <1>3, <1>5, <2>1, <2>8, <2>9 DEF Flow
<1>6. CASE PeerAnswer
  BY Zenon, <1>5, <1>6 DEF PeerAnswer
<1>7. CASE PeerBadMeta
  BY Zenon, <1>5, <1>7 DEF PeerBadMeta
<1>8. CASE PeerViolates
  <2>0. PeerFaults \cap {"answer", "fatalError"} = {}
    <3>1. faults' = faults + 1 /\ faults \in Nat
      BY Zenon, <1>8, FaultsType DEF PeerViolates, PeerSends
    <3>2. faults' # 0
      BY <3>1
    <3> QED  BY Zenon, <3>2 DEF Truthful
  <2>1. PICK i \in WireIds :
          PeerSends([kind |-> "garbage", id |-> i, by |-> NoCall], TRUE) /\ UNCHANGED received
    BY Zenon, <1>8, <2>0 DEF PeerViolates
  <2> DEFINE f == [kind |-> "garbage", id |-> i, by |-> NoCall]
  <2>2. inbound' = Append(inbound, f) /\ wire' = wire
    BY Zenon, <2>1 DEF PeerSends
  <2>3. f \in Frames /\ f.kind = "garbage"
    BY Zenon, <2>1 DEF Frames, FrameKinds
  <2> HIDE DEF f
  <2>4. Answering(inbound', completions) /\ Carried(inbound') \subseteq Carried(inbound)
    <3>1. inbound \in Seq(Frames) /\ Answering(inbound, completions)
      BY Zenon, FlowTypes DEF Flow
    <3> QED  BY <2>2, <2>3, <3>1, AnsweringAppend
  <2>5. AtPeer' = AtPeer /\ OnWire' = OnWire /\ Carried(inbound)' = Carried(inbound')
    BY Zenon, <2>1, <2>2 DEF AtPeer, OnWire, Carried, Answers
  <2>6. Apart'
    BY <1>2, <2>4, <2>5 DEF Flow, Apart
  <2>7. Answering(inbound, completions)'
    BY Zenon, <1>1, <2>4
  <2> QED  BY <1>1, <1>3, <2>1, <2>2, <2>6, <2>7 DEF Flow
<1>9. CASE PeerClose
  <2>1. UNCHANGED <<wire, received, inbound>>
    BY Zenon, <1>9 DEF PeerClose
  <2>2. /\ OnWire' = OnWire /\ AtPeer' = AtPeer /\ Carried(inbound)' = Carried(inbound)
    BY Zenon, <2>1 DEF OnWire, AtPeer, Carried, Answers
  <2>3. Apart'
    BY Zenon, <1>2, <2>2 DEF Flow, Apart
  <2>4. Answering(inbound, completions)'
    BY ZenonT(30), <1>1, <2>1 DEF Flow, Answering, Answers
  <2> QED  BY <1>1, <1>3, <2>1, <2>3, <2>4 DEF Flow
<1>10. CASE LinkDown
  <2>1. /\ Len(wire') = 0 /\ Len(inbound') = 0 /\ UNCHANGED received
    BY Zenon, <1>10 DEF LinkDown
  <2>2. /\ OnWire' = {} /\ AtPeer' = AtPeer /\ Carried(inbound)' = {} /\ Answers(inbound)' = {}
    BY <2>1 DEF OnWire, AtPeer, Carried, Answers
  <2>3. Apart'
    BY Zenon, <1>2, <2>2 DEF Flow, Apart
  <2>4. Answering(inbound, completions)'
    BY SMTT(30), <2>1, <2>2 DEF Answering
  <2> QED  BY SMTT(30), <1>1, <1>3, <2>1, <2>3, <2>4 DEF Flow
<1> QED  BY <1>4, <1>6, <1>7, <1>8, <1>9, <1>10 DEF PeerStep, NetStep

-----------------------------------------------------------------------------
(* The steps of every task *)

\* Only a dispatched frame gives a call an outcome another call may own.
LEMMA OwnKept ==
    ASSUME Own,
           \A c \in Calls : \/ outcome'[c] = outcome[c]
                            \/ outcome'[c].tag \notin {"frame", "RequestFailed"}
    PROVE  Own'
BY Zenon DEF Own

LEMMA OwnEndSession ==
    ASSUME Typed, Own, NEW tag \in {"Closed", "Transport", "Unusable", "ConnectionFatal"},
           NEW how, NEW also, EndSession(how, tag, also)
    PROVE  Own' /\ Ended'
<1>1. Plain(tag).tag = tag
  BY Zenon DEF Plain
<1>2. \A c \in Calls : outcome'[c] = outcome[c] \/ outcome'[c] = Plain(tag)
  BY Zenon DEF EndSession, FailAll
<1>3. Own'
  BY Zenon, <1>1, <1>2, OwnKept
<1> QED  BY Zenon, <1>3 DEF EndSession, Ended

\* What a call writes itself never comes from a frame.
LEMMA CorrelatedCalls ==
    ASSUME Typed, Correlated, NEW c \in Calls,
           Start(c) \/ CallStep(c) \/ AbandonWait(c) \/ Abandon(c)
    PROVE  Correlated'
<1>1. UNCHANGED <<completions, dpc, writing, buffer, wire, received, inbound>>
  BY Zenon DEF Start, CallStep, Acquire, Woken, Granted, Send, Resolve, AbandonWait, Abandon,
         callFrame, driverVars, peerVars
<1>2. \A s : Plain(StateError(s)).tag \notin {"frame", "RequestFailed"}
  BY Zenon DEF Plain, StateError
<1>3. Plain("LocalLimitExceeded").tag \notin {"frame", "RequestFailed"}
  BY Zenon DEF Plain
<1>4. ASSUME NEW result, Finish(c, result),
             result = outcome[c] \/ result.tag \notin {"frame", "RequestFailed"}
      PROVE  Own'
  <2>1. outcome' = [outcome EXCEPT ![c] = result]
    BY Zenon, <1>4 DEF Finish
  <2>2. \A d \in Calls : \/ outcome'[d] = outcome[d]
                         \/ outcome'[d] = result /\ d = c
    BY Zenon, <2>1, FlowTypes
  <2> QED  BY Zenon, <1>4, <2>2, OwnKept DEF Correlated
<1>5. ASSUME UNCHANGED outcome PROVE Own'
  BY Zenon, <1>5, OwnKept DEF Correlated
<1>6. Start(c) => Own'
  BY Zenon, <1>2, <1>3, <1>4, <1>5 DEF Start
<1>7. Acquire(c) \/ Woken(c) \/ Granted(c) \/ Send(c) => Own'
  BY Zenon, <1>2, <1>4, <1>5 DEF Acquire, Woken, Granted, Send
<1>8. ASSUME Resolve(c) PROVE Own'
  <2>1. Finish(c, IF outcome[c].tag = "lost" THEN Plain(StateError(state)) ELSE outcome[c])
    BY Zenon, <1>8 DEF Resolve
  <2> QED  BY Zenon, <1>2, <1>4, <2>1
<1>9. AbandonWait(c) \/ Abandon(c) => Own'
  BY Zenon, <1>5 DEF AbandonWait, Abandon
<1>10. Own'
  BY <1>6, <1>7, <1>8, <1>9 DEF CallStep
<1>11. Ended' = Ended
  BY Zenon, <1>1 DEF Ended
<1>12. Flow => Flow'
  BY Zenon, <1>1, FlowUntouched
<1> QED  BY Zenon, <1>10, <1>11, <1>12 DEF Correlated

LEMMA CorrelatedDriver ==
    ASSUME Typed, RegistryMatches, Correlated, DriverStep
    PROVE  Correlated'
<1>1. Own
  BY Zenon DEF Correlated
<1>2. ASSUME UNCHANGED outcome PROVE Own'
  BY Zenon, <1>1, <1>2, OwnKept
<1>3. ASSUME NEW a, NEW b, LoopOn(a, b) PROVE dpc' \in {"return", "select"}
  BY Zenon, <1>3 DEF LoopOn
<1>4. CASE TakeShutdown
  BY <1>1, <1>4, OwnEndSession DEF TakeShutdown, Correlated
<1>5. CASE PollOthers
  <2>1. Flow /\ dpc' # "writing" /\ UNCHANGED <<completions, wire, received, inbound, buffer>>
    BY Zenon, <1>5 DEF PollOthers, peerVars, Correlated, Ended
  <2> QED  BY <1>2, <1>5, <2>1, FlowStays DEF PollOthers, Correlated
<1>6. CASE RecvSubmit
  <2>1. CASE Admissible(live, Head(queue).id)
    <3>1. Flow
      BY Zenon, <1>6 DEF RecvSubmit, Correlated, Ended
    <3> QED  BY <1>2, <1>6, <2>1, <3>1, FlowSubmit DEF RecvSubmit, Correlated
  <2>2. CASE ~Admissible(live, Head(queue).id)
    BY <1>1, <1>6, <2>2, OwnEndSession DEF RecvSubmit, Correlated
  <2> QED  BY <2>1, <2>2
<1>7. CASE RecvClosed
  <2>1. /\ Flow /\ UNCHANGED <<completions, wire, received, inbound, buffer>>
        /\ LoopOn(TRUE, Pending)
    BY Zenon, <1>7 DEF RecvClosed, peerVars, Correlated, Ended
  <2>2. Flow'
    BY Zenon, <1>3, <2>1, FlowStays
  <2> QED  BY Zenon, <1>2, <1>7, <2>2 DEF RecvClosed, Correlated
<1>8. CASE FinishWrite
  <2>1. Flow
    BY Zenon, <1>8 DEF FinishWrite, Correlated, Ended
  <2>2. CASE EndSession("Failed", "Transport", NoCall)
    BY <1>1, <2>2, OwnEndSession DEF Correlated
  <2>3. CASE /\ wire' = Append(wire, writing) /\ LoopOn(submitClosed, Pending)
             /\ UNCHANGED <<outcome, live, completions>>
    BY <1>2, <1>3, <1>8, <2>1, <2>3, FlowWrite DEF Correlated
  <2> QED  BY Zenon, <1>8, <2>2, <2>3 DEF FinishWrite
<1>9. CASE ReadChunk
  <2>1. Flow
    BY Zenon, <1>9 DEF ReadChunk, ReadTurn, Correlated, Ended
  <2> QED  BY <1>2, <1>9, <2>1, FlowRead DEF ReadChunk, Correlated
<1>10. CASE ReadEnd
  <2>1. Flow
    BY <1>10 DEF ReadEnd, ReadTurn, Correlated, Ended
  <2>2. CASE EndSession("Failed", "Transport", NoCall)
    BY Zenon, <1>1, <2>2, OwnEndSession DEF Correlated
  <2>3. CASE LoopOn(submitClosed, Pending) /\ UNCHANGED <<outcome, live, completions>>
    <3>1. UNCHANGED <<completions, wire, received, inbound, buffer>>
      BY Zenon, <1>10, <2>3 DEF ReadEnd, peerVars
    <3> QED  BY <1>2, <1>3, <2>1, <2>3, <3>1, FlowStays DEF Correlated
  <2> QED  BY Zenon, <1>10, <2>2, <2>3 DEF ReadEnd
<1>11. CASE DrainFrame
  <2>1. Flow
    BY Zenon, <1>11 DEF DrainFrame, Correlated, Ended
  <2>2. CASE ~Dispatches(Head(buffer))
    BY Zenon, <1>1, <1>11, <2>2, OwnEndSession DEF DrainFrame, Correlated
  <2>3. CASE Dispatches(Head(buffer))
    <3> DEFINE f == Head(buffer)
               d == completions[f.id]
    <3>1. dpc' # "writing"
      BY Zenon, <1>11, <2>3, <1>3 DEF DrainFrame, EndSession
    <3>2. Flow' /\ f.by = d
      BY <1>11, <2>1, <2>3, <3>1, FlowDrain
    <3>3. outcome' = outcome \/ outcome' = [outcome EXCEPT ![d] = Delivered(f)]
      BY Zenon, <1>11, <2>3 DEF DrainFrame
    <3>4. Delivered(f).by = f.by
      BY Zenon DEF Delivered
    <3> HIDE DEF f, d
    <3>5. Own'
      <4> SUFFICES ASSUME NEW c \in Calls, outcome'[c].tag \in {"frame", "RequestFailed"}
                   PROVE  outcome'[c].by = c
        BY Zenon DEF Own
      <4>1. CASE outcome'[c] = outcome[c]
        BY Zenon, <1>1, <4>1 DEF Own
      <4>2. CASE outcome'[c] # outcome[c]
        <5>1. c = d /\ outcome'[c] = Delivered(f)
          BY Zenon, <3>3, <4>2, FlowTypes
        <5> QED  BY Zenon, <3>2, <3>4, <5>1
      <4> QED  BY Zenon, <4>1, <4>2
    <3> QED  BY Zenon, <3>2, <3>5 DEF Correlated
  <2> QED  BY Zenon, <2>2, <2>3
<1>12. CASE MarkState \/ SealAdmission \/ ShutTransport \/ Abort
  <2>1. Ended' /\ UNCHANGED outcome
    BY Zenon, <1>12 DEF MarkState, SealAdmission, ShutTransport, Abort, Ended
  <2> QED  BY Zenon, <1>2, <2>1 DEF Correlated
<1>13. CASE DriverReturn
  <2>1. \A c \in Calls : outcome'[c] = outcome[c] \/ outcome'[c] = Plain("lost")
    BY Zenon, <1>13 DEF DriverReturn
  <2>2. Own'
    BY SMTT(30), <1>1, <2>1, OwnKept DEF Plain
  <2> QED  BY Zenon, <1>13, <2>2 DEF DriverReturn, Ended, Correlated
<1> QED  BY <1>4, <1>5, <1>6, <1>7, <1>8, <1>9, <1>10, <1>11, <1>12, <1>13 DEF DriverStep

LEMMA CorrelatedNext ==
    ASSUME Truthful', DispatchInv, Correlated, [Next]_vars
    PROVE  Correlated'
<1>1. Typed /\ RegistryMatches
  BY Zenon DEF DispatchInv
<1>2. CASE UNCHANGED <<outcome, completions, dpc, writing, buffer, wire, received, inbound>>
  BY Zenon, <1>2, OwnKept, FlowUntouched DEF Correlated, Ended
<1>3. CASE PeerStep \/ NetStep
  <2>1. UNCHANGED <<outcome, dpc>>
    BY Zenon, <1>3 DEF PeerStep, NetStep, PeerRead, PeerAnswer, PeerBadMeta, PeerViolates,
         PeerSends, PeerClose, LinkDown, peerFrame, driverVars
  <2> QED  BY <1>1, <1>3, <2>1, OwnKept, FlowPeer DEF Correlated, Ended
<1>4. ASSUME NEW k \in Closers, CloseStart(k) \/ CloseStep(k) \/ AbandonClose(k)
      PROVE  Correlated'
  BY Zenon, <1>2, <1>4 DEF CloseStart, CloseStep, BeginClosing, CloseSeal, HasDriver, SignalShutdown,
         TakeHandle, JoinDriver, CloseDriverless, AbandonClose, closeFrame, driverVars, peerVars
<1>5. CASE DropShared \/ DropShutdownSender \/ Terminated \/ UNCHANGED vars
  BY Zenon, <1>2, <1>5 DEF DropShared, DropShutdownSender, Terminated, vars, driverVars, peerVars
<1> QED  BY <1>1, <1>3, <1>4, <1>5, CorrelatedCalls, CorrelatedDriver DEF Next

-----------------------------------------------------------------------------
\* An answer or a request failure that a call reports was sent for that
\* call's own request, however calls, answers and drops interleave, when the
\* peer answers what it read and nothing else (drain_frames).
THEOREM OwnAnswerHolds == Spec => []OwnAnswer
<1>1. ASSUME Init PROVE Correlated
  <2>1. /\ dpc = "select" /\ Len(wire) = 0 /\ received = {} /\ Len(inbound) = 0
        /\ Len(buffer) = 0 /\ outcome = [c \in Calls |-> Plain("none")]
    BY Zenon, <1>1 DEF Init
  <2>2. /\ BeingWritten = {} /\ OnWire = {} /\ AtPeer = {}
        /\ Answers(inbound) = {} /\ Answers(buffer) = {}
    BY SMTT(30), <2>1 DEF BeingWritten, OnWire, AtPeer, Answers
  <2>3. Carried(inbound) = {} /\ Carried(buffer) = {}
    BY Zenon, <2>2 DEF Carried
  <2>4. Apart
    BY Zenon, <2>2, <2>3 DEF Apart
  <2>5. Answering(inbound, completions) /\ Answering(buffer, completions)
    BY SMTT(30), <2>1, <2>2 DEF Answering
  <2>6. Own
    BY Zenon, <2>1 DEF Own, Plain
  <2> QED  BY SMTT(30), <2>1, <2>4, <2>5, <2>6 DEF Flow, Correlated
<1>2. DispatchInv /\ (Truthful => Correlated) /\ [Next]_vars => (Truthful => Correlated)'
  <2> SUFFICES ASSUME DispatchInv, Truthful => Correlated, [Next]_vars, Truthful'
               PROVE  Correlated'
    BY Zenon
  <2>1. Truthful
    BY Zenon, TruthfulBefore DEF DispatchInv
  <2> QED  BY Zenon, <2>1, CorrelatedNext
<1>3. Init => (Truthful => Correlated)
  BY Zenon, <1>1
<1>4. (Truthful => Correlated) => OwnAnswer
  BY Zenon DEF Correlated, Own, OwnAnswer
<1> QED  BY <1>2, <1>3, <1>4, DispatchInvariant, PTL DEF Spec

=============================================================================
