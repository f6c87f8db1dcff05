--------------------------- MODULE SessionProofs ---------------------------
(***************************************************************************)
(* What Session guarantees for every number of calls and closers, every    *)
(* bound and every peer.                                                   *)
(***************************************************************************)
EXTENDS Session, SequenceTheorems, FiniteSetTheorems, TLAPS

-----------------------------------------------------------------------------
(* Identifiers *)

\* The allocator hands out identifiers that name a request and keeps its
\* count among them (RequestIdAllocator::allocate skips the reserved 0).
LEMMA AllocationInRange ==
    /\ FirstAfterHandshake \in RequestId
    /\ \A n \in RequestId : AllocatedId(n) \in RequestId /\ NextAfter(n) \in RequestId
<1>1. \A n \in RequestId : n \in Nat /\ n # 0 /\ n < IdModulus
  BY IdModulusAssumption DEF RequestId, WireIds
<1>2. \A n \in RequestId : AllocatedId(n) = n
  BY <1>1 DEF AllocatedId
<1>3. \A n \in RequestId : NextAfter(n) \in RequestId
  <2>1. ASSUME NEW n \in RequestId
        PROVE  (n + 1) % IdModulus \in 0 .. (IdModulus - 1)
    BY <1>1, IdModulusAssumption
  <2> QED  BY <2>1, <1>2, IdModulusAssumption DEF NextAfter, RequestId, WireIds
<1>4. 1 \in RequestId
  BY IdModulusAssumption DEF RequestId, WireIds
<1> QED  BY <1>2, <1>3, <1>4 DEF FirstAfterHandshake

-----------------------------------------------------------------------------
(* Types. A request takes its identifier from the call, a write takes its  *)
(* request from the channel and a drain takes its frame from the buffer,   *)
(* so typing needs to know that these are there.                           *)

CallShape ==
    \A c \in Calls : pc[c] \in {"send", "await"} => reqId[c] \in RequestId

DriverShape ==
    /\ dpc = "writing" => writing \in Requests
    /\ dpc = "drain" => buffer # <<>>
    /\ dpc = "mark" => ending \in Terminal

Typed == TypeOK /\ CallShape /\ DriverShape

LEMMA TypedInit == Init => Typed
<1> SUFFICES ASSUME Init PROVE Typed
  OBVIOUS
<1> USE DEF Init
<1>1. CallTypes /\ CallShape
  <2>1. Plain("none") \in Outcomes
    BY DEF Plain, Outcomes, Tags
  <2>2. 0 \in WireIds
    BY IdModulusAssumption DEF WireIds
  <2>3. MaxInFlight \in Nat
    BY LimitsAssumption
  <2>4. CallShape
    BY DEF CallShape
  <2>5. nextId \in RequestId
    BY AllocationInRange
  <2>6. waiters \in Seq(Calls) /\ queue \in Seq(Requests)
    BY EmptySeq
  <2>7. outcome \in [Calls -> Outcomes] /\ reqId \in [Calls -> WireIds]
    BY <2>1, <2>2
  <2>8. state \in States /\ permits \in Nat /\ admissionOpen \in BOOLEAN
    BY <2>3 DEF States
  <2>9. pc \in [Calls -> CallPcs]
    BY DEF CallPcs
  <2> HIDE DEF Init
  <2> QED  BY <2>4, <2>5, <2>6, <2>7, <2>8, <2>9 DEF CallTypes
<1>2. DriverTypes /\ DriverShape
  <2>1. completions \in [RequestId -> Calls \cup {NoCall}]
    BY DEF Unclaimed
  <2>2. buffer \in Seq(Frames)
    BY EmptySeq
  <2> QED  BY <2>1, <2>2 DEF DriverTypes, DriverShape, DriverPcs, Endings
<1>3. CloseTypes
  BY DEF CloseTypes, CloserPcs
<1>4. PeerTypes
  BY LimitsAssumption DEF PeerTypes
<1> QED  BY <1>1, <1>2, <1>3, <1>4 DEF Typed, TypeOK

\* What a returned permit does to the semaphore and to the calls.
LEMMA ReturnPermitTypes ==
    ASSUME CallTypes, NEW pcs \in [Calls -> CallPcs], ReturnPermit(pcs)
    PROVE  /\ permits' \in Nat
           /\ waiters' \in Seq(Calls)
           /\ pc' \in [Calls -> CallPcs]
           /\ \A c \in Calls : pc'[c] \in {"send", "await"} => pc'[c] = pcs[c]
<1> USE DEF CallTypes
<1>1. CASE waiters = <<>>
  BY <1>1 DEF ReturnPermit
<1>2. CASE waiters # <<>>
  <2>1. Head(waiters) \in Calls /\ Tail(waiters) \in Seq(Calls)
    BY <1>2, HeadTailProperties
  <2> QED  BY <1>2, <2>1 DEF ReturnPermit, CallPcs
<1> QED  BY <1>1, <1>2

\* A step of a call keeps everything typed: it leaves the driver, the
\* closers and the peer alone.
LEMMA TypedCall ==
    ASSUME Typed, NEW c \in Calls,
           Start(c) \/ CallStep(c) \/ AbandonWait(c) \/ Abandon(c)
    PROVE  Typed'
<1>1. \A s : Plain(StateError(s)) \in Outcomes
  BY DEF Plain, StateError, Outcomes, Tags
<1>2. Plain("LocalLimitExceeded") \in Outcomes
  BY DEF Plain, Outcomes, Tags
<1>3. UNCHANGED <<driverVars, closeVars, peerVars, state, admissionOpen>>
  BY DEF Start, CallStep, Acquire, Woken, Granted, Send, Resolve,
         AbandonWait, Abandon, callFrame, sessionVars
<1>4. DriverTypes' /\ CloseTypes' /\ PeerTypes' /\ DriverShape'
  BY <1>3 DEF Typed, TypeOK, DriverTypes, CloseTypes, PeerTypes, DriverShape,
              driverVars, closeVars, peerVars
<1>5. CallTypes /\ CallShape
  BY DEF Typed, TypeOK
<1>6. ASSUME Allocate(c)
      PROVE  /\ nextId' \in RequestId
             /\ pc' \in [Calls -> CallPcs]
             /\ reqId' \in [Calls -> WireIds]
             /\ CallShape'
  BY <1>5, <1>6, AllocationInRange
     DEF Allocate, CallPcs, RequestId, CallShape, CallTypes
<1>7. [pc EXCEPT ![c] = "done"] \in [Calls -> CallPcs]
  BY <1>5 DEF CallPcs, CallTypes
<1>8. \A o \in Outcomes : [outcome EXCEPT ![c] = o] \in [Calls -> Outcomes]
  BY <1>5 DEF CallTypes
<1> SUFFICES CallTypes' /\ CallShape'
  BY <1>4 DEF Typed, TypeOK
<1>9. CASE Start(c)
  BY <1>1, <1>2, <1>3, <1>5, <1>9 DEF Start, Finish, CallPcs, CallTypes, CallShape
<1>10. CASE Acquire(c)
  <2>1. CASE ~admissionOpen
    BY <2>1, <1>1, <1>3, <1>5, <1>10 DEF Acquire, Finish, CallPcs, CallTypes, CallShape
  <2>2. CASE admissionOpen /\ permits > 0
    BY <2>2, <1>3, <1>5, <1>6, <1>10 DEF Acquire, CallTypes
  <2>3. CASE admissionOpen /\ permits = 0
    <3>1. /\ waiters' = Append(waiters, c)
          /\ pc' = [pc EXCEPT ![c] = "waiting"]
          /\ UNCHANGED <<permits, nextId, reqId, outcome, queue>>
      BY <2>3, <1>10 DEF Acquire
    <3>2. waiters' \in Seq(Calls)
      BY <3>1, <1>5, AppendProperties DEF CallTypes
    <3> QED  BY <3>1, <3>2, <1>3, <1>5 DEF CallPcs, CallTypes, CallShape
  <2>4. permits > 0 \/ permits = 0
    BY <1>5 DEF CallTypes
  <2> QED  BY <2>1, <2>2, <2>3, <2>4
<1>11. CASE Woken(c)
  BY <1>1, <1>3, <1>5, <1>11 DEF Woken, Finish, CallPcs, CallTypes, CallShape
<1>12. CASE Granted(c)
  <2>1. CASE admissionOpen
    BY <2>1, <1>3, <1>5, <1>6, <1>12 DEF Granted, CallTypes
  <2>2. CASE ~admissionOpen
    <3>1. ReturnPermit([pc EXCEPT ![c] = "done"]) /\ UNCHANGED <<nextId, reqId, queue>>
      BY <2>2, <1>12 DEF Granted
    <3>2. outcome' \in [Calls -> Outcomes]
      BY <2>2, <1>1, <1>8, <1>12 DEF Granted, Finish
    <3> QED  BY <3>1, <3>2, <1>3, <1>5, <1>7, ReturnPermitTypes DEF CallTypes, CallShape
  <2> QED  BY <2>1, <2>2
<1>13. CASE Send(c)
  <2>1. CASE ~ReceiverGone
    <3>1. [id |-> reqId[c], call |-> c] \in Requests
      BY <1>5, <1>13 DEF Send, Requests, CallShape
    <3>2. queue' = Append(queue, [id |-> reqId[c], call |-> c])
      BY <2>1, <1>13 DEF Send
    <3>3. queue \in Seq(Requests)
      BY <1>5 DEF CallTypes
    <3>4. Append(queue, [id |-> reqId[c], call |-> c]) \in Seq(Requests)
      <4> DEFINE r == [id |-> reqId[c], call |-> c]
      <4>1. r \in Requests
        BY <3>1
      <4> HIDE DEF r
      <4>2. Append(queue, r) \in Seq(Requests)
        BY <3>3, <4>1, AppendProperties
      <4> QED  BY <4>2 DEF r
    <3>5. queue' \in Seq(Requests)
      BY <3>2, <3>4
    <3> QED  BY <2>1, <3>5, <1>3, <1>5, <1>13 DEF Send, CallPcs, CallTypes, CallShape
  <2>2. CASE ReceiverGone
    <3>1. ReturnPermit([pc EXCEPT ![c] = "done"]) /\ UNCHANGED <<nextId, reqId, queue>>
      BY <2>2, <1>13 DEF Send
    <3>2. outcome' \in [Calls -> Outcomes]
      BY <2>2, <1>1, <1>8, <1>13 DEF Send, Finish
    <3> QED  BY <3>1, <3>2, <1>3, <1>5, <1>7, ReturnPermitTypes DEF CallTypes, CallShape
  <2> QED  BY <2>1, <2>2
<1>14. CASE Resolve(c)
  <2>1. ReturnPermit([pc EXCEPT ![c] = "done"]) /\ UNCHANGED <<nextId, reqId, queue>>
    BY <1>14 DEF Resolve
  <2>2. outcome' \in [Calls -> Outcomes]
    BY <1>1, <1>5, <1>8, <1>14 DEF Resolve, Finish, CallTypes
  <2> QED  BY <2>1, <2>2, <1>3, <1>5, <1>7, ReturnPermitTypes DEF CallTypes, CallShape
<1>15. CASE AbandonWait(c)
  <2>1. ASSUME NEW n \in DOMAIN waiters
        PROVE  SubSeq(waiters, 1, n - 1) \o SubSeq(waiters, n + 1, Len(waiters)) \in Seq(Calls)
    BY SMTT(30), <2>1, <1>5, ConcatProperties, SubSeqProperties, LenProperties DEF CallTypes
  <2>2. waiters' \in Seq(Calls)
    BY <2>1, <1>5, <1>15 DEF AbandonWait, CallTypes
  <2> QED  BY <2>2, <1>3, <1>5, <1>15 DEF AbandonWait, CallPcs, CallTypes, CallShape
<1>16. CASE Abandon(c)
  <2>1. [pc EXCEPT ![c] = "abandoned"] \in [Calls -> CallPcs]
    BY <1>5 DEF CallPcs, CallTypes
  <2>2. /\ ReturnPermit([pc EXCEPT ![c] = "abandoned"])
        /\ UNCHANGED <<nextId, reqId, queue, outcome>>
    BY <1>16 DEF Abandon
  <2> QED  BY <2>1, <2>2, <1>3, <1>5, ReturnPermitTypes DEF CallTypes, CallShape
<1> QED  BY <1>9, <1>10, <1>11, <1>12, <1>13, <1>14, <1>15, <1>16 DEF CallStep

\* fail_all leaves typed results and an empty map.
LEMMA EndSessionTypes ==
    ASSUME Typed, NEW how \in {"Closed", "Failed", "Unusable"},
           NEW tag \in Tags, NEW also, EndSession(how, tag, also)
    PROVE  /\ outcome' \in [Calls -> Outcomes]
           /\ live' \subseteq RequestId
           /\ completions' \in [RequestId -> Calls \cup {NoCall}]
           /\ ending' \in Endings \cap Terminal
           /\ dpc' = "mark"
<1>1. Plain(tag) \in Outcomes
  BY DEF Plain, Outcomes
<1> QED  BY <1>1 DEF EndSession, FailAll, Unclaimed, Endings, Terminal, Typed,
                     TypeOK, CallTypes, DriverTypes

\* A step of the driver keeps everything typed.
LEMMA TypedDriver ==
    ASSUME Typed, DriverStep
    PROVE  Typed'
<1>1. CallTypes /\ CallShape /\ DriverTypes /\ DriverShape /\ CloseTypes /\ PeerTypes
  BY DEF Typed, TypeOK
<1>2. UNCHANGED <<permits, nextId, pc, reqId, closeVars, faults, net, received, executed>>
  BY DEF DriverStep, TakeShutdown, PollOthers, RecvSubmit, RecvClosed,
         FinishWrite, ReadChunk, ReadEnd, DrainFrame, MarkState,
         SealAdmission, ShutTransport, DriverReturn, Abort, driverFrame,
         callVars, peerVars
<1>3. CloseTypes' /\ CallShape'
  BY <1>1, <1>2 DEF CloseTypes, CallShape, closeVars
<1>4. ASSUME state' \in States, waiters' \in Seq(Calls),
             admissionOpen' \in BOOLEAN,
             outcome' \in [Calls -> Outcomes], queue' \in Seq(Requests)
      PROVE  CallTypes'
  BY <1>1, <1>2, <1>4 DEF CallTypes
<1>5. ASSUME wire' \in Seq(Requests), inbound' \in Seq(Frames)
      PROVE  PeerTypes'
  BY <1>1, <1>2, <1>5 DEF PeerTypes
<1>6. ASSUME UNCHANGED <<state, admissionOpen, callVars>>
      PROVE  state' \in States /\ waiters' \in Seq(Calls) /\ admissionOpen' \in BOOLEAN
  BY <1>1, <1>6 DEF CallTypes, callVars
<1> SUFFICES CallTypes' /\ DriverTypes' /\ DriverShape' /\ PeerTypes'
  BY <1>3 DEF Typed, TypeOK
<1>7. "select" \in DriverPcs /\ "return" \in DriverPcs /\ "Idle" \in Endings
  BY DEF DriverPcs, Endings
<1>8. ASSUME NEW b, NEW p, LoopOn(b, p)
      PROVE  dpc' \in DriverPcs \ {"writing", "drain", "mark"} /\ ending' \in Endings
  BY <1>1, <1>7, <1>8 DEF LoopOn, DriverTypes
<1>9. "Closed" \in Tags /\ "Unusable" \in Tags /\ "Transport" \in Tags /\ "ConnectionFatal" \in Tags
  BY DEF Tags
<1>10. "mark" \in DriverPcs
  BY DEF DriverPcs
<1>11. CASE TakeShutdown
  <2>1. EndSession("Closed", "Closed", NoCall)
    BY <1>11 DEF TakeShutdown
  <2>2. /\ UNCHANGED <<state, admissionOpen, callVars, queue, writing, buffer, submitClosed, wire, inbound>>
    BY <1>11 DEF TakeShutdown, driverFrame, sessionVars, peerVars
  <2> QED  BY <2>1, <2>2, <1>1, <1>4, <1>5, <1>6, <1>9, <1>10, EndSessionTypes
           DEF CallTypes, DriverTypes, DriverShape, PeerTypes
<1>12. CASE PollOthers
  <2>1. /\ UNCHANGED <<state, admissionOpen, callVars, outcome, queue, ending, writing, live,
                       completions, buffer, submitClosed, wire, inbound>>
        /\ dpc' = "poll"
    BY <1>12 DEF PollOthers, driverFrame, sessionVars, peerVars
  <2> QED  BY <2>1, <1>1, <1>4, <1>5, <1>6
           DEF CallTypes, DriverTypes, DriverShape, PeerTypes, DriverPcs
<1>13. CASE RecvSubmit
  <2> DEFINE s == Head(queue)
  <2>1. s \in Requests /\ Tail(queue) \in Seq(Requests)
    BY <1>1, <1>13, HeadTailProperties DEF RecvSubmit, CallTypes
  <2>2. /\ UNCHANGED <<state, admissionOpen, callVars, buffer, submitClosed, wire, inbound>>
        /\ queue' = Tail(queue)
    BY <1>13 DEF RecvSubmit, driverFrame, sessionVars, peerVars
  <2>3. s.id \in RequestId /\ s.call \in Calls
    BY SMTT(30), <2>1 DEF Requests
  <2>4. CASE Admissible(live, s.id)
    <3>1. /\ live' = live \cup {s.id}
          /\ completions' = [completions EXCEPT ![s.id] = s.call]
          /\ writing' = s /\ dpc' = "writing" /\ UNCHANGED <<outcome, ending>>
      BY <2>4, <1>13 DEF RecvSubmit
    <3> HIDE DEF s
    <3> QED  BY <3>1, <2>1, <2>2, <2>3, <1>1, <1>4, <1>5, <1>6
             DEF CallTypes, DriverTypes, DriverShape, PeerTypes, DriverPcs
  <2>5. CASE ~Admissible(live, s.id)
    <3>1. EndSession("Unusable", "Unusable", s.call) /\ UNCHANGED writing
      BY <2>5, <1>13 DEF RecvSubmit
    <3> HIDE DEF s
    <3> QED  BY <3>1, <2>1, <2>2, <1>1, <1>4, <1>5, <1>6, <1>9, <1>10, EndSessionTypes
             DEF CallTypes, DriverTypes, DriverShape, PeerTypes
  <2> QED  BY <2>4, <2>5
<1>14. CASE RecvClosed
  <2>1. /\ UNCHANGED <<state, admissionOpen, callVars, outcome, queue, writing, live,
                       completions, buffer, wire, inbound>>
        /\ submitClosed' = TRUE
        /\ LoopOn(TRUE, Pending)
    BY <1>14 DEF RecvClosed, driverFrame, sessionVars, peerVars
  <2> QED  BY <2>1, <1>1, <1>4, <1>5, <1>6, <1>8
           DEF CallTypes, DriverTypes, DriverShape, PeerTypes
<1>15. CASE FinishWrite
  <2>1. /\ UNCHANGED <<state, admissionOpen, callVars, queue, buffer, submitClosed, inbound>>
        /\ writing' = NoRequest
    BY <1>15 DEF FinishWrite, driverFrame, sessionVars
  <2>2. CASE net # "down"
    <3>1. /\ wire' = Append(wire, writing) /\ writing \in Requests
          /\ LoopOn(submitClosed, Pending)
          /\ UNCHANGED <<outcome, live, completions>>
      BY <2>2, <1>1, <1>15 DEF FinishWrite, DriverShape
    <3>2. wire' \in Seq(Requests)
      BY <3>1, <1>1, AppendProperties DEF PeerTypes
    <3> QED  BY <2>1, <3>1, <3>2, <1>1, <1>4, <1>5, <1>6, <1>8
             DEF CallTypes, DriverTypes, DriverShape, PeerTypes
  <2>3. CASE net = "down"
    <3>1. EndSession("Failed", "Transport", NoCall) /\ UNCHANGED wire
      BY <2>3, <1>15 DEF FinishWrite
    <3> QED  BY <2>1, <3>1, <1>1, <1>4, <1>5, <1>6, <1>9, <1>10, EndSessionTypes
             DEF CallTypes, DriverTypes, DriverShape, PeerTypes
  <2> QED  BY <2>2, <2>3
<1>16. CASE ReadChunk
  <2>1. /\ UNCHANGED <<state, admissionOpen, callVars, outcome, queue, ending, writing, live,
                       completions, submitClosed, wire>>
        /\ dpc' = "drain"
    BY <1>16 DEF ReadChunk, driverFrame, sessionVars
  <2>2. PICK n \in 1 .. Len(inbound) :
          /\ buffer' = SubSeq(inbound, 1, n)
          /\ inbound' = SubSeq(inbound, n + 1, Len(inbound))
    BY <1>16 DEF ReadChunk
  <2>3. inbound \in Seq(Frames) /\ Len(inbound) \in Nat
    BY <1>1, LenProperties DEF PeerTypes
  <2>4. buffer' \in Seq(Frames) /\ Len(buffer') = n
    BY SMTT(30), <2>2, <2>3, SubSeqProperties
  <2>5. buffer' # <<>>
    <3>1. n >= 1 /\ Len(<<>>) = 0
      BY <2>2, <2>3
    <3> QED  BY <2>4, <3>1
  <2>6. inbound' \in Seq(Frames)
    BY <2>2, <2>3, SubSeqProperties
  <2> QED  BY <2>1, <2>4, <2>5, <2>6, <1>1, <1>4, <1>5, <1>6
           DEF CallTypes, DriverTypes, DriverShape, PeerTypes, DriverPcs
<1>17. CASE ReadEnd
  <2>1. UNCHANGED <<state, admissionOpen, callVars, queue, writing, buffer, submitClosed,
                    wire, inbound>>
    BY <1>17 DEF ReadEnd, driverFrame, sessionVars, peerVars
  <2>2. CASE Pending = {}
    <3>1. LoopOn(submitClosed, Pending) /\ UNCHANGED <<outcome, live, completions>>
      BY <2>2, <1>17 DEF ReadEnd
    <3> QED  BY <2>1, <3>1, <1>1, <1>4, <1>5, <1>6, <1>8
             DEF CallTypes, DriverTypes, DriverShape, PeerTypes
  <2>3. CASE Pending # {}
    <3>1. EndSession("Failed", "Transport", NoCall)
      BY <2>3, <1>17 DEF ReadEnd
    <3> QED  BY <2>1, <3>1, <1>1, <1>4, <1>5, <1>6, <1>9, <1>10, EndSessionTypes
             DEF CallTypes, DriverTypes, DriverShape, PeerTypes
  <2> QED  BY <2>2, <2>3
<1>18. CASE DrainFrame
  <2> DEFINE f == Head(buffer)
  <2>1. f \in Frames /\ Tail(buffer) \in Seq(Frames) /\ Len(Tail(buffer)) = Len(buffer) - 1
        /\ Len(buffer) \in Nat
    BY <1>1, <1>18, HeadTailProperties, LenProperties DEF DrainFrame, DriverTypes, DriverShape
  <2>2. UNCHANGED <<state, admissionOpen, callVars, queue, writing, submitClosed, wire, inbound>>
    BY <1>18 DEF DrainFrame, driverFrame, sessionVars, peerVars
  <2>3. CASE Dispatches(f)
    <3>1. /\ live' = live \ {f.id}
          /\ completions' = [completions EXCEPT ![f.id] = NoCall]
          /\ outcome' = IF Awaiting(completions[f.id])
                        THEN [outcome EXCEPT ![completions[f.id]] = Delivered(f)]
                        ELSE outcome
          /\ buffer' = Tail(buffer)
          /\ IF Len(buffer) > 1
             THEN UNCHANGED <<dpc, ending>>
             ELSE LoopOn(submitClosed, Pending \ {f.id})
      BY <2>3, <1>18 DEF DrainFrame
    <3>2. f.id \in RequestId /\ completions[f.id] \in Calls
      BY <2>3, <1>1 DEF Dispatches, Pending, DriverTypes
    <3>3. Delivered(f) \in Outcomes
      BY <2>1 DEF Delivered, Outcomes, Tags, Frames
    <3>4. outcome' \in [Calls -> Outcomes]
      BY <3>1, <3>2, <3>3, <1>1 DEF CallTypes
    <3>5. dpc' \in DriverPcs /\ ending' \in Endings
      BY <3>1, <1>1, <1>8 DEF DriverTypes
    <3>6. DriverShape'
      <4>1. CASE Len(buffer) > 1
        <5>1. Tail(buffer) # <<>>
          BY <4>1, <2>1, EmptySeq
        <5>2. dpc' = "drain"
          BY <4>1, <3>1, <1>18 DEF DrainFrame
        <5> QED  BY <3>1, <5>1, <5>2 DEF DriverShape
      <4>2. CASE ~(Len(buffer) > 1)
        BY <4>2, <3>1, <1>8 DEF DriverShape
      <4> QED  BY <4>1, <4>2
    <3> HIDE DEF f
    <3> QED  BY <2>1, <2>2, <3>1, <3>2, <3>4, <3>5, <3>6, <1>1, <1>4, <1>5, <1>6
             DEF CallTypes, DriverTypes, PeerTypes
  <2>4. CASE ~Dispatches(f)
    <3>1. EndSession("Unusable", "ConnectionFatal", NoCall) /\ buffer' = <<>>
      BY <2>4, <1>18 DEF DrainFrame
    <3>2. buffer' \in Seq(Frames)
      BY <3>1, EmptySeq
    <3> QED  BY <2>2, <3>1, <3>2, <1>1, <1>4, <1>5, <1>6, <1>9, <1>10, EndSessionTypes
             DEF CallTypes, DriverTypes, DriverShape, PeerTypes
  <2> QED  BY <2>3, <2>4
<1>19. CASE MarkState
  <2>1. /\ UNCHANGED <<admissionOpen, callVars, outcome, queue, ending, writing, live,
                       completions, buffer, submitClosed, wire, inbound>>
        /\ dpc = "mark" /\ dpc' = "seal" /\ state' = Marked(ending)
    BY <1>19 DEF MarkState, driverFrame, peerVars
  <2>2. state' \in States
    BY <2>1, <1>1 DEF Marked, States, CallTypes, DriverShape
  <2> QED  BY <2>1, <2>2, <1>1, <1>4, <1>5
           DEF CallTypes, DriverTypes, DriverShape, PeerTypes, DriverPcs, callVars
<1>20. CASE SealAdmission
  <2>1. /\ UNCHANGED <<state, outcome, queue, ending, writing, live,
                       completions, buffer, submitClosed, wire, inbound>>
        /\ dpc' \in {"shutting", "return"} /\ admissionOpen' = FALSE /\ waiters' = <<>>
    BY <1>20 DEF SealAdmission, CloseAdmission, peerVars
  <2>2. waiters' \in Seq(Calls)
    BY <2>1, EmptySeq
  <2> QED  BY <2>1, <2>2, <1>1, <1>4, <1>5
           DEF CallTypes, DriverTypes, DriverShape, PeerTypes, DriverPcs
<1>21. CASE ShutTransport
  <2>1. /\ UNCHANGED <<admissionOpen, callVars, outcome, queue, writing, live,
                       completions, buffer, submitClosed, wire, inbound>>
        /\ dpc' = "return" /\ state' \in {state, Marked("Failed")}
        /\ ending' \in {ending, "ShutdownFailed"}
    BY <1>21 DEF ShutTransport, driverFrame, peerVars
  <2>2. state' \in States
    BY <2>1, <1>1 DEF Marked, States, Terminal, CallTypes
  <2> QED  BY <2>1, <2>2, <1>1, <1>4, <1>5
           DEF CallTypes, DriverTypes, DriverShape, PeerTypes, DriverPcs, Endings, callVars
<1>22. CASE DriverReturn
  <2>1. /\ UNCHANGED <<state, admissionOpen, callVars, ending, writing, live,
                       completions, buffer, submitClosed, wire>>
        /\ dpc' = "exited" /\ queue' = <<>> /\ inbound' = <<>>
    BY <1>22 DEF DriverReturn, driverFrame, sessionVars
  <2>2. Plain("lost") \in Outcomes
    BY DEF Plain, Outcomes, Tags
  <2>3. outcome' \in [Calls -> Outcomes]
    BY <2>2, <1>1, <1>22 DEF DriverReturn, CallTypes
  <2>4. queue' \in Seq(Requests) /\ inbound' \in Seq(Frames)
    BY <2>1, EmptySeq
  <2> QED  BY <2>1, <2>3, <2>4, <1>1, <1>4, <1>5, <1>6
           DEF DriverTypes, DriverShape, PeerTypes, DriverPcs
<1>23. CASE Abort
  <2>1. /\ UNCHANGED <<state, admissionOpen, callVars, outcome, ending, buffer,
                       submitClosed, wire>>
        /\ dpc' = "aborted" /\ queue' = <<>> /\ inbound' = <<>>
        /\ live' = {} /\ completions' = Unclaimed /\ writing' = NoRequest
    BY <1>23 DEF Abort, driverFrame, sessionVars
  <2>2. queue' \in Seq(Requests) /\ inbound' \in Seq(Frames)
    BY <2>1, EmptySeq
  <2>3. completions' \in [RequestId -> Calls \cup {NoCall}]
    BY <2>1 DEF Unclaimed
  <2> QED  BY <2>1, <2>2, <2>3, <1>1, <1>4, <1>5, <1>6
           DEF CallTypes, DriverTypes, DriverShape, PeerTypes, DriverPcs
<1> QED  BY <1>11, <1>12, <1>13, <1>14, <1>15, <1>16, <1>17, <1>18, <1>19,
            <1>20, <1>21, <1>22, <1>23 DEF DriverStep

\* A step of a closer, or the drop of the last handle, keeps everything typed.
LEMMA TypedClose ==
    ASSUME Typed,
           \/ \E k \in Closers : CloseStart(k) \/ CloseStep(k) \/ AbandonClose(k)
           \/ DropShared \/ DropShutdownSender
    PROVE  Typed'
<1>1. CallTypes /\ CallShape /\ DriverTypes /\ DriverShape /\ CloseTypes /\ PeerTypes
  BY DEF Typed, TypeOK
<1>2. UNCHANGED <<outcome, queue, permits, nextId, pc, reqId, driverVars, peerVars>>
  BY DEF CloseStart, CloseStep, AbandonClose, BeginClosing, CloseSeal,
         HasDriver, SignalShutdown, TakeHandle, JoinDriver, CloseDriverless,
         DropShared, DropShutdownSender, closeFrame, callVars
<1>3. DriverTypes' /\ DriverShape' /\ PeerTypes' /\ CallShape'
  BY <1>1, <1>2 DEF DriverTypes, DriverShape, PeerTypes, CallShape, driverVars, peerVars
<1>4. state' \in {state, "Closing", "Closed", "Failed"} /\ state' \in States
  BY <1>1 DEF CloseStart, CloseStep, AbandonClose, BeginClosing, CloseSeal,
         HasDriver, SignalShutdown, TakeHandle, JoinDriver, CloseDriverless,
         DropShared, DropShutdownSender, sessionVars, Landed,
         States, Terminal, CallTypes
<1>5. \/ UNCHANGED <<admissionOpen, waiters>>
      \/ admissionOpen' = FALSE /\ waiters' = <<>>
  BY DEF CloseStart, CloseStep, AbandonClose, BeginClosing, CloseSeal,
         HasDriver, SignalShutdown, TakeHandle, JoinDriver, CloseDriverless,
         DropShared, DropShutdownSender, sessionVars, closeFrame, callVars,
         CloseAdmission
<1>6. waiters' \in Seq(Calls) /\ admissionOpen' \in BOOLEAN
  BY <1>1, <1>5, EmptySeq DEF CallTypes
<1>7. CallTypes'
  BY <1>1, <1>2, <1>4, <1>6 DEF CallTypes
<1>8. CloseTypes'
  <2>1. ASSUME NEW k \in Closers, CloseStart(k) \/ CloseStep(k) \/ AbandonClose(k)
        PROVE  CloseTypes'
    BY <2>1, <1>1
       DEF CloseStart, CloseStep, AbandonClose, BeginClosing, CloseSeal,
           HasDriver, SignalShutdown, TakeHandle, JoinDriver, CloseDriverless,
           closeFrame, CloseTypes, CloserPcs
  <2>2. CASE DropShared \/ DropShutdownSender
    BY <2>2, <1>1 DEF DropShared, DropShutdownSender, CloseTypes
  <2> QED  BY <2>1, <2>2
<1> QED  BY <1>3, <1>7, <1>8 DEF Typed, TypeOK

\* A step of the peer or of the link keeps everything typed.
LEMMA TypedPeer ==
    ASSUME Typed, PeerStep \/ NetStep
    PROVE  Typed'
<1>1. CallTypes /\ CallShape /\ DriverTypes /\ DriverShape /\ CloseTypes /\ PeerTypes
  BY DEF Typed, TypeOK
<1>2. UNCHANGED peerFrame
  BY DEF PeerStep, NetStep, PeerRead, PeerAnswer, PeerBadMeta, PeerViolates,
         PeerSends, PeerClose, LinkDown
<1>3. CallTypes' /\ CallShape' /\ DriverTypes' /\ DriverShape' /\ CloseTypes'
  <2>1. CallTypes' /\ CallShape'
    BY <1>1, <1>2 DEF CallTypes, CallShape, peerFrame, sessionVars, callVars
  <2>2. DriverTypes' /\ DriverShape'
    BY <1>1, <1>2 DEF DriverTypes, DriverShape, peerFrame, driverVars
  <2>3. CloseTypes'
    BY <1>1, <1>2 DEF CloseTypes, peerFrame, closeVars
  <2> QED  BY <2>1, <2>2, <2>3
<1>4. ASSUME NEW f \in Frames, NEW b \in BOOLEAN, PeerSends(f, b),
             received' \subseteq received
      PROVE  PeerTypes'
  <2>1. inbound' \in Seq(Frames)
    BY <1>1, <1>4, AppendProperties DEF PeerSends, PeerTypes
  <2>2. faults' \in 0 .. MaxFaults
    BY <1>1, <1>4, LimitsAssumption DEF PeerSends, PeerTypes
  <2> QED  BY <2>1, <2>2, <1>1, <1>4 DEF PeerSends, PeerTypes
<1>5. CASE PeerRead
  <2>1. Head(wire) \in Requests /\ Tail(wire) \in Seq(Requests)
    BY <1>1, <1>5, HeadTailProperties DEF PeerRead, PeerTypes
  <2>2. Head(wire).call \in Calls
    BY <2>1 DEF Requests
  <2> QED  BY <2>1, <2>2, <1>1, <1>3, <1>5 DEF PeerRead, PeerTypes, Typed, TypeOK
<1>6. ASSUME NEW r \in received, NEW kind \in FrameKinds
      PROVE  [kind |-> kind, id |-> r.id, by |-> r.call] \in Frames
  <2>1. r.id \in RequestId /\ r.call \in Calls
    BY <1>1 DEF PeerTypes, Requests
  <2> QED  BY <2>1 DEF Frames, RequestId
<1>7. CASE PeerAnswer
  BY <1>3, <1>4, <1>6, <1>7 DEF PeerAnswer, FrameKinds, Typed, TypeOK
<1>8. CASE PeerBadMeta
  BY <1>3, <1>4, <1>6, <1>8 DEF PeerBadMeta, FrameKinds, Typed, TypeOK
<1>9. CASE PeerViolates
  <2>1. \A kind \in FrameKinds, i \in WireIds :
          [kind |-> kind, id |-> i, by |-> NoCall] \in Frames
    BY DEF Frames
  <2> QED  BY <2>1, <1>3, <1>4, <1>9 DEF PeerViolates, FrameKinds, Typed, TypeOK
<1>10. CASE NetStep
  <2>1. <<>> \in Seq(Requests) /\ <<>> \in Seq(Frames)
    BY EmptySeq
  <2> QED  BY <2>1, <1>1, <1>3, <1>10
           DEF NetStep, PeerClose, LinkDown, PeerTypes, Typed, TypeOK
<1> QED  BY <1>5, <1>7, <1>8, <1>9, <1>10 DEF PeerStep

\* Every step keeps everything typed.
LEMMA TypedNext == Typed /\ [Next]_vars => Typed'
<1> SUFFICES ASSUME Typed, [Next]_vars PROVE Typed'
  OBVIOUS
<1>1. CASE UNCHANGED vars
  <2>1. CallTypes /\ CallShape /\ DriverTypes /\ DriverShape /\ CloseTypes /\ PeerTypes
    BY DEF Typed, TypeOK
  <2>2. CallTypes' /\ CallShape'
    BY <1>1, <2>1 DEF CallTypes, CallShape, vars, callVars
  <2>3. DriverTypes' /\ DriverShape'
    BY <1>1, <2>1 DEF DriverTypes, DriverShape, vars, driverVars
  <2>4. CloseTypes' /\ PeerTypes'
    BY <1>1, <2>1 DEF CloseTypes, PeerTypes, vars, closeVars, peerVars
  <2> QED  BY <2>2, <2>3, <2>4 DEF Typed, TypeOK
<1> QED  BY <1>1, TypedCall, TypedDriver, TypedClose, TypedPeer DEF Next, Terminated

\* Every variable of the session keeps its type in every execution.
THEOREM TypeCorrect == Spec => []TypeOK
<1>1. Typed => TypeOK
  BY DEF Typed
<1> QED  BY <1>1, TypedInit, TypedNext, PTL DEF Spec

=============================================================================
