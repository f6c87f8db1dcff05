--------------------------- MODULE DispatchProofs ---------------------------
(***************************************************************************)
(* Dispatch by identifier, for every number of calls and closers, every    *)
(* bound and every peer.                                                   *)
(***************************************************************************)
EXTENDS LifecycleProofs

LEMMA RegistryNext ==
    ASSUME Typed, RegistryMatches, [Next]_vars
    PROVE  RegistryMatches'
<1>1. CASE UNCHANGED <<live, completions>>
  BY Zenon, <1>1 DEF RegistryMatches, Pending
<1>2. ASSUME NEW how, NEW tag, NEW also, EndSession(how, tag, also)
      PROVE  RegistryMatches'
  BY Zenon, <1>2 DEF EndSession, FailAll, RegistryMatches, Pending, Unclaimed
<1>3. CASE RecvSubmit
  <2>1. Head(queue) \in Requests
    BY Zenon, <1>3, HeadTailProperties DEF RecvSubmit, Typed, TypeOK, CallTypes
  <2>2. Head(queue).id \in RequestId /\ Head(queue).call \in Calls
    BY Zenon, <2>1 DEF Requests
  <2>3. CASE /\ live' = live \cup {Head(queue).id}
             /\ completions' = [completions EXCEPT ![Head(queue).id] = Head(queue).call]
    BY Zenon, <2>2, <2>3, CallsAssumption
       DEF RegistryMatches, Pending, Typed, TypeOK, DriverTypes
  <2> QED  BY Zenon, <1>2, <1>3, <2>3 DEF RecvSubmit
<1>4. CASE DrainFrame
  <2>1. CASE /\ Head(buffer).id \in Pending
             /\ live' = live \ {Head(buffer).id}
             /\ completions' = [completions EXCEPT ![Head(buffer).id] = NoCall]
    BY Zenon, <2>1 DEF RegistryMatches, Pending, Typed, TypeOK, DriverTypes
  <2> QED  BY Zenon, <1>2, <1>4, <2>1 DEF DrainFrame, Dispatches
<1>5. CASE Abort
  BY Zenon, <1>5 DEF Abort, RegistryMatches, Pending, Unclaimed
<1>6. CASE DriverStep
  BY <1>1, <1>2, <1>3, <1>4, <1>5, <1>6
     DEF DriverStep, TakeShutdown, PollOthers, RecvClosed, FinishWrite,
         ReadChunk, ReadEnd, MarkState, SealAdmission, ShutTransport,
         DriverReturn
<1>7. ASSUME ~DriverStep PROVE UNCHANGED <<live, completions>>
  <2>1. ASSUME NEW c \in Calls, Start(c) \/ CallStep(c) \/ AbandonWait(c) \/ Abandon(c)
        PROVE  UNCHANGED <<live, completions>>
    BY Zenon, <2>1 DEF Start, CallStep, Acquire, Woken, Granted, Send, Resolve,
           AbandonWait, Abandon, callFrame, driverVars
  <2>2. ASSUME NEW k \in Closers, CloseStart(k) \/ CloseStep(k) \/ AbandonClose(k)
        PROVE  UNCHANGED <<live, completions>>
    BY Zenon, <2>2 DEF CloseStart, CloseStep, AbandonClose, BeginClosing, CloseSeal,
           HasDriver, SignalShutdown, TakeHandle, JoinDriver,
           CloseDriverless, closeFrame, driverVars
  <2>3. CASE DropShared \/ DropShutdownSender \/ PeerStep \/ NetStep
    BY Zenon, <2>3 DEF DropShared, DropShutdownSender, PeerStep, NetStep, PeerRead,
           PeerAnswer, PeerBadMeta, PeerViolates, PeerSends, PeerClose,
           LinkDown, peerFrame, driverVars
  <2> QED  BY <1>7, <2>1, <2>2, <2>3 DEF Next, Terminated, vars, driverVars
<1> QED  BY Zenon, <1>1, <1>6, <1>7

\* The registry decode consults and the driver's completion senders name the
\* same identifiers (run_driver inserts and retires in both, on every path).
THEOREM RegistryMatchesHolds == Spec => []RegistryMatches
<1>1. Init => RegistryMatches
  BY Zenon DEF Init, RegistryMatches, Pending, Unclaimed
<1> QED  BY <1>1, TypedInit, TypedNext, RegistryNext, PTL DEF Spec

-----------------------------------------------------------------------------
(* Who holds a call. OneHolder and InFlightAccounted are not inductive:    *)
(* they need every entry of the submit channel, and every completion       *)
(* sender, to belong to a call that still waits or was dropped, and no     *)
(* sender to survive the end of the loop.                                  *)

Waits(c) ==
    /\ pc[c] \in {"await", "abandoned"}
    /\ pc[c] = "await" => outcome[c].tag = "none"

Ended == dpc \in {"mark", "seal", "shutting", "return", "exited", "aborted"}

Holders ==
    /\ \A n \in 1 .. Len(queue) :
          /\ queue[n].id = reqId[queue[n].call]
          /\ Waits(queue[n].call)
          /\ \A i \in RequestId : completions[i] # queue[n].call
    /\ \A m, n \in 1 .. Len(queue) : queue[m].call = queue[n].call => m = n
    /\ \A i \in Pending : reqId[completions[i]] = i /\ Waits(completions[i])
    /\ \A c \in Calls : Awaiting(c) =>
          /\ ~ReceiverGone
          /\ \/ \E n \in 1 .. Len(queue) : queue[n].call = c
             \/ completions[reqId[c]] = c
    /\ \A c \in Calls : pc[c] \notin {"await", "done", "abandoned"} => outcome[c].tag = "none"
    /\ Ended => Pending = {}

\* The parts of the invariant, one at a time.
LEMMA QueueHeld ==
    ASSUME Holders
    PROVE  \A n \in 1 .. Len(queue) :
              /\ queue[n].id = reqId[queue[n].call]
              /\ Waits(queue[n].call)
              /\ \A i \in RequestId : completions[i] # queue[n].call
  BY Zenon DEF Holders

LEMMA QueueDistinct ==
    ASSUME Holders
    PROVE  \A m, n \in 1 .. Len(queue) : queue[m].call = queue[n].call => m = n
  BY Zenon DEF Holders

LEMMA PendingHeld ==
    ASSUME Holders
    PROVE  \A i \in Pending : reqId[completions[i]] = i /\ Waits(completions[i])
  BY Zenon DEF Holders

LEMMA AwaitingHeld ==
    ASSUME Holders, NEW c \in Calls, Awaiting(c)
    PROVE  /\ ~ReceiverGone
           /\ \/ \E n \in 1 .. Len(queue) : queue[n].call = c
              \/ completions[reqId[c]] = c
  BY Zenon DEF Holders

LEMMA UnsentUnanswered ==
    ASSUME Holders, NEW c \in Calls, pc[c] \notin {"await", "done", "abandoned"}
    PROVE  outcome[c].tag = "none"
  BY Zenon DEF Holders

LEMMA HoldersInit == Init => Holders
<1> SUFFICES ASSUME Init PROVE Holders
  OBVIOUS
<1>1. Len(queue) = 0 /\ Pending = {} /\ ~Ended
  BY Zenon DEF Init, Pending, Unclaimed, Ended
<1>2. \A c \in Calls : pc[c] = "idle" /\ outcome[c].tag = "none"
  BY Zenon DEF Init, Plain
<1> QED  BY <1>1, <1>2 DEF Holders, Awaiting

\* What the types say of the holders.
LEMMA HolderTypes ==
    ASSUME Typed
    PROVE  /\ pc \in [Calls -> CallPcs] /\ outcome \in [Calls -> Outcomes]
           /\ queue \in Seq(Requests) /\ Len(queue) \in Nat
           /\ \A n \in 1 .. Len(queue) : queue[n].call \in Calls /\ queue[n].id \in RequestId
           /\ completions \in [RequestId -> Calls \cup {NoCall}]
           /\ \A i \in Pending : completions[i] \in Calls
           /\ \A c \in Calls : pc[c] \in {"send", "await"} => reqId[c] \in RequestId
<1>1. queue \in Seq(Requests)
  BY Zenon DEF Typed, TypeOK, CallTypes
<1>2. Len(queue) \in Nat /\ \A n \in 1 .. Len(queue) : queue[n] \in Requests
  BY Zenon, <1>1, LenProperties, ElementOfSeq
<1>3. \A n \in 1 .. Len(queue) : queue[n].call \in Calls /\ queue[n].id \in RequestId
  BY Zenon, <1>2 DEF Requests
<1> QED  BY Zenon, <1>1, <1>2, <1>3
         DEF Typed, TypeOK, CallTypes, DriverTypes, CallShape, Pending

\* A step of calls that keeps every call that is held where it is.
LEMMA HoldersMove ==
    ASSUME Typed, Holders, UNCHANGED <<queue, completions, dpc>>,
           \A d \in Calls : Waits(d) => Waits(d)' /\ reqId'[d] = reqId[d],
           \A d \in Calls : Awaiting(d)' => Awaiting(d),
           \A d \in Calls : pc'[d] \notin {"await", "done", "abandoned"}
                                => outcome'[d].tag = "none"
    PROVE  Holders'
<1>1. \A n \in 1 .. Len(queue) : queue[n].call \in Calls
  BY Zenon, HolderTypes
<1>2. \A i \in Pending : completions[i] \in Calls
  BY Zenon, HolderTypes
<1>3. Pending' = Pending /\ (Ended' <=> Ended) /\ (ReceiverGone' <=> ReceiverGone)
  BY Zenon DEF Pending, Ended, ReceiverGone
<1>4. \A d \in Calls : Awaiting(d) => reqId'[d] = reqId[d]
  BY Zenon DEF Awaiting, Waits
<1>5. \A n \in 1 .. Len(queue') :
         /\ queue'[n].id = reqId'[queue'[n].call]
         /\ Waits(queue[n].call)'
         /\ \A i \in RequestId : completions'[i] # queue'[n].call
  BY <1>1 DEF Holders, Waits
<1>6. \A i \in Pending' : reqId'[completions'[i]] = i /\ Waits(completions[i])'
  BY <1>2, <1>3 DEF Holders, Waits
<1>7. \A d \in Calls : Awaiting(d)' =>
         /\ ~ReceiverGone'
         /\ \/ \E n \in 1 .. Len(queue') : queue'[n].call = d
            \/ completions'[reqId'[d]] = d
  BY Zenon, <1>3, <1>4 DEF Holders
<1>8. \A m, n \in 1 .. Len(queue') : queue'[m].call = queue'[n].call => m = n
  BY Zenon DEF Holders
<1>9. Ended' => Pending' = {}
  BY Zenon, <1>3 DEF Holders
<1> QED  BY Zenon, <1>5, <1>6, <1>7, <1>8, <1>9 DEF Holders, Waits

\* A returned permit moves a waiting call and no other.
LEMMA PermitPasses ==
    ASSUME Typed, AdmissionInv, NEW c \in PermitHolders, NEW p \in CallPcs,
           ReturnPermit([pc EXCEPT ![c] = p])
    PROVE  /\ pc'[c] = p
           /\ \A d \in Calls \ {c} : \/ pc'[d] = pc[d]
                                     \/ pc[d] = "waiting" /\ pc'[d] = "granted"
<1>1. pc \in [Calls -> CallPcs] /\ waiters \in Seq(Calls)
  BY Zenon DEF Typed, TypeOK, CallTypes
<1>2. c \in Calls /\ pc[c] # "waiting"
  BY Zenon DEF PermitHolders
<1>3. CASE waiters = <<>>
  BY Zenon, <1>1, <1>2, <1>3 DEF ReturnPermit
<1>4. CASE waiters # <<>>
  <2>1. Head(waiters) = waiters[1] /\ Head(waiters) \in Calls /\ 1 \in 1 .. Len(waiters)
    BY <1>1, <1>4, HeadTailProperties, LenProperties
  <2>2. pc[Head(waiters)] = "waiting"
    BY Zenon, <2>1 DEF AdmissionInv, Queued
  <2> QED  BY <1>1, <1>2, <1>4, <2>1, <2>2 DEF ReturnPermit
<1> QED  BY Zenon, <1>3, <1>4

LEMMA HoldersCall ==
    ASSUME Typed, AdmissionInv, Holders, NEW c \in Calls,
           Start(c) \/ CallStep(c) \/ AbandonWait(c) \/ Abandon(c)
    PROVE  Holders'
<1>1. /\ pc \in [Calls -> CallPcs] /\ outcome \in [Calls -> Outcomes]
      /\ reqId \in [Calls -> WireIds]
  BY Zenon DEF Typed, TypeOK, CallTypes
<1>2. UNCHANGED <<completions, dpc>>
  BY Zenon DEF Start, CallStep, Acquire, Woken, Granted, Send, Resolve,
         AbandonWait, Abandon, callFrame, driverVars
\* A call that no one holds moves on, and is not waiting for an answer.
<1>3. ASSUME ~Waits(c), pc'[c] # "await", UNCHANGED queue,
             \A d \in Calls \ {c} :
                /\ pc'[d] = pc[d] \/ (pc[d] = "waiting" /\ pc'[d] = "granted")
                /\ outcome'[d] = outcome[d] /\ reqId'[d] = reqId[d],
             pc'[c] \in {"done", "abandoned"} \/ outcome'[c].tag = "none"
      PROVE  Holders'
  <2>1. \A d \in Calls : Waits(d) => Waits(d)' /\ reqId'[d] = reqId[d]
    BY Zenon, <1>3 DEF Waits
  <2>2. \A d \in Calls : Awaiting(d)' => Awaiting(d)
    BY Zenon, <1>3 DEF Awaiting
  <2>3. \A d \in Calls : pc'[d] \notin {"await", "done", "abandoned"} => outcome'[d].tag = "none"
    BY SMTT(30), <1>3 DEF Holders
  <2> QED  BY <1>2, <1>3, <2>1, <2>2, <2>3, HoldersMove
<1>4. pc[c] \notin {"await", "done", "abandoned"} => outcome[c].tag = "none"
  BY Zenon DEF Holders
<1>5. CASE Start(c)
  BY Zenon, <1>1, <1>3, <1>4, <1>5 DEF Start, Finish, Waits
<1>6. CASE Acquire(c)
  BY <1>1, <1>3, <1>4, <1>6 DEF Acquire, Allocate, Finish, Waits
<1>7. CASE Woken(c)
  BY Zenon, <1>1, <1>3, <1>7 DEF Woken, Finish, Waits
<1>8. ASSUME NEW p \in {"done", "abandoned"}, c \in PermitHolders,
             ReturnPermit([pc EXCEPT ![c] = p])
      PROVE  /\ pc'[c] = p
             /\ \A d \in Calls \ {c} : \/ pc'[d] = pc[d]
                                       \/ pc[d] = "waiting" /\ pc'[d] = "granted"
  BY Zenon, <1>8, PermitPasses DEF CallPcs
<1>9. CASE Granted(c)
  <2>1. CASE admissionOpen
    BY <1>1, <1>3, <1>4, <1>9, <2>1 DEF Granted, Allocate, Waits
  <2>2. CASE ~admissionOpen
    <3>1. c \in PermitHolders /\ ~Waits(c) /\ UNCHANGED <<queue, reqId>>
      BY Zenon, <1>9, <2>2 DEF Granted, PermitHolders, Waits
    <3>2. ReturnPermit([pc EXCEPT ![c] = "done"])
      BY Zenon, <1>9, <2>2 DEF Granted
    <3>3. \A d \in Calls \ {c} : outcome'[d] = outcome[d]
      BY <1>1, <1>9, <2>2 DEF Granted, Finish
    <3> QED  BY Zenon, <1>3, <1>8, <3>1, <3>2, <3>3
  <2> QED  BY Zenon, <2>1, <2>2
<1>10. CASE Resolve(c)
  <2>1. c \in PermitHolders /\ ~Waits(c) /\ UNCHANGED <<queue, reqId>>
    BY Zenon, <1>10 DEF Resolve, PermitHolders, Waits
  <2>2. ReturnPermit([pc EXCEPT ![c] = "done"])
    BY Zenon, <1>10 DEF Resolve
  <2>3. \A d \in Calls \ {c} : outcome'[d] = outcome[d]
    BY Zenon, <1>1, <1>10 DEF Resolve, Finish
  <2> QED  BY Zenon, <1>3, <1>8, <2>1, <2>2, <2>3
<1>11. CASE AbandonWait(c)
  BY Zenon, <1>1, <1>3, <1>11 DEF AbandonWait, Waits
<1>12. CASE Abandon(c)
  <2>1. c \in PermitHolders /\ UNCHANGED <<queue, reqId, outcome>>
    BY Zenon, <1>12 DEF Abandon, PermitHolders
  <2>2. /\ pc'[c] = "abandoned"
        /\ \A d \in Calls \ {c} : \/ pc'[d] = pc[d]
                                  \/ pc[d] = "waiting" /\ pc'[d] = "granted"
    BY Zenon, <1>8, <1>12, <2>1 DEF Abandon
  <2>3. \A d \in Calls : Waits(d) => Waits(d)' /\ reqId'[d] = reqId[d]
    BY Zenon, <2>1, <2>2 DEF Waits
  <2>4. \A d \in Calls : Awaiting(d)' => Awaiting(d)
    BY Zenon, <2>1, <2>2 DEF Awaiting
  <2>5. \A d \in Calls : pc'[d] \notin {"await", "done", "abandoned"} => outcome'[d].tag = "none"
    BY Zenon, <2>1, <2>2 DEF Holders
  <2> QED  BY <1>2, <2>1, <2>3, <2>4, <2>5, HoldersMove
<1>13. CASE Send(c)
  <2>1. CASE ReceiverGone
    <3>1. c \in PermitHolders /\ ~Waits(c) /\ UNCHANGED <<queue, reqId>>
      BY Zenon, <1>13, <2>1 DEF Send, PermitHolders, Waits
    <3>2. ReturnPermit([pc EXCEPT ![c] = "done"])
      BY Zenon, <1>13, <2>1 DEF Send
    <3>3. \A d \in Calls \ {c} : outcome'[d] = outcome[d]
      BY Zenon, <1>1, <1>13, <2>1 DEF Send, Finish
    <3> QED  BY Zenon, <1>3, <1>8, <3>1, <3>2, <3>3
  <2>2. CASE ~ReceiverGone
    <3> DEFINE r == [id |-> reqId[c], call |-> c]
    <3>1. /\ pc[c] = "send" /\ queue' = Append(queue, r)
          /\ pc' = [pc EXCEPT ![c] = "await"] /\ UNCHANGED <<outcome, reqId>>
      BY Zenon, <1>13, <2>2 DEF Send
    <3>2. r \in Requests /\ r.id = reqId[c] /\ r.call = c
      BY Zenon, <3>1, HolderTypes DEF Requests
    <3> HIDE DEF r
    <3>3. /\ Len(queue') = Len(queue) + 1 /\ Len(queue) \in Nat
          /\ \A n \in 1 .. Len(queue) : queue'[n] = queue[n]
          /\ queue'[Len(queue) + 1] = r
      BY SMTT(30), <3>1, <3>2, HolderTypes, AppendProperties
    <3>4. \A n \in 1 .. Len(queue') : n \in 1 .. Len(queue) \/ n = Len(queue) + 1
      BY <3>3
    <3>5. ~Waits(c) /\ outcome[c].tag = "none"
      BY Zenon, <1>4, <3>1 DEF Waits
    <3>6. \A n \in 1 .. Len(queue) : queue[n].call # c /\ queue[n].call \in Calls
      BY Zenon, <3>5, HolderTypes, QueueHeld
    <3>7. \A i \in RequestId : completions[i] # c
      BY SMTT(30), <3>5, CallsAssumption, PendingHeld DEF Pending
    <3>8. Pending' = Pending /\ (Ended' <=> Ended) /\ (ReceiverGone' <=> ReceiverGone)
      BY Zenon, <1>2 DEF Pending, Ended, ReceiverGone
    <3>9. ASSUME NEW n \in 1 .. Len(queue')
          PROVE  /\ queue'[n].id = reqId'[queue'[n].call]
                 /\ Waits(queue[n].call)'
                 /\ \A i \in RequestId : completions'[i] # queue'[n].call
      <4>1. CASE n \in 1 .. Len(queue)
        <5>1. queue'[n] = queue[n] /\ queue[n].call # c /\ queue[n].call \in Calls
          BY Zenon, <3>3, <3>6, <4>1
        <5>2. pc'[queue[n].call] = pc[queue[n].call]
          BY Zenon, <1>1, <3>1, <5>1
        <5> QED  BY Zenon, <1>2, <3>1, <4>1, <5>1, <5>2, QueueHeld DEF Waits
      <4>2. CASE n = Len(queue) + 1
        BY Zenon, <1>1, <1>2, <3>1, <3>2, <3>3, <3>5, <3>7, <4>2 DEF Waits
      <4> QED  BY Zenon, <3>4, <4>1, <4>2
    <3>10. \A m, n \in 1 .. Len(queue') : queue'[m].call = queue'[n].call => m = n
      BY SMTT(30), <3>2, <3>3, <3>4, <3>6, QueueDistinct
    <3>11. \A i \in Pending' : reqId'[completions'[i]] = i /\ Waits(completions[i])'
      BY Zenon, <1>1, <1>2, <3>1, <3>7, <3>8, HolderTypes DEF Holders, Waits, Pending
    <3>12. \A d \in Calls : Awaiting(d)' =>
              /\ ~ReceiverGone'
              /\ \/ \E n \in 1 .. Len(queue') : queue'[n].call = d
                 \/ completions'[reqId'[d]] = d
      <4> SUFFICES ASSUME NEW d \in Calls, Awaiting(d)'
                   PROVE  /\ ~ReceiverGone'
                          /\ \/ \E n \in 1 .. Len(queue') : queue'[n].call = d
                             \/ completions'[reqId'[d]] = d
        OBVIOUS
      <4>1. CASE d = c
        <5>1. Len(queue) + 1 \in 1 .. Len(queue')
          BY SMTT(30), <3>3
        <5> QED  BY <2>2, <3>2, <3>3, <3>8, <4>1, <5>1
      <4>2. CASE d # c
        <5>1. Awaiting(d)
          BY Zenon, <1>1, <3>1, <4>2 DEF Awaiting
        <5>2. \A n \in 1 .. Len(queue) : n \in 1 .. Len(queue')
          BY SMTT(30), <3>3
        <5>3. \A n \in 1 .. Len(queue) : queue'[n] = queue[n]
          BY Zenon, <3>3
        <5>4. completions' = completions /\ reqId' = reqId
          BY Zenon, <1>2, <3>1
        <5>5. CASE completions[reqId[d]] = d
          BY Zenon, <3>8, <5>1, <5>4, <5>5, AwaitingHeld
        <5>6. ASSUME NEW n \in 1 .. Len(queue), queue[n].call = d
              PROVE  queue'[n].call = d /\ n \in 1 .. Len(queue')
          BY Zenon, <5>2, <5>3, <5>6
        <5> QED  BY Zenon, <3>8, <5>1, <5>5, <5>6, AwaitingHeld
      <4> QED  BY Zenon, <4>1, <4>2
    <3>13. \A d \in Calls : pc'[d] \notin {"await", "done", "abandoned"} => outcome'[d].tag = "none"
      BY <1>1, <3>1 DEF Holders
    <3>14. Ended' => Pending' = {}
      BY Zenon, <3>8 DEF Holders
    <3> QED  BY Zenon, <3>9, <3>10, <3>11, <3>12, <3>13, <3>14 DEF Holders
  <2> QED  BY <2>1, <2>2
<1> QED  BY Zenon, <1>5, <1>6, <1>7, <1>9, <1>10, <1>11, <1>12, <1>13 DEF CallStep

\* The end of the session resolves every call the driver knows, and the one
\* whose submission it refused; the channel keeps the others.
LEMMA HoldersEnd ==
    ASSUME Typed, Holders, UNCHANGED <<pc, reqId>>,
           NEW how, NEW tag \in Tags \ {"none"}, NEW also, EndSession(how, tag, also),
           ~ReceiverGone,
           \/ also = NoCall /\ queue' = queue
           \/ queue # <<>> /\ also = Head(queue).call /\ queue' = Tail(queue)
    PROVE  Holders'
<1>1. /\ outcome' = [c \in Calls |->
                       IF Awaiting(c) /\ (c = also \/ \E i \in Pending : completions[i] = c)
                       THEN Plain(tag) ELSE outcome[c]]
      /\ completions' = Unclaimed /\ dpc' = "mark"
  BY Zenon DEF EndSession, FailAll
<1>2. Pending' = {} /\ \A i \in RequestId : completions'[i] = NoCall
  BY Zenon, <1>1 DEF Pending, Unclaimed
<1>3. Plain(tag).tag = tag
  BY Zenon DEF Plain
<1>4. \A d \in Calls : Awaiting(d)' =>
         Awaiting(d) /\ d # also /\ \A i \in Pending : completions[i] # d
  BY Zenon, <1>1, <1>3 DEF Awaiting
<1>5. \A d \in Calls : Waits(d) /\ d # also /\ (\A i \in RequestId : completions[i] # d)
         => Waits(d)'
  BY Zenon, <1>1 DEF Waits, Pending
<1>6. \A d \in Calls : pc'[d] \notin {"await", "done", "abandoned"} => outcome'[d].tag = "none"
  BY Zenon, <1>1 DEF Holders, Awaiting
\* Where each entry of the channel was.
<1>7. PICK shift \in {0, 1} :
         /\ Len(queue') = Len(queue) - shift /\ Len(queue) \in Nat
         /\ \A n \in 1 .. Len(queue') :
               n + shift \in 1 .. Len(queue) /\ queue'[n] = queue[n + shift]
         /\ \A n \in 1 .. Len(queue) : n - shift \in 1 .. Len(queue') \/ queue[n].call = also
         /\ \A n \in 1 .. Len(queue') : queue'[n].call # also
  <2>1. CASE also = NoCall /\ queue' = queue
    <3>1. \A n \in 1 .. Len(queue) : queue[n].call # NoCall
      BY Zenon, HolderTypes, CallsAssumption
    <3>2. Len(queue) \in Nat
      BY Zenon, HolderTypes
    <3> QED  BY <2>1, <3>1, <3>2
  <2>2. CASE queue # <<>> /\ also = Head(queue).call /\ queue' = Tail(queue)
    <3>1. /\ Len(queue') = Len(queue) - 1 /\ Len(queue) \in Nat /\ Len(queue) >= 1
          /\ \A n \in 1 .. Len(queue') : queue'[n] = queue[n + 1]
          /\ also = queue[1].call
      BY SMTT(30), <2>2, HolderTypes, HeadTailProperties, LenProperties
    <3>2. \A n \in 1 .. Len(queue) : queue[n].call = queue[1].call => n = 1
      BY SMTT(30), <3>1 DEF Holders
    <3>3. \A n \in 1 .. Len(queue') : n + 1 \in 1 .. Len(queue) /\ n + 1 # 1
      BY <3>1
    <3>4. \A n \in 1 .. Len(queue) : n - 1 \in 1 .. Len(queue') \/ n = 1
      BY <3>1
    <3> QED  BY Zenon, <3>1, <3>2, <3>3, <3>4
  <2> QED  BY Zenon, <2>1, <2>2
<1>8. ASSUME NEW n \in 1 .. Len(queue')
      PROVE  /\ queue'[n].id = reqId'[queue'[n].call]
             /\ Waits(queue[n].call)'
             /\ \A i \in RequestId : completions'[i] # queue'[n].call
  <2>1. /\ n + shift \in 1 .. Len(queue) /\ queue'[n] = queue[n + shift]
        /\ queue'[n].call \in Calls /\ queue'[n].call # also
    BY Zenon, <1>7, HolderTypes
  <2>2. /\ queue'[n].id = reqId[queue'[n].call] /\ Waits(queue[n + shift].call)
        /\ \A i \in RequestId : completions[i] # queue'[n].call
    BY SMTT(30), <2>1 DEF Holders
  <2>3. queue'[n].call # NoCall
    BY Zenon, <2>1, CallsAssumption
  <2> QED  BY <1>2, <1>5, <2>1, <2>2, <2>3 DEF Waits
<1>9. \A m, n \in 1 .. Len(queue') : queue'[m].call = queue'[n].call => m = n
  <2> SUFFICES ASSUME NEW m \in 1 .. Len(queue'), NEW n \in 1 .. Len(queue'),
                      queue'[m].call = queue'[n].call
               PROVE  m = n
    OBVIOUS
  <2>1. /\ m + shift \in 1 .. Len(queue) /\ queue'[m] = queue[m + shift]
        /\ n + shift \in 1 .. Len(queue) /\ queue'[n] = queue[n + shift]
    BY Zenon, <1>7
  <2>2. queue[m + shift].call = queue[n + shift].call
    BY Zenon, <2>1
  <2>3. m + shift = n + shift
    BY Zenon, <2>1, <2>2 DEF Holders
  <2>4. m \in Int /\ n \in Int /\ shift \in Int
    BY <1>7
  <2> QED  BY SMTT(30), <2>3, <2>4
<1>10. ASSUME NEW d \in Calls, Awaiting(d)'
       PROVE  \E n \in 1 .. Len(queue') : queue'[n].call = d
  <2>1. Awaiting(d) /\ d # also /\ \A i \in Pending : completions[i] # d
    BY Zenon, <1>4, <1>10
  <2>2. completions[reqId[d]] # d
    BY Zenon, <2>1, HolderTypes, CallsAssumption DEF Pending, Awaiting
  <2>3. PICK n \in 1 .. Len(queue) : queue[n].call = d
    BY Zenon, <2>1, <2>2 DEF Holders
  <2>4. n - shift \in 1 .. Len(queue') /\ (n - shift) + shift = n
    <3>1. n - shift \in 1 .. Len(queue')
      BY Zenon, <1>7, <2>1, <2>3
    <3>2. n \in Int /\ shift \in Int
      BY <1>7
    <3> QED  BY <3>1, <3>2
  <2>5. queue'[n - shift] = queue[n]
    BY Zenon, <1>7, <2>4
  <2> QED  BY Zenon, <2>3, <2>4, <2>5
<1>11. ~ReceiverGone'
  BY Zenon, <1>1 DEF ReceiverGone
<1> QED  BY <1>2, <1>6, <1>8, <1>9, <1>10, <1>11 DEF Holders

\* The loop goes on, or ends with nothing pending.
LEMMA HoldersLoop ==
    ASSUME Typed, Holders, UNCHANGED <<pc, reqId, outcome, queue, completions>>,
           ~ReceiverGone, ~ReceiverGone', Ended' => Pending = {}
    PROVE  Holders'
<1>1. Pending' = Pending
  BY Zenon DEF Pending
<1>2. \A c \in Calls : (Awaiting(c)' <=> Awaiting(c)) /\ (Waits(c)' <=> Waits(c))
  BY Zenon DEF Awaiting, Waits
<1> QED  BY ZenonT(30), <1>1, <1>2 DEF Holders, Waits

LEMMA HoldersDriver ==
    ASSUME Typed, Holders, RegistryMatches, Lifecycle, DriverStep
    PROVE  Holders'
<1>1. UNCHANGED <<pc, reqId>>
  BY Zenon DEF DriverStep, TakeShutdown, PollOthers, RecvSubmit, RecvClosed,
         FinishWrite, ReadChunk, ReadEnd, DrainFrame, MarkState,
         SealAdmission, ShutTransport, DriverReturn, Abort, driverFrame,
         callVars
<1>2. /\ pc \in [Calls -> CallPcs] /\ outcome \in [Calls -> Outcomes]
      /\ reqId \in [Calls -> WireIds] /\ completions \in [RequestId -> Calls \cup {NoCall}]
  BY Zenon DEF Typed, TypeOK, CallTypes, DriverTypes
<1>3. ASSUME NEW b, NEW p, LoopOn(b, p)
      PROVE  ~ReceiverGone' /\ (Ended' => p = {})
  BY Zenon, <1>3 DEF LoopOn, ReceiverGone, Ended
<1>4. {"Closed", "Unusable", "Transport", "ConnectionFatal"} \subseteq Tags \ {"none"}
  BY Zenon DEF Tags
<1>5. CASE TakeShutdown
  <2>1. EndSession("Closed", "Closed", NoCall) /\ queue' = queue /\ ~ReceiverGone
    BY Zenon, <1>5 DEF TakeShutdown, ReceiverGone
  <2> QED  BY Zenon, <1>1, <1>4, <2>1, HoldersEnd
<1>6. CASE PollOthers \/ ReadChunk
  <2>1. /\ UNCHANGED <<outcome, queue, completions>>
        /\ ~ReceiverGone /\ ~ReceiverGone' /\ ~Ended'
    BY Zenon, <1>6 DEF PollOthers, ReadChunk, ReadTurn, ReceiverGone, Ended
  <2> QED  BY Zenon, <1>1, <2>1, HoldersLoop
<1>7. CASE MarkState \/ SealAdmission \/ ShutTransport
  <2>1. /\ UNCHANGED <<outcome, queue, completions>> /\ ~ReceiverGone /\ Ended /\ ~ReceiverGone'
    BY Zenon, <1>7 DEF MarkState, SealAdmission, ShutTransport, ReceiverGone, Ended
  <2>2. Pending = {}
    BY Zenon, <2>1 DEF Holders
  <2> QED  BY Zenon, <1>1, <2>1, <2>2, HoldersLoop
<1>8. CASE RecvClosed
  <2>1. /\ UNCHANGED <<outcome, queue, completions>> /\ ~ReceiverGone
        /\ LoopOn(TRUE, Pending)
    BY Zenon, <1>8 DEF RecvClosed, ReceiverGone
  <2> QED  BY Zenon, <1>1, <1>3, <2>1, HoldersLoop
<1>9. CASE FinishWrite
  <2>1. UNCHANGED queue /\ ~ReceiverGone
    BY Zenon, <1>9 DEF FinishWrite, ReceiverGone
  <2>2. CASE LoopOn(submitClosed, Pending) /\ UNCHANGED <<outcome, completions>>
    BY <1>1, <1>3, <2>1, <2>2, HoldersLoop
  <2>3. CASE EndSession("Failed", "Transport", NoCall)
    BY <1>1, <1>4, <2>1, <2>3, HoldersEnd
  <2> QED  BY Zenon, <1>9, <2>2, <2>3 DEF FinishWrite
<1>10. CASE ReadEnd
  <2>1. UNCHANGED queue /\ ~ReceiverGone
    BY <1>10 DEF ReadEnd, ReadTurn, ReceiverGone
  <2>2. CASE LoopOn(submitClosed, Pending) /\ UNCHANGED <<outcome, completions>>
    BY Zenon, <1>1, <1>3, <2>1, <2>2, HoldersLoop
  <2>3. CASE EndSession("Failed", "Transport", NoCall)
    BY Zenon, <1>1, <1>4, <2>1, <2>3, HoldersEnd
  <2> QED  BY Zenon, <1>10, <2>2, <2>3 DEF ReadEnd
<1>11. CASE RecvSubmit
  <2> DEFINE s == Head(queue)
  <2>1. queue' = Tail(queue) /\ queue # <<>> /\ ~ReceiverGone
    BY Zenon, <1>11 DEF RecvSubmit, ReceiverGone
  <2>2. CASE EndSession("Unusable", "Unusable", s.call)
    BY <1>1, <1>4, <2>1, <2>2, HoldersEnd
  <2>3. CASE ~EndSession("Unusable", "Unusable", s.call)
    <3>1. /\ Admissible(live, s.id) /\ dpc' = "writing" /\ outcome' = outcome
          /\ completions' = [completions EXCEPT ![s.id] = s.call]
      BY Zenon, <1>11, <2>3 DEF RecvSubmit
    <3>2. /\ s = queue[1] /\ Len(queue) \in Nat /\ Len(queue) >= 1
          /\ Len(queue') = Len(queue) - 1
          /\ \A n \in 1 .. Len(queue') : queue'[n] = queue[n + 1]
          /\ s.call \in Calls /\ s.id \in RequestId
      BY SMTT(30), <2>1, HolderTypes, HeadTailProperties, LenProperties
    <3> HIDE DEF s
    <3>3. completions[s.id] = NoCall
      BY Zenon, <3>1, <3>2 DEF Admissible, RegistryMatches, Pending
    <3>4. s.id = reqId[s.call] /\ Waits(s.call)
      BY SMTT(30), <3>2, QueueHeld
    <3>5. \A i \in RequestId : completions'[i] = IF i = s.id THEN s.call ELSE completions[i]
      BY Zenon, <1>2, <3>1, <3>2
    <3>6. ASSUME NEW n \in 1 .. Len(queue')
          PROVE  n + 1 \in 1 .. Len(queue) /\ queue[n + 1].call # s.call
      <4>1. n + 1 \in 1 .. Len(queue) /\ 1 \in 1 .. Len(queue) /\ n + 1 # 1
        BY SMTT(30), <3>2
      <4> QED  BY Zenon, <3>2, <4>1 DEF Holders
    <3>7. ASSUME NEW n \in 1 .. Len(queue')
          PROVE  /\ queue'[n].id = reqId'[queue'[n].call]
                 /\ Waits(queue[n].call)'
                 /\ \A i \in RequestId : completions'[i] # queue'[n].call
      <4>1. n + 1 \in 1 .. Len(queue) /\ queue[n + 1].call # s.call /\ queue'[n] = queue[n + 1]
        BY Zenon, <3>2, <3>6
      <4> QED  BY SMTT(30), <1>1, <3>1, <3>5, <4>1, QueueHeld DEF Waits
    <3>8. \A m, n \in 1 .. Len(queue') : queue'[m].call = queue'[n].call => m = n
      <4> SUFFICES ASSUME NEW m \in 1 .. Len(queue'), NEW n \in 1 .. Len(queue'),
                          queue'[m].call = queue'[n].call
                   PROVE  m = n
        OBVIOUS
      <4>1. m + 1 = n + 1
        BY SMTT(30), <3>2, <3>6, QueueDistinct
      <4> QED  BY SMTT(30), <3>2, <4>1
    <3>9. \A i \in Pending' : reqId'[completions'[i]] = i /\ Waits(completions[i])'
      <4> SUFFICES ASSUME NEW i \in Pending'
                   PROVE  reqId'[completions'[i]] = i /\ Waits(completions[i])'
        OBVIOUS
      <4>1. \A c : Waits(c)' <=> Waits(c)
        BY Zenon, <1>1, <3>1 DEF Waits
      <4>2. i \in RequestId /\ completions'[i] # NoCall
        BY Zenon DEF Pending
      <4>3. CASE i = s.id
        BY Zenon, <1>1, <3>4, <3>5, <4>1, <4>2, <4>3 DEF Waits
      <4>4. CASE i # s.id
        <5>1. completions'[i] = completions[i] /\ i \in Pending
          BY Zenon, <3>5, <4>2, <4>4 DEF Pending
        <5> QED  BY Zenon, <1>1, <3>1, <5>1, PendingHeld DEF Waits
      <4> QED  BY Zenon, <4>3, <4>4
    <3>10. ASSUME NEW d \in Calls, Awaiting(d)'
           PROVE  \/ \E n \in 1 .. Len(queue') : queue'[n].call = d
                  \/ completions'[reqId'[d]] = d
      <4>1. Awaiting(d) /\ reqId[d] \in RequestId
        BY Zenon, <1>1, <3>1, <3>10, HolderTypes DEF Awaiting
      <4>2. CASE d = s.call
        BY Zenon, <1>1, <3>2, <3>4, <3>5, <4>2
      <4>3. CASE d # s.call /\ completions[reqId[d]] = d
        BY <1>1, <3>3, <3>5, <4>1, <4>3, CallsAssumption
      <4>4. ASSUME NEW n \in 1 .. Len(queue), queue[n].call = d, d # s.call
            PROVE  \E m \in 1 .. Len(queue') : queue'[m].call = d
        <5>1. n # 1 /\ n - 1 \in 1 .. Len(queue') /\ (n - 1) + 1 = n
          BY SMTT(30), <3>2, <4>4
        <5>2. queue'[n - 1] = queue[n]
          BY Zenon, <3>2, <5>1
        <5> QED  BY Zenon, <4>4, <5>1, <5>2
      <4> QED  BY <4>1, <4>2, <4>3, <4>4 DEF Holders
    <3>11. ~ReceiverGone' /\ ~Ended'
      BY Zenon, <3>1 DEF ReceiverGone, Ended
    <3>12. \A d \in Calls : pc'[d] \notin {"await", "done", "abandoned"} => outcome'[d].tag = "none"
      BY Zenon, <1>1, <3>1 DEF Holders
    <3> QED  BY <3>7, <3>8, <3>9, <3>10, <3>11, <3>12 DEF Holders
  <2> QED  BY Zenon, <2>2, <2>3
<1>12. CASE DrainFrame
  <2> DEFINE f == Head(buffer)
             d == completions[f.id]
  <2>1. queue' = queue /\ ~ReceiverGone
    BY Zenon, <1>12 DEF DrainFrame, ReceiverGone
  <2>2. CASE EndSession("Unusable", "ConnectionFatal", NoCall)
    BY <1>1, <1>4, <2>1, <2>2, HoldersEnd
  <2>3. CASE ~EndSession("Unusable", "ConnectionFatal", NoCall)
    <3>1. /\ f.id \in Pending
          /\ completions' = [completions EXCEPT ![f.id] = NoCall]
          /\ outcome' = IF Awaiting(d) THEN [outcome EXCEPT ![d] = Delivered(f)] ELSE outcome
      BY Zenon, <1>12, <2>3 DEF DrainFrame, Dispatches
    <3>2. (dpc' = dpc /\ dpc = "drain") \/ LoopOn(submitClosed, Pending \ {f.id})
      BY Zenon, <1>12, <2>3 DEF DrainFrame
    <3>3. Delivered(f).tag # "none"
      BY Zenon DEF Delivered
    <3> DEFINE i == f.id
    <3>4. i \in RequestId /\ d \in Calls /\ reqId[d] = i /\ Waits(d)
      BY Zenon, <3>1, HolderTypes DEF Holders, Pending
    <3>5. /\ i \in Pending
          /\ completions' = [completions EXCEPT ![i] = NoCall]
          /\ d = completions[i]
      BY Zenon, <3>1
    <3> HIDE DEF f, i, d
    <3>6. Pending' = Pending \ {i} /\ \A j \in Pending' : completions'[j] = completions[j]
      BY <1>2, <3>4, <3>5 DEF Pending
    <3>7. ~ReceiverGone' /\ (Ended' => Pending' = {})
      BY <1>3, <3>2, <3>6 DEF ReceiverGone, Ended, i
    <3>8. \A c \in Calls \ {d} : outcome'[c] = outcome[c]
      BY <1>2, <3>1, <3>4
    <3>9. ~(pc'[d] = "await" /\ outcome'[d].tag = "none")
      BY <1>1, <1>2, <3>1, <3>3, <3>4 DEF Awaiting
    <3>10. \A j \in Pending' : completions'[j] # d
      BY SMTT(30), <3>4, <3>6, PendingHeld
    <3>11. ASSUME NEW n \in 1 .. Len(queue')
           PROVE  /\ queue'[n].id = reqId'[queue'[n].call]
                  /\ Waits(queue[n].call)'
                  /\ \A j \in RequestId : completions'[j] # queue'[n].call
      <4>1. /\ queue'[n] = queue[n] /\ queue[n].call \in Calls /\ n \in 1 .. Len(queue)
        BY Zenon, <2>1, HolderTypes
      <4>2. /\ queue[n].call # d /\ queue[n].call # NoCall
        BY Zenon, <3>4, <3>5, <4>1, CallsAssumption, QueueHeld
      <4>3. \A j \in RequestId : completions'[j] \in {completions[j], NoCall}
        BY Zenon, <1>2, <3>4, <3>5
      <4>4. outcome'[queue[n].call] = outcome[queue[n].call]
        BY Zenon, <3>8, <4>1, <4>2
      <4> QED  BY Zenon, <1>1, <4>1, <4>2, <4>3, <4>4, QueueHeld DEF Waits
    <3>12. \A j \in Pending' : reqId'[completions'[j]] = j /\ Waits(completions[j])'
      BY SMTT(30), <1>1, <3>6, <3>8, <3>10, HolderTypes, PendingHeld DEF Waits
    <3>13. ASSUME NEW c \in Calls, Awaiting(c)'
           PROVE  \/ \E n \in 1 .. Len(queue') : queue'[n].call = c
                  \/ completions'[reqId'[c]] = c
      <4>1. c # d /\ Awaiting(c) /\ reqId[c] \in RequestId
        BY <1>1, <3>8, <3>9, <3>13, HolderTypes DEF Awaiting
      <4>2. completions[reqId[c]] = c => completions'[reqId[c]] = c
        BY <1>2, <3>4, <3>5, <4>1
      <4> QED  BY <1>1, <2>1, <4>1, <4>2 DEF Holders
    <3>14. \A c \in Calls : pc'[c] \notin {"await", "done", "abandoned"} => outcome'[c].tag = "none"
      BY SMTT(30), <1>1, <3>4, <3>8, UnsentUnanswered DEF Waits
    <3>15. \A m, n \in 1 .. Len(queue') : queue'[m].call = queue'[n].call => m = n
      BY Zenon, <2>1 DEF Holders
    <3> QED  BY <3>7, <3>11, <3>12, <3>13, <3>14, <3>15 DEF Holders
  <2> QED  BY Zenon, <2>2, <2>3
<1>13. CASE DriverReturn \/ Abort
  <2>1. Pending' = {}
    BY SMTT(30), <1>13 DEF DriverReturn, Abort, Holders, Ended, Pending, Unclaimed
  <2>2. Len(queue') = 0
    BY SMTT(30), <1>13 DEF DriverReturn, Abort
  <2>3. \A c \in Calls : ~Awaiting(c)'
    <3>1. CASE DriverReturn
      <4>1. ASSUME NEW c \in Calls, Awaiting(c)
            PROVE  \E s \in Elements(queue) : s.call = c
        <5>1. Pending = {} /\ reqId[c] \in RequestId
          BY Zenon, <3>1, <4>1, HolderTypes DEF DriverReturn, Holders, Ended, Awaiting
        <5>2. completions[reqId[c]] # c
          BY Zenon, <5>1, CallsAssumption DEF Pending
        <5>3. PICK n \in 1 .. Len(queue) : queue[n].call = c
          BY Zenon, <4>1, <5>2 DEF Holders
        <5>4. n \in DOMAIN queue
          BY Zenon, <5>3, HolderTypes, LenProperties
        <5> QED  BY Zenon, <5>3, <5>4 DEF Elements
      <4>2. Plain("lost").tag # "none"
        BY Zenon DEF Plain
      <4> QED  BY <1>1, <3>1, <4>1, <4>2 DEF DriverReturn, Awaiting
    <3>2. CASE Abort
      BY Zenon, <1>1, <3>2 DEF Abort, Lifecycle, Quiet, Awaiting
    <3> QED  BY Zenon, <1>13, <3>1, <3>2
  <2>4. \A c \in Calls : pc'[c] \notin {"await", "done", "abandoned"} => outcome'[c].tag = "none"
    BY SMTT(30), <1>1, <1>13, UnsentUnanswered DEF DriverReturn, Abort, Awaiting
  <2>5. \A n \in 1 .. Len(queue') : FALSE
    BY <2>2
  <2> QED  BY Zenon, <2>1, <2>3, <2>4, <2>5 DEF Holders
<1> QED  BY Zenon, <1>5, <1>6, <1>7, <1>8, <1>9, <1>10, <1>11, <1>12, <1>13 DEF DriverStep

LEMMA HoldersNext ==
    ASSUME Typed, AdmissionInv, RegistryMatches, Lifecycle, Holders, [Next]_vars
    PROVE  Holders'
<1>1. CASE UNCHANGED <<queue, outcome, pc, reqId, completions, dpc>>
  <2>1. \A d \in Calls : /\ Waits(d) => Waits(d)' /\ reqId'[d] = reqId[d]
                         /\ Awaiting(d)' => Awaiting(d)
    BY Zenon, <1>1 DEF Waits, Awaiting
  <2>2. \A d \in Calls : pc'[d] \notin {"await", "done", "abandoned"} => outcome'[d].tag = "none"
    BY Zenon, <1>1 DEF Holders
  <2> QED  BY Zenon, <1>1, <2>1, <2>2, HoldersMove
<1>2. ASSUME NEW k \in Closers, CloseStart(k) \/ CloseStep(k) \/ AbandonClose(k)
      PROVE  UNCHANGED <<queue, outcome, pc, reqId, completions, dpc>>
  BY Zenon, <1>2 DEF CloseStart, CloseStep, AbandonClose, BeginClosing, CloseSeal,
         HasDriver, SignalShutdown, TakeHandle, JoinDriver, CloseDriverless,
         closeFrame, callVars, driverVars
<1>3. CASE DropShared \/ DropShutdownSender \/ PeerStep \/ NetStep
  BY Zenon, <1>1, <1>3 DEF DropShared, DropShutdownSender, PeerStep, NetStep,
         PeerRead, PeerAnswer, PeerBadMeta, PeerViolates, PeerSends,
         PeerClose, LinkDown, peerFrame, callVars, driverVars
<1>4. CASE UNCHANGED vars
  BY Zenon, <1>1, <1>4 DEF vars, callVars, driverVars
<1> QED  BY Zenon, <1>1, <1>2, <1>3, <1>4, HoldersCall, HoldersDriver DEF Next, Terminated

DispatchInv == Typed /\ AdmissionInv /\ RegistryMatches /\ Lifecycle /\ Holders

LEMMA DispatchInvariant == Spec => []DispatchInv
<1>1. Init => DispatchInv
  <2>1. Init => RegistryMatches
    BY Zenon DEF Init, RegistryMatches, Pending, Unclaimed
  <2> QED  BY <2>1, TypedInit, AdmissionInit, LifecycleInit, HoldersInit DEF DispatchInv
<1>2. DispatchInv /\ [Next]_vars => DispatchInv'
  BY TypedNext, AdmissionNext, RegistryNext, LifecycleNext, HoldersNext DEF DispatchInv
<1> QED  BY <1>1, <1>2, PTL DEF Spec

\* A call that waits for its completion is known to exactly one holder, the
\* submit channel or the driver's map, under its own identifier (submit,
\* run_driver, drain_frames and fail_all).
THEOREM OneHolderHolds == Spec => []OneHolder
<1>1. DispatchInv => OneHolder
  <2> SUFFICES ASSUME DispatchInv, NEW c \in Calls, Awaiting(c)
               PROVE  /\ ~ReceiverGone
                      /\ \/ /\ \E n \in DOMAIN queue : queue[n] = [id |-> reqId[c], call |-> c]
                            /\ \A i \in Pending : completions[i] # c
                         \/ /\ completions[reqId[c]] = c
                            /\ \A s \in Elements(queue) : s.call # c
    BY Zenon DEF OneHolder
  <2>1. /\ ~ReceiverGone
        /\ \/ \E n \in 1 .. Len(queue) : queue[n].call = c
           \/ completions[reqId[c]] = c
    BY Zenon DEF DispatchInv, Holders
  <2>2. /\ DOMAIN queue = 1 .. Len(queue) /\ reqId[c] \in RequestId
        /\ \A n \in 1 .. Len(queue) : queue[n] \in Requests
    BY Zenon, HolderTypes, LenProperties, ElementOfSeq DEF DispatchInv, Awaiting
  <2>3. ASSUME NEW n \in 1 .. Len(queue), queue[n].call = c
        PROVE  queue[n] = [id |-> reqId[c], call |-> c] /\ \A i \in Pending : completions[i] # c
    BY Zenon, <2>2, <2>3 DEF DispatchInv, Holders, Requests, Pending
  <2>4. CASE completions[reqId[c]] = c
    <3>1. \A n \in 1 .. Len(queue) : queue[n].call # c
      BY Zenon, <2>2, <2>4, QueueHeld DEF DispatchInv
    <3>2. \A i \in Pending : completions[i] = c => i = reqId[c]
      BY Zenon, PendingHeld DEF DispatchInv
    <3> QED  BY SMTT(30), <2>1, <2>2, <2>4, <3>1, <3>2 DEF Elements
  <2> QED  BY <2>1, <2>2, <2>3, <2>4
<1> QED  BY <1>1, DispatchInvariant, PTL

\* Identifiers in flight belong to calls under their permits or to dropped
\* calls, one each (the registry is not bounded by the semaphore alone).
THEOREM InFlightAccountedHolds == Spec => []InFlightAccounted
<1>1. DispatchInv => InFlightAccounted
  <2> SUFFICES ASSUME DispatchInv PROVE InFlightAccounted
    OBVIOUS
  <2> DEFINE held == {i \in Pending : pc[completions[i]] # "abandoned"}
             holder == [i \in held |-> completions[i]]
  <2>1. \A i \in Pending : /\ completions[i] \in Calls /\ reqId[completions[i]] = i
                           /\ \/ Awaiting(completions[i])
                              \/ pc[completions[i]] = "abandoned"
    BY Zenon, HolderTypes DEF DispatchInv, Holders, Waits, Awaiting
  <2>2. holder \in Injection(held, PermitHolders)
    <3>1. \A i \in held : holder[i] \in PermitHolders /\ reqId[holder[i]] = i
      BY Zenon, <2>1 DEF PermitHolders, Awaiting
    <3>2. holder \in [held -> PermitHolders]
      BY Zenon, <3>1
    <3>3. \A i, j \in held : holder[i] = holder[j] => i = j
      BY ZenonT(30), <3>1
    <3> QED  BY Zenon, <3>2, <3>3 DEF Injection, IsInjective
  <2>3. IsFiniteSet(PermitHolders) /\ permits + Cardinality(PermitHolders) = MaxInFlight
    BY Zenon DEF DispatchInv, AdmissionInv, PermitsConserved
  <2> HIDE DEF held, holder
  <2>4. IsFiniteSet(held) /\ Cardinality(held) <= Cardinality(PermitHolders)
    BY Zenon, <2>2, <2>3, FS_Injection
  <2>5. /\ Cardinality(PermitHolders) \in Nat /\ permits \in Nat /\ Cardinality(held) \in Nat
        /\ MaxInFlight \in Nat
    BY Zenon, <2>3, <2>4, FS_CardinalityType, LimitsAssumption
       DEF DispatchInv, Typed, TypeOK, CallTypes
  <2>6. Cardinality(held) <= MaxInFlight
    BY <2>3, <2>4, <2>5
  <2> QED  BY Zenon, <2>1, <2>6 DEF InFlightAccounted, held
<1> QED  BY <1>1, DispatchInvariant, PTL

=============================================================================
