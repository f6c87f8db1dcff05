-------------------------- MODULE LifecycleProofs --------------------------
(***************************************************************************)
(* How a session ends, and its admission semaphore, for every number of    *)
(* calls and closers, every bound and every peer.                          *)
(***************************************************************************)
EXTENDS SessionProofs

(* Lifecycle. EndedBeforeLost is not inductive: it needs to know, for each *)
(* place the driver and the closers can be in on their way to the end,     *)
(* what they have already done, and that the driver ends without marking   *)
(* the state only when no handle is left to see it.                        *)

Quiet == \A c \in Calls : pc[c] \in {"idle", "done", "abandoned"}

Lifecycle ==
    /\ ~admissionOpen => state # "Usable"
    /\ \A k \in Closers : cpc[k] = "seal" => state # "Usable"
    /\ dpc = "seal" => state # "Usable"
    /\ dpc = "shutting" => ~admissionOpen
    /\ dpc \in {"return", "exited"} => (~admissionOpen \/ owner # "alive")
    /\ dpc = "aborted" => owner # "alive"
    /\ submitClosed => owner # "alive"
    /\ owner # "alive" => Quiet
    /\ \A c \in Calls : outcome[c].tag = "lost" => state # "Usable"

LEMMA LifecycleInit == Init => Lifecycle
BY DEF Init, Lifecycle, Quiet, Plain

\* A session that left usable never returns to it, whoever moves it.
LEMMA NeverUsableAgain ==
    ASSUME Typed, [Next]_vars, state # "Usable"
    PROVE  state' # "Usable"
<1>1. CASE UNCHANGED vars
  BY <1>1 DEF vars
<1>2. ASSUME NEW c \in Calls, Start(c) \/ CallStep(c) \/ AbandonWait(c) \/ Abandon(c)
      PROVE  state' = state
  BY <1>2 DEF Start, CallStep, Acquire, Woken, Granted, Send, Resolve,
         AbandonWait, Abandon, callFrame, sessionVars
<1>3. CASE DriverStep
  <2>1. CASE MarkState
    BY <2>1 DEF MarkState, Marked, Typed, DriverShape, Terminal
  <2>2. CASE ShutTransport
    BY <2>2 DEF ShutTransport, Marked
  <2> QED  BY <1>3, <2>1, <2>2
           DEF DriverStep, TakeShutdown, PollOthers, RecvSubmit, RecvClosed,
               FinishWrite, ReadChunk, ReadEnd, DrainFrame, SealAdmission,
               DriverReturn, Abort, sessionVars
<1>4. ASSUME \/ \E k \in Closers : CloseStart(k) \/ CloseStep(k) \/ AbandonClose(k)
             \/ DropShared \/ DropShutdownSender
      PROVE  state' # "Usable"
  BY <1>4 DEF CloseStart, CloseStep, AbandonClose, BeginClosing, CloseSeal,
         HasDriver, SignalShutdown, TakeHandle, JoinDriver, CloseDriverless,
         DropShared, DropShutdownSender, sessionVars, Landed
<1>5. CASE PeerStep \/ NetStep
  BY <1>5 DEF PeerStep, NetStep, PeerRead, PeerAnswer, PeerBadMeta,
         PeerViolates, PeerSends, PeerClose, LinkDown, peerFrame, sessionVars
<1> QED  BY <1>1, <1>2, <1>3, <1>4, <1>5 DEF Next, Terminated, vars

LEMMA LifecycleNext ==
    ASSUME Typed, Lifecycle, [Next]_vars
    PROVE  Lifecycle'
<1>1. state # "Usable" => state' # "Usable"
  BY NeverUsableAgain
<1>2. CASE UNCHANGED vars
  BY <1>2 DEF vars, callVars, driverVars, closeVars, Lifecycle, Quiet
<1>3. ASSUME NEW c \in Calls, Start(c) \/ CallStep(c) \/ AbandonWait(c) \/ Abandon(c)
      PROVE  Lifecycle'
  <2>1. owner = "alive"
    BY <1>3 DEF Lifecycle, Quiet, Start, CallStep, Acquire, Woken, Granted,
                Send, Resolve, AbandonWait, Abandon
  <2>2. UNCHANGED <<state, admissionOpen, dpc, submitClosed, cpc, owner>>
    BY <1>3 DEF Start, CallStep, Acquire, Woken, Granted, Send, Resolve,
                AbandonWait, Abandon, callFrame, sessionVars, driverVars, closeVars
  <2>3. \A d \in Calls : outcome'[d].tag = "lost" => outcome[d].tag = "lost"
    <3>1. \A t : Plain(t).tag = t
      BY DEF Plain
    <3>2. \A x : StateError(x) # "lost"
      BY DEF StateError
    <3>3. outcome \in [Calls -> Outcomes]
      BY DEF Typed, TypeOK, CallTypes
    <3>4. ASSUME NEW o, o.tag # "lost", Finish(c, o)
          PROVE  \A d \in Calls : outcome'[d].tag = "lost" => outcome[d].tag = "lost"
      BY <3>3, <3>4 DEF Finish
    <3>5. CASE Resolve(c)
      BY <3>5, <3>1, <3>2, <3>3, <3>4 DEF Resolve
    <3>6. CASE Start(c)
      BY <3>6, <3>1, <3>2, <3>4 DEF Start
    <3>7. CASE Acquire(c)
      BY <3>7, <3>1, <3>2, <3>4 DEF Acquire
    <3>8. CASE Woken(c)
      BY <3>8, <3>1, <3>2, <3>4 DEF Woken
    <3>9. CASE Granted(c)
      BY <3>9, <3>1, <3>2, <3>4 DEF Granted
    <3>10. CASE Send(c)
      BY <3>10, <3>1, <3>2, <3>4 DEF Send
    <3>11. CASE AbandonWait(c) \/ Abandon(c)
      BY <3>11 DEF AbandonWait, Abandon
    <3> QED  BY <1>3, <3>5, <3>6, <3>7, <3>8, <3>9, <3>10, <3>11 DEF CallStep
  <2> QED  BY <2>1, <2>2, <2>3 DEF Lifecycle
<1>4. CASE DriverStep
  <2>1. UNCHANGED <<pc, cpc, owner>>
    BY <1>4 DEF DriverStep, TakeShutdown, PollOthers, RecvSubmit, RecvClosed,
           FinishWrite, ReadChunk, ReadEnd, DrainFrame, MarkState,
           SealAdmission, ShutTransport, DriverReturn, Abort, driverFrame,
           callVars, closeVars
  <2>2. \A t : Plain(t).tag = t
    BY DEF Plain
  <2>3. ASSUME NEW how, NEW tag \in {"Closed", "Unusable", "Transport", "ConnectionFatal"},
               NEW also, EndSession(how, tag, also)
        PROVE  /\ dpc' = "mark"
               /\ \A c \in Calls : outcome'[c].tag = "lost" => outcome[c].tag = "lost"
    BY <2>2, <2>3 DEF EndSession, FailAll
  <2>4. ASSUME NEW b, NEW p, LoopOn(b, p)
        PROVE  dpc' = "select" \/ (dpc' = "return" /\ b)
    BY <2>4 DEF LoopOn
  <2>5. CASE TakeShutdown
    BY <2>1, <2>3, <2>5, <1>1 DEF TakeShutdown, Lifecycle, Quiet, sessionVars
  <2>6. CASE PollOthers
    BY <2>1, <2>6, <1>1 DEF PollOthers, Lifecycle, Quiet, sessionVars
  <2>7. CASE RecvSubmit
    BY <2>1, <2>3, <2>7, <1>1 DEF RecvSubmit, Lifecycle, Quiet, sessionVars
  <2>8. CASE RecvClosed
    BY <2>1, <2>4, <2>8, <1>1 DEF RecvClosed, Lifecycle, Quiet, sessionVars
  <2>9. CASE FinishWrite
    BY <2>1, <2>3, <2>4, <2>9, <1>1 DEF FinishWrite, Lifecycle, Quiet, sessionVars
  <2>10. CASE ReadChunk
    BY <2>1, <2>10, <1>1 DEF ReadChunk, Lifecycle, Quiet, sessionVars
  <2>11. CASE ReadEnd
    BY <2>1, <2>3, <2>4, <2>11, <1>1 DEF ReadEnd, Lifecycle, Quiet, sessionVars
  <2>12. CASE DrainFrame
    <3>1. \A f : Delivered(f).tag # "lost"
      BY DEF Delivered
    <3>2. \A c \in Calls : outcome'[c].tag = "lost" => outcome[c].tag = "lost"
      <4>1. outcome \in [Calls -> Outcomes]
        BY DEF Typed, TypeOK, CallTypes
      <4>2. \A d, f : [outcome EXCEPT ![d] = Delivered(f)]
                     = [c \in Calls |-> IF c = d THEN Delivered(f) ELSE outcome[c]]
        BY <4>1
      <4>3. CASE EndSession("Unusable", "ConnectionFatal", NoCall)
        BY <2>3, <4>3
      <4>4. CASE \E d, f : outcome' = outcome \/ outcome' = [outcome EXCEPT ![d] = Delivered(f)]
        BY <3>1, <4>2, <4>4
      <4> QED  BY <2>12, <4>3, <4>4 DEF DrainFrame
    <3>3. dpc' \in {"drain", "select", "mark"} \/ (dpc' = "return" /\ submitClosed)
      <4>1. CASE EndSession("Unusable", "ConnectionFatal", NoCall)
        BY <2>3, <4>1
      <4>2. CASE Dispatches(Head(buffer))
        <5>1. dpc = "drain" /\ (dpc' = dpc \/ LoopOn(submitClosed, Pending \ {Head(buffer).id}))
          BY <2>12, <4>2 DEF DrainFrame
        <5> QED  BY <2>4, <5>1
      <4> QED  BY <2>12, <4>1, <4>2 DEF DrainFrame
    <3>4. UNCHANGED <<state, admissionOpen, submitClosed>>
      BY <2>12 DEF DrainFrame, sessionVars
    <3> QED  BY <2>1, <3>2, <3>3, <3>4, <1>1 DEF Lifecycle, Quiet
  <2>13. CASE MarkState
    BY <2>1, <2>13, <1>1
       DEF MarkState, Marked, Lifecycle, Quiet, Typed, DriverShape, Terminal
  <2>14. CASE SealAdmission
    BY <2>1, <2>14, <1>1 DEF SealAdmission, CloseAdmission, Lifecycle, Quiet
  <2>15. CASE ShutTransport
    BY <2>1, <2>15, <1>1 DEF ShutTransport, Lifecycle, Quiet
  <2>16. CASE DriverReturn
    <3>1. ASSUME NEW c \in Calls, outcome'[c].tag = "lost"
          PROVE  state # "Usable"
      <4>1. outcome[c].tag = "lost" \/ Awaiting(c)
        BY <2>16, <3>1 DEF DriverReturn
      <4>2. CASE Awaiting(c)
        BY <2>16, <4>2 DEF DriverReturn, Awaiting, Lifecycle, Quiet
      <4> QED  BY <4>1, <4>2 DEF Lifecycle
    <3>2. UNCHANGED <<state, admissionOpen, submitClosed>> /\ dpc = "return" /\ dpc' = "exited"
      BY <2>16 DEF DriverReturn, sessionVars
    <3> QED  BY <2>1, <3>1, <3>2 DEF Lifecycle, Quiet
  <2>17. CASE Abort
    BY <2>1, <2>17, <1>1 DEF Abort, Lifecycle, Quiet, sessionVars
  <2> QED  BY <1>4, <2>5, <2>6, <2>7, <2>8, <2>9, <2>10, <2>11, <2>12, <2>13,
              <2>14, <2>15, <2>16, <2>17 DEF DriverStep
<1>5. ASSUME NEW k \in Closers, CloseStart(k) \/ CloseStep(k) \/ AbandonClose(k)
      PROVE  Lifecycle'
  <2>1. UNCHANGED <<pc, outcome, dpc, submitClosed, owner>>
    BY <1>5 DEF CloseStart, CloseStep, AbandonClose, BeginClosing, CloseSeal,
         HasDriver, SignalShutdown, TakeHandle, JoinDriver, CloseDriverless,
         closeFrame, callVars, driverVars
  <2>2. cpc \in [Closers -> CloserPcs]
    BY DEF Typed, TypeOK, CloseTypes
  <2>3. admissionOpen' = admissionOpen \/ (admissionOpen' = FALSE /\ cpc[k] = "seal")
    BY <1>5 DEF CloseStart, CloseStep, AbandonClose, BeginClosing, CloseSeal,
         HasDriver, SignalShutdown, TakeHandle, JoinDriver, CloseDriverless,
         CloseAdmission, sessionVars
  <2>4. \A j \in Closers : cpc'[j] = "seal" => (cpc[j] = "seal" \/ state' # "Usable")
    BY <1>5, <2>2 DEF CloseStart, CloseStep, AbandonClose, BeginClosing, CloseSeal,
         HasDriver, SignalShutdown, TakeHandle, JoinDriver, CloseDriverless
  <2> QED  BY SMTT(30), <2>1, <2>3, <2>4, <1>1 DEF Lifecycle, Quiet
<1>6. CASE DropShared \/ DropShutdownSender
  <2>1. /\ UNCHANGED <<state, admissionOpen, pc, outcome, dpc, submitClosed, cpc>>
        /\ owner' # "alive"
    BY <1>6 DEF DropShared, DropShutdownSender, sessionVars, callVars, driverVars
  <2>2. Quiet
    BY <1>6 DEF DropShared, DropShutdownSender, Lifecycle, Quiet
  <2> QED  BY <2>1, <2>2 DEF Lifecycle, Quiet
<1>7. CASE PeerStep \/ NetStep
  <2>1. UNCHANGED peerFrame
    BY <1>7 DEF PeerStep, NetStep, PeerRead, PeerAnswer, PeerBadMeta,
           PeerViolates, PeerSends, PeerClose, LinkDown
  <2> QED  BY <2>1 DEF peerFrame, sessionVars, callVars, driverVars, closeVars, Lifecycle, Quiet
<1> QED  BY <1>2, <1>3, <1>4, <1>5, <1>6, <1>7 DEF Next, Terminated

\* Admission and the submit channel outlive the usable state, so a refused
\* or lost call is never explained by a usable session (completion_lost,
\* acquire_permit and the order of run_driver's ending).
THEOREM EndedBeforeLostHolds == Spec => []EndedBeforeLost
<1>1. Lifecycle => EndedBeforeLost
  BY DEF Lifecycle, EndedBeforeLost, ReceiverGone
<1>2. Typed /\ Lifecycle /\ [Next]_vars => Typed' /\ Lifecycle'
  BY TypedNext, LifecycleNext
<1>3. Init => Typed /\ Lifecycle
  BY TypedInit, LifecycleInit
<1> QED  BY <1>1, <1>2, <1>3, PTL DEF Spec

\* mark_state and finish_close keep the first outcome: only a close that had
\* already passed its terminal test replaces a terminal state.
THEOREM FirstOutcomeKeptHolds == Spec => FirstOutcomeKept
<1> DEFINE Kept ==
      /\ state # "Usable" => state' # "Usable"
      /\ (state \in Terminal /\ state' # state) =>
             \E k \in Closers : BeginClosing(k) \/ CloseDriverless(k)
<1>1. ASSUME Typed, [Next]_vars
      PROVE  Kept
  <2>1. state # "Usable" => state' # "Usable"
    BY <1>1, NeverUsableAgain
  <2>2. ASSUME state \in Terminal, state' # state
        PROVE  \E k \in Closers : BeginClosing(k) \/ CloseDriverless(k)
    <3>1. CASE DriverStep
      BY <2>2, <3>1 DEF DriverStep, TakeShutdown, PollOthers, RecvSubmit,
             RecvClosed, FinishWrite, ReadChunk, ReadEnd, DrainFrame,
             MarkState, SealAdmission, ShutTransport, DriverReturn, Abort,
             sessionVars, Marked, Terminal
    <3>2. ASSUME NEW c \in Calls, Start(c) \/ CallStep(c) \/ AbandonWait(c) \/ Abandon(c)
          PROVE  FALSE
      BY <2>2, <3>2 DEF Start, CallStep, Acquire, Woken, Granted, Send,
             Resolve, AbandonWait, Abandon, callFrame, sessionVars
    <3>3. ASSUME NEW k \in Closers, CloseStart(k) \/ CloseStep(k) \/ AbandonClose(k)
          PROVE  BeginClosing(k) \/ CloseDriverless(k)
      BY <2>2, <3>3 DEF CloseStart, CloseStep, AbandonClose, CloseSeal,
             HasDriver, SignalShutdown, TakeHandle, JoinDriver, Landed,
             sessionVars, Terminal
    <3>4. CASE DropShared \/ DropShutdownSender \/ PeerStep \/ NetStep
      BY <2>2, <3>4 DEF DropShared, DropShutdownSender, PeerStep, NetStep,
             PeerRead, PeerAnswer, PeerBadMeta, PeerViolates, PeerSends,
             PeerClose, LinkDown, peerFrame, sessionVars
    <3> QED  BY <1>1, <2>2, <3>1, <3>2, <3>3, <3>4 DEF Next, Terminated, vars
  <2> QED  BY <2>1, <2>2
<1>2. Spec => []Typed
  BY TypedInit, TypedNext, PTL DEF Spec
<1>3. Typed /\ [Next]_vars => [Kept]_vars
  BY <1>1
<1> QED  BY <1>2, <1>3, PTL DEF Spec, FirstOutcomeKept, Kept

-----------------------------------------------------------------------------
(* The end of the driver is reported to whoever took its handle. The       *)
(* strengthening follows the handle: one closer takes it, keeps it until   *)
(* the driver has exited, and what that exit was does not change after.    *)

Broken == dpc = "exited" /\ ending \in {"Failed", "ShutdownFailed"}
Left(k) == cpc[k] \in {"join", "abandoned"}
Taker(k) == Left(k) \/ closed[k] = "Err"

ReportInv ==
    /\ handle = "held" => \A k \in Closers : ~Taker(k)
    /\ \A j, k \in Closers : Taker(j) /\ Taker(k) => j = k
    /\ \A k \in Closers : closed[k] # "none" => cpc[k] = "done"
    /\ \A k \in Closers : closed[k] = "Err" => Broken
    /\ handle = "taken" /\ dpc # "exited" => \E k \in Closers : Left(k)
    /\ handle = "taken" /\ Broken => \E k \in Closers : Taker(k)

LEMMA ReportInit == Init => ReportInv
BY DEF Init, ReportInv, Taker, Left, Broken

LEMMA ReportNext ==
    ASSUME Typed, ReportInv, [Next]_vars
    PROVE  ReportInv'
<1> USE DEF ReportInv, Taker, Left, Broken
<1>1. CASE UNCHANGED <<handle, cpc, closed, dpc, ending>>
  BY <1>1
<1>2. ASSUME UNCHANGED <<handle, cpc, closed>>, dpc # "exited"
      PROVE  ReportInv'
  BY <1>2 DEF Typed, TypeOK, CloseTypes
<1>3. CASE DriverStep
  <2>1. UNCHANGED <<handle, cpc, closed>>
    BY <1>3 DEF DriverStep, TakeShutdown, PollOthers, RecvSubmit, RecvClosed,
           FinishWrite, ReadChunk, ReadEnd, DrainFrame, MarkState,
           SealAdmission, ShutTransport, DriverReturn, Abort, driverFrame, closeVars
  <2>2. dpc # "exited"
    BY <1>3 DEF DriverStep, TakeShutdown, PollOthers, RecvSubmit, RecvClosed,
           FinishWrite, ReadChunk, ReadTurn, ReadEnd, DrainFrame, MarkState,
           SealAdmission, ShutTransport, DriverReturn, Abort
  <2> QED  BY <1>2, <2>1, <2>2
<1>4. ASSUME NEW c \in Calls, Start(c) \/ CallStep(c) \/ AbandonWait(c) \/ Abandon(c)
      PROVE  UNCHANGED <<handle, cpc, closed, dpc, ending>>
  BY <1>4 DEF Start, CallStep, Acquire, Woken, Granted, Send, Resolve,
         AbandonWait, Abandon, callFrame, driverVars, closeVars
<1>5. ASSUME NEW k \in Closers, CloseStart(k) \/ CloseStep(k) \/ AbandonClose(k)
      PROVE  ReportInv'
  <2>1. /\ cpc \in [Closers -> CloserPcs] /\ closed \in [Closers -> {"none", "Ok", "Err"}]
        /\ handle \in {"held", "taken"}
    BY DEF Typed, TypeOK, CloseTypes
  <2>2. UNCHANGED <<dpc, ending>>
    BY <1>5 DEF CloseStart, CloseStep, AbandonClose, BeginClosing, CloseSeal,
           HasDriver, SignalShutdown, TakeHandle, JoinDriver, CloseDriverless,
           closeFrame, driverVars
  \* A closer on its way to the handle, or past it.
  <2>3. ASSUME NEW p \in CloserPcs \ {"join", "abandoned"},
               NEW r \in {"none", "Ok"}, ~Left(k), closed[k] = "none",
               r # "none" => p = "done", UNCHANGED handle,
               cpc' = [cpc EXCEPT ![k] = p], closed' = [closed EXCEPT ![k] = r]
        PROVE  ReportInv'
    BY ZenonT(30), <2>1, <2>2, <2>3
  <2>4. cpc[k] # "done" => closed[k] = "none" /\ closed = [closed EXCEPT ![k] = "none"]
    BY <2>1
  <2>5. CASE CloseStart(k)
    BY ZenonT(30), <2>1, <2>3, <2>4, <2>5 DEF CloseStart, CloserPcs
  <2>6. CASE BeginClosing(k)
    BY <2>1, <2>3, <2>4, <2>6 DEF BeginClosing, CloserPcs
  <2>7. CASE CloseSeal(k)
    BY <2>1, <2>3, <2>4, <2>7 DEF CloseSeal, CloserPcs
  <2>8. CASE HasDriver(k)
    BY <2>1, <2>3, <2>4, <2>8 DEF HasDriver, CloserPcs
  <2>9. CASE SignalShutdown(k)
    BY <2>1, <2>3, <2>4, <2>9 DEF SignalShutdown, CloserPcs
  <2>10. CASE CloseDriverless(k)
    BY <2>1, <2>3, <2>4, <2>10 DEF CloseDriverless, CloserPcs
  <2>11. CASE TakeHandle(k)
    <3>1. CASE handle = "held"
      <4>1. /\ cpc' = [cpc EXCEPT ![k] = "join"] /\ closed' = closed /\ handle' = "taken"
            /\ dpc' = dpc /\ ending' = ending /\ cpc[k] = "take"
        BY Zenon, <2>2, <2>11, <3>1 DEF TakeHandle
      <4>2. cpc'[k] = "join" /\ \A j \in Closers : j # k => cpc'[j] = cpc[j]
        BY Zenon, <2>1, <4>1
      <4>3. /\ closed[k] = "none"
            /\ \A j \in Closers : cpc[j] \notin {"join", "abandoned"} /\ closed[j] # "Err"
        BY Zenon, <2>4, <3>1, <4>1
      <4>4. \A j \in Closers : cpc'[j] \in {"join", "abandoned"} => j = k
        BY Zenon, <4>2, <4>3
      <4>5. \A j \in Closers : closed'[j] # "none" => cpc'[j] = "done"
        BY Zenon, <4>1, <4>2, <4>3
      <4> QED  BY Zenon, <4>1, <4>2, <4>3, <4>4, <4>5
    <3>2. CASE handle = "taken"
      BY <2>1, <2>3, <2>4, <2>11, <3>2 DEF TakeHandle, CloserPcs
    <3> QED  BY <2>1, <3>1, <3>2
  <2>12. CASE JoinDriver(k)
    <3>1. /\ cpc[k] = "join" /\ dpc = "exited" /\ UNCHANGED handle
          /\ cpc' = [cpc EXCEPT ![k] = "done"]
          /\ closed' = [closed EXCEPT ![k] = IF Broken THEN "Err" ELSE "Ok"]
      BY <2>12 DEF JoinDriver
    <3>2. dpc' = dpc /\ ending' = ending /\ cpc'[k] = "done"
      BY Zenon, <2>1, <2>2, <3>1
    <3>3. \A j \in Closers : j # k => cpc'[j] = cpc[j] /\ closed'[j] = closed[j]
      BY Zenon, <2>1, <3>1
    <3>4. closed'[k] = IF Broken THEN "Err" ELSE "Ok"
      BY Zenon, <2>1, <3>1
    <3>5. \A j \in Closers : Taker(j)' => Taker(j)
      BY Zenon, <3>1, <3>2, <3>3
    <3>6. Broken => Taker(k)'
      BY Zenon, <3>4
    <3>7. handle' = "held" => \A j \in Closers : ~Taker(j)'
      BY Zenon, <3>1, <3>5
    <3>8. /\ \A j, l \in Closers : Taker(j)' /\ Taker(l)' => j = l
          /\ \A j \in Closers : closed'[j] # "none" => cpc'[j] = "done"
      BY Zenon, <3>2, <3>3, <3>5
    <3>9. \A j \in Closers : closed'[j] = "Err" => Broken'
      BY Zenon, <3>2, <3>3, <3>4
    <3>10. handle' = "taken" /\ Broken' => \E j \in Closers : Taker(j)'
      BY Zenon, <3>2, <3>6
    <3> QED  BY Zenon, <3>1, <3>2, <3>7, <3>8, <3>9, <3>10
  <2>13. CASE AbandonClose(k)
    BY SMTT(30), <2>1, <2>2, <2>13 DEF AbandonClose
  <2> QED  BY <1>5, <2>5, <2>6, <2>7, <2>8, <2>9, <2>10, <2>11, <2>12, <2>13
           DEF CloseStep
<1>6. CASE DropShared \/ DropShutdownSender \/ PeerStep \/ NetStep
  BY <1>1, <1>6 DEF DropShared, DropShutdownSender, PeerStep, NetStep, PeerRead,
         PeerAnswer, PeerBadMeta, PeerViolates, PeerSends, PeerClose, LinkDown,
         peerFrame, driverVars, closeVars
<1>7. CASE UNCHANGED vars
  BY <1>1, <1>7 DEF vars, driverVars, closeVars
<1> QED  BY <1>1, <1>3, <1>4, <1>5, <1>6, <1>7 DEF Next, Terminated

\* A transport that failed, or failed to shut down after the session was
\* marked closed, is reported by exactly one close, the one that took the
\* driver's handle (close_with_driver), unless its future was dropped.
THEOREM FailureReportedHolds == Spec => []FailureReported
<1>1. Typed /\ ReportInv => FailureReported
  <2> SUFFICES ASSUME Typed, ReportInv PROVE FailureReported
    OBVIOUS
  <2> DEFINE reported == {k \in Closers : closed[k] = "Err"}
  <2>1. Cardinality(reported) <= 1
    <3>1. CASE reported = {}
      BY <3>1, FS_EmptySet
    <3>2. CASE reported # {}
      <4>1. PICK k \in Closers : reported = {k}
        BY <3>2 DEF ReportInv, Taker
      <4>2. Cardinality({k}) = 1
        BY FS_Singleton
      <4> HIDE DEF reported
      <4> QED  BY <4>1, <4>2
    <3> QED  BY <3>1, <3>2
  <2> QED  BY <2>1 DEF FailureReported, ReportInv, Taker, Left, Broken
<1> QED  BY <1>1, TypedInit, TypedNext, ReportInit, ReportNext, PTL DEF Spec

-----------------------------------------------------------------------------
(* Admission *)

(* PermitsConserved is not inductive: a returned permit goes to the call   *)
(* at the head of the queue, which must hold none yet, so the queue must   *)
(* consist of distinct waiting calls, and of none once it is closed.       *)

Queued ==
    /\ \A n \in 1 .. Len(waiters) : pc[waiters[n]] = "waiting"
    /\ \A m, n \in 1 .. Len(waiters) : waiters[m] = waiters[n] => m = n

AdmissionInv ==
    /\ IsFiniteSet(PermitHolders)
    /\ PermitsConserved
    /\ Queued
    /\ ~admissionOpen => waiters = <<>>

LEMMA AdmissionInit == Init => AdmissionInv
<1> SUFFICES ASSUME Init PROVE AdmissionInv
  OBVIOUS
<1>1. PermitHolders = {}
  BY DEF Init, PermitHolders
<1>2. permits = MaxInFlight /\ waiters = <<>> /\ Len(waiters) = 0 /\ admissionOpen
  BY DEF Init
<1> QED  BY <1>1, <1>2, FS_EmptySet, LimitsAssumption DEF AdmissionInv, PermitsConserved, Queued

\* A call that held a permit ends, and the permit goes back.
LEMMA PermitReturned ==
    ASSUME Typed, AdmissionInv, NEW c \in Calls, c \in PermitHolders,
           NEW p \in {"done", "abandoned"}, ReturnPermit([pc EXCEPT ![c] = p]),
           UNCHANGED admissionOpen
    PROVE  AdmissionInv'
<1>1. /\ pc \in [Calls -> CallPcs] /\ waiters \in Seq(Calls) /\ permits \in Nat
      /\ MaxInFlight \in Nat
  BY LimitsAssumption DEF Typed, TypeOK, CallTypes
<1>2. Cardinality(PermitHolders) \in Nat /\ IsFiniteSet(PermitHolders)
  BY FS_CardinalityType DEF AdmissionInv
<1>3. /\ IsFiniteSet(PermitHolders \ {c})
      /\ Cardinality(PermitHolders \ {c}) = Cardinality(PermitHolders) - 1
  BY <1>2, FS_RemoveElement
<1>4. CASE waiters = <<>>
  <2>1. permits' = permits + 1 /\ waiters' = waiters /\ pc' = [pc EXCEPT ![c] = p]
    BY <1>4 DEF ReturnPermit
  <2>2. PermitHolders' = PermitHolders \ {c}
    BY <1>1, <2>1 DEF PermitHolders
  <2>3. Len(waiters) = 0
    BY <1>4
  <2> QED  BY <1>1, <1>2, <1>3, <1>4, <2>1, <2>2, <2>3
           DEF AdmissionInv, PermitsConserved, Queued
<1>5. CASE waiters # <<>>
  <2> DEFINE h == Head(waiters)
  <2>1. /\ permits' = permits /\ waiters' = Tail(waiters)
        /\ pc' = [[pc EXCEPT ![c] = p] EXCEPT ![h] = "granted"]
    BY <1>5 DEF ReturnPermit
  <2>2. /\ h = waiters[1] /\ h \in Calls /\ Len(waiters) \in Nat /\ Len(waiters) >= 1
        /\ Len(waiters') = Len(waiters) - 1
        /\ \A n \in 1 .. Len(waiters') : waiters'[n] = waiters[n + 1]
    BY <1>1, <1>5, <2>1, HeadTailProperties, LenProperties
  <2>3. pc[h] = "waiting" /\ h # c /\ h \notin PermitHolders
    BY <2>2 DEF AdmissionInv, Queued, PermitHolders
  <2> HIDE DEF h
  <2>4. pc' = [d \in Calls |-> IF d = h THEN "granted" ELSE IF d = c THEN p ELSE pc[d]]
    BY <1>1, <2>1, <2>2, <2>3
  <2>5. PermitHolders' = (PermitHolders \ {c}) \cup {h}
    BY <1>1, <2>2, <2>3, <2>4 DEF PermitHolders
  <2>6. /\ IsFiniteSet(PermitHolders')
        /\ Cardinality(PermitHolders') = Cardinality(PermitHolders)
    BY <1>2, <1>3, <2>3, <2>5, FS_AddElement
  <2>7. Queued'
    <3>1. ASSUME NEW n \in 1 .. Len(waiters')
          PROVE  /\ n + 1 \in 1 .. Len(waiters) /\ waiters'[n] = waiters[n + 1]
                 /\ waiters[n + 1] \in Calls /\ waiters[n + 1] # h
      BY <1>1, <2>2, ElementOfSeq DEF AdmissionInv, Queued
    <3>2. ASSUME NEW n \in 1 .. Len(waiters')
          PROVE  pc'[waiters'[n]] = "waiting"
      <4>1. pc[waiters[n + 1]] = "waiting" /\ pc[c] # "waiting"
        BY Zenon, <3>1 DEF AdmissionInv, Queued, PermitHolders
      <4>2. waiters[n + 1] # c
        BY Zenon, <4>1
      <4> QED  BY Zenon, <2>4, <3>1, <4>1, <4>2
    <3>3. ASSUME NEW m \in 1 .. Len(waiters'), NEW n \in 1 .. Len(waiters'),
                 waiters'[m] = waiters'[n]
          PROVE  m = n
      BY <3>1, <3>3, <2>2 DEF AdmissionInv, Queued
    <3> QED  BY <3>2, <3>3 DEF Queued
  <2> QED  BY <1>5, <2>1, <2>6, <2>7 DEF AdmissionInv, PermitsConserved
<1> QED  BY <1>4, <1>5

LEMMA AdmissionCall ==
    ASSUME Typed, AdmissionInv, NEW c \in Calls,
           Start(c) \/ CallStep(c) \/ AbandonWait(c) \/ Abandon(c)
    PROVE  AdmissionInv'
<1>1. /\ pc \in [Calls -> CallPcs] /\ waiters \in Seq(Calls) /\ permits \in Nat
      /\ MaxInFlight \in Nat /\ Len(waiters) \in Nat
  BY LimitsAssumption, LenProperties DEF Typed, TypeOK, CallTypes
<1>2. Cardinality(PermitHolders) \in Nat /\ IsFiniteSet(PermitHolders)
  BY FS_CardinalityType DEF AdmissionInv
<1>3. \A n \in 1 .. Len(waiters) : waiters[n] \in Calls
  BY <1>1, ElementOfSeq
\* A call that is neither queued nor a holder moves on to neither.
<1>4. ASSUME NEW p \in {"admit", "done", "abandoned"},
             pc[c] \in {"idle", "admit", "waiting"},
             pc[c] = "waiting" => waiters = <<>>,
             pc' = [pc EXCEPT ![c] = p], UNCHANGED <<permits, waiters, admissionOpen>>
      PROVE  AdmissionInv'
  <2>1. PermitHolders' = PermitHolders
    BY <1>1, <1>4 DEF PermitHolders
  <2>2. Queued'
    <3>1. CASE waiters = <<>>
      <4>1. Len(waiters') = 0
        BY <1>4, <3>1
      <4> QED  BY <4>1 DEF Queued
    <3>2. CASE waiters # <<>>
      <4>1. \A n \in 1 .. Len(waiters) : waiters[n] # c
        BY <1>4, <3>2 DEF AdmissionInv, Queued
      <4> QED  BY <1>1, <1>3, <1>4, <4>1 DEF AdmissionInv, Queued
    <3> QED  BY <3>1, <3>2
  <2> QED  BY <1>4, <2>1, <2>2 DEF AdmissionInv, PermitsConserved
<1>5. CASE Start(c)
  BY <1>4, <1>5 DEF Start, callFrame, sessionVars
<1>6. ASSUME pc[c] = "admit", permits > 0, permits' = permits - 1,
             UNCHANGED <<waiters, admissionOpen>>, Allocate(c)
      PROVE  AdmissionInv'
  <2>1. pc' = [pc EXCEPT ![c] = "send"]
    BY <1>6 DEF Allocate
  <2>2. PermitHolders' = PermitHolders \cup {c} /\ c \notin PermitHolders
    BY <1>1, <1>6, <2>1 DEF PermitHolders
  <2>3. /\ IsFiniteSet(PermitHolders')
        /\ Cardinality(PermitHolders') = Cardinality(PermitHolders) + 1
    BY <1>2, <2>2, FS_AddElement
  <2>4. waiters = <<>> /\ Len(waiters) = 0
    BY <1>6 DEF AdmissionInv, PermitsConserved
  <2> QED  BY <1>1, <1>2, <1>6, <2>3, <2>4 DEF AdmissionInv, PermitsConserved, Queued
<1>7. ASSUME pc[c] = "admit", permits = 0, admissionOpen, UNCHANGED <<permits, admissionOpen>>,
             waiters' = Append(waiters, c), pc' = [pc EXCEPT ![c] = "waiting"]
      PROVE  AdmissionInv'
  <2>1. PermitHolders' = PermitHolders
    BY <1>1, <1>7 DEF PermitHolders
  <2>2. /\ Len(waiters') = Len(waiters) + 1
        /\ \A n \in 1 .. Len(waiters) : waiters'[n] = waiters[n]
        /\ waiters'[Len(waiters) + 1] = c
    BY <1>1, <1>7, AppendProperties
  <2>3. \A n \in 1 .. Len(waiters) : waiters[n] # c /\ pc[waiters[n]] = "waiting"
    BY <1>7 DEF AdmissionInv, Queued
  <2>4. \A n \in 1 .. Len(waiters') : n \in 1 .. Len(waiters) \/ n = Len(waiters) + 1
    BY <1>1, <2>2
  <2>5. ASSUME NEW n \in 1 .. Len(waiters')
        PROVE  pc'[waiters'[n]] = "waiting"
    <3>1. CASE n \in 1 .. Len(waiters)
      <4>1. waiters'[n] = waiters[n] /\ waiters[n] \in Calls
        BY Zenon, <1>3, <2>2, <3>1
      <4>2. waiters[n] # c /\ pc[waiters[n]] = "waiting"
        BY Zenon, <2>3, <3>1
      <4> QED  BY Zenon, <1>1, <1>7, <4>1, <4>2
    <3>2. CASE n = Len(waiters) + 1
      BY Zenon, <1>1, <1>7, <2>2, <3>2
    <3> QED  BY Zenon, <2>4, <3>1, <3>2
  <2>6. \A m, n \in 1 .. Len(waiters') : waiters'[m] = waiters'[n] => m = n
    BY <2>2, <2>3, <2>4 DEF AdmissionInv, Queued
  <2> QED  BY <1>7, <2>1, <2>5, <2>6 DEF AdmissionInv, PermitsConserved, Queued
<1>8. CASE Acquire(c)
  BY <1>4, <1>6, <1>7, <1>8 DEF Acquire, callFrame, sessionVars
<1>9. CASE Woken(c)
  <2>1. waiters = <<>>
    BY <1>9 DEF Woken, AdmissionInv
  <2> QED  BY <1>4, <1>9, <2>1 DEF Woken, callFrame, sessionVars
<1>10. ASSUME NEW n \in 1 .. Len(waiters), waiters[n] = c,
              waiters' = SubSeq(waiters, 1, n - 1) \o SubSeq(waiters, n + 1, Len(waiters)),
              pc' = [pc EXCEPT ![c] = "abandoned"], UNCHANGED permits
       PROVE  AdmissionInv'
  <2> DEFINE skip(m) == IF m < n THEN m ELSE m + 1
  <2>1. /\ SubSeq(waiters, 1, n - 1) \in Seq(Calls)
        /\ Len(SubSeq(waiters, 1, n - 1)) = n - 1
        /\ \A m \in 1 .. n - 1 : SubSeq(waiters, 1, n - 1)[m] = waiters[m]
    <3>1. /\ n \in Nat /\ n >= 1 /\ n - 1 \in Int
          /\ \A i \in 1 .. n - 1 : i \in 1 .. Len(waiters)
      BY <1>1
    <3>2. \A i \in 1 .. n - 1 : waiters[i] \in Calls
      BY Zenon, <1>3, <3>1
    <3>3. /\ SubSeq(waiters, 1, n - 1) \in Seq(Calls)
          /\ Len(SubSeq(waiters, 1, n - 1)) = IF 1 <= n - 1 THEN n - 1 - 1 + 1 ELSE 0
          /\ \A i \in 1 .. n - 1 - 1 + 1 : SubSeq(waiters, 1, n - 1)[i] = waiters[1 + i - 1]
      BY <3>1, <3>2, SubSeqProperties
    <3> HIDE DEF skip
    <3> QED  BY <3>1, <3>3
  <2>2. /\ SubSeq(waiters, n + 1, Len(waiters)) \in Seq(Calls)
        /\ Len(SubSeq(waiters, n + 1, Len(waiters))) = Len(waiters) - n
        /\ \A m \in 1 .. Len(waiters) - n :
              SubSeq(waiters, n + 1, Len(waiters))[m] = waiters[m + n]
    BY <1>1, <1>3
  <2>3. /\ Len(waiters') = Len(waiters) - 1
        /\ \A m \in 1 .. Len(waiters') : waiters'[m] = waiters[skip(m)]
    <3> DEFINE front == SubSeq(waiters, 1, n - 1)
               back == SubSeq(waiters, n + 1, Len(waiters))
    <3>1. n \in Nat /\ n >= 1 /\ n <= Len(waiters)
      BY <1>1, <1>10
    <3> HIDE DEF front, back
    <3>2. /\ Len(front \o back) = Len(front) + Len(back)
          /\ \A m \in 1 .. Len(front) + Len(back) : (front \o back)[m] =
                IF m <= Len(front) THEN front[m] ELSE back[m - Len(front)]
      BY <2>1, <2>2, ConcatProperties DEF front, back
    <3>3. Len(front) = n - 1 /\ Len(back) = Len(waiters) - n
      BY <2>1, <2>2 DEF front, back
    <3>4. ASSUME NEW m \in 1 .. Len(waiters) - 1
          PROVE  (front \o back)[m] = waiters[skip(m)]
      <4>1. CASE m < n
        BY <1>1, <2>1, <3>1, <3>2, <3>3, <4>1 DEF front
      <4>2. CASE m >= n
        <5>1. m - (n - 1) \in 1 .. Len(waiters) - n /\ m - (n - 1) + n = m + 1
          BY <1>1, <3>1, <4>2
        <5>2. (front \o back)[m] = back[m - (n - 1)]
          BY <1>1, <3>1, <3>2, <3>3, <4>2
        <5>3. back[m - (n - 1)] = waiters[m + 1]
          BY <2>2, <5>1 DEF back
        <5>4. ~(m < n)
          BY <1>1, <3>1, <4>2
        <5> QED  BY <5>2, <5>3, <5>4
      <4>3. m < n \/ m >= n
        BY <1>1, <3>1
      <4> QED  BY <4>1, <4>2, <4>3
    <3>5. waiters' = front \o back
      BY <1>10 DEF front, back
    <3> HIDE DEF skip
    <3>6. Len(waiters') = Len(waiters) - 1
      <4>1. Len(waiters') = (n - 1) + (Len(waiters) - n)
        BY Zenon, <3>2, <3>3, <3>5
      <4> QED  BY <1>1, <3>1, <4>1
    <3> QED  BY <3>4, <3>5, <3>6
  <2>4. /\ \A m \in 1 .. Len(waiters') : skip(m) \in 1 .. Len(waiters) /\ skip(m) # n
        /\ \A m, l \in 1 .. Len(waiters') : skip(m) = skip(l) => m = l
    BY <1>1, <2>3
  <2> HIDE DEF skip
  <2>5. Queued'
    <3>1. ASSUME NEW m \in 1 .. Len(waiters')
          PROVE  pc'[waiters'[m]] = "waiting"
      <4>1. waiters'[m] = waiters[skip(m)] /\ skip(m) \in 1 .. Len(waiters) /\ skip(m) # n
        BY <2>3, <2>4
      <4>2. waiters[skip(m)] # c /\ pc[waiters[skip(m)]] = "waiting"
        BY <1>10, <4>1 DEF AdmissionInv, Queued
      <4> QED  BY <1>1, <1>3, <1>10, <4>1, <4>2
    <3>2. \A m, l \in 1 .. Len(waiters') : waiters'[m] = waiters'[l] => m = l
      BY <2>3, <2>4 DEF AdmissionInv, Queued
    <3> QED  BY <3>1, <3>2 DEF Queued
  <2>6. PermitHolders' = PermitHolders
    BY <1>1, <1>10 DEF PermitHolders, AdmissionInv, Queued
  <2>7. waiters # <<>> /\ permits' = permits /\ admissionOpen
    BY <1>10 DEF AdmissionInv
  <2>8. UNCHANGED admissionOpen
    BY DEF Start, CallStep, Acquire, Woken, Granted, Send, Resolve,
           AbandonWait, Abandon, callFrame, sessionVars
  <2> QED  BY <2>5, <2>6, <2>7, <2>8 DEF AdmissionInv, PermitsConserved
<1>11. CASE AbandonWait(c)
  <2>1. DOMAIN waiters = 1 .. Len(waiters)
    BY <1>1, LenProperties
  <2> QED  BY <1>4, <1>10, <1>11, <2>1 DEF AbandonWait, callFrame, sessionVars
<1>12. UNCHANGED admissionOpen
  BY DEF Start, CallStep, Acquire, Woken, Granted, Send, Resolve,
         AbandonWait, Abandon, callFrame, sessionVars
\* A holder moves on and keeps its permit.
<1>13. ASSUME NEW p \in {"send", "await"}, c \in PermitHolders,
              pc' = [pc EXCEPT ![c] = p], UNCHANGED <<permits, waiters>>
       PROVE  AdmissionInv'
  <2>1. PermitHolders' = PermitHolders
    BY <1>1, <1>13 DEF PermitHolders
  <2>2. Queued'
    BY <1>1, <1>3, <1>13 DEF AdmissionInv, Queued, PermitHolders
  <2> QED  BY <1>12, <1>13, <2>1, <2>2 DEF AdmissionInv, PermitsConserved
<1>14. CASE Granted(c)
  BY <1>12, <1>13, <1>14, PermitReturned DEF Granted, Allocate, PermitHolders
<1>15. CASE Send(c)
  BY <1>12, <1>13, <1>15, PermitReturned DEF Send, PermitHolders
<1>16. CASE Resolve(c) \/ Abandon(c)
  BY <1>12, <1>16, PermitReturned DEF Resolve, Abandon, PermitHolders
<1> QED  BY <1>5, <1>8, <1>9, <1>11, <1>14, <1>15, <1>16 DEF CallStep

LEMMA AdmissionNext ==
    ASSUME Typed, AdmissionInv, [Next]_vars
    PROVE  AdmissionInv'
<1>1. CASE UNCHANGED <<permits, waiters, pc, admissionOpen>>
  BY <1>1 DEF AdmissionInv, PermitsConserved, PermitHolders, Queued
<1>2. CASE CloseAdmission /\ UNCHANGED <<permits, pc>>
  <2>1. waiters' = <<>> /\ Len(waiters') = 0
    BY <1>2 DEF CloseAdmission
  <2> QED  BY <1>2, <2>1 DEF AdmissionInv, PermitsConserved, PermitHolders, Queued
<1>3. CASE DriverStep
  <2>1. CASE SealAdmission
    BY <1>2, <2>1 DEF SealAdmission
  <2> QED  BY <1>1, <1>3, <2>1
           DEF DriverStep, TakeShutdown, PollOthers, RecvSubmit, RecvClosed,
               FinishWrite, ReadChunk, ReadEnd, DrainFrame, MarkState,
               ShutTransport, DriverReturn, Abort, driverFrame, callVars,
               sessionVars
<1>4. ASSUME NEW k \in Closers, CloseStart(k) \/ CloseStep(k) \/ AbandonClose(k)
      PROVE  AdmissionInv'
  <2>1. CASE CloseSeal(k)
    BY <1>2, <2>1 DEF CloseSeal
  <2> QED  BY <1>1, <1>4, <2>1
           DEF CloseStart, CloseStep, AbandonClose, BeginClosing, HasDriver,
               SignalShutdown, TakeHandle, JoinDriver, CloseDriverless,
               closeFrame, callVars, sessionVars
<1>5. CASE DropShared \/ DropShutdownSender \/ PeerStep \/ NetStep
  BY <1>1, <1>5 DEF DropShared, DropShutdownSender, PeerStep, NetStep,
         PeerRead, PeerAnswer, PeerBadMeta, PeerViolates, PeerSends,
         PeerClose, LinkDown, peerFrame, callVars, sessionVars
<1>6. CASE UNCHANGED vars
  BY <1>1, <1>6 DEF vars, callVars
<1> QED  BY AdmissionCall, <1>3, <1>4, <1>5, <1>6 DEF Next, Terminated

\* Permits are never lost or minted, however a call ends, and no call waits
\* while one is free (acquire_permit, submit, and the drop of a future).
THEOREM PermitsConservedHolds == Spec => []PermitsConserved
<1>1. AdmissionInv => PermitsConserved
  BY DEF AdmissionInv
<1> QED  BY <1>1, AdmissionInit, AdmissionNext, TypedInit, TypedNext, PTL DEF Spec

=============================================================================
