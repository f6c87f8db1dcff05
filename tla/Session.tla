------------------------------ MODULE Session ------------------------------
(***************************************************************************)
(* One established session of the client: the tasks that call commands on  *)
(* clones of a Connection, the tasks that close it, the driver task that   *)
(* owns the transport, and the peer behind the transport                   *)
(* (src/connection/mod.rs and src/connection/driver.rs).                   *)
(*                                                                         *)
(* Every task runs on a multi-threaded runtime, so a step here is what a   *)
(* task does between two points where another task can see a difference:   *)
(* an await, or the release of the lock on a piece of shared state.        *)
(***************************************************************************)
EXTENDS Sequences, FiniteSets, RequestIds

CONSTANTS
    Calls,        \* command invocations, each run by a task of its own
    Closers,      \* invocations of Connection::close
    NoCall,       \* no call
    MaxInFlight,  \* ConnectionConfig::maximum_in_flight
    QueueCap,     \* the capacity of the submit channel
    WireCap,      \* requests the transport buffers hold towards the peer
    InboundCap,   \* frames the transport buffers hold towards the client
    PeerWindow,   \* requests the peer works on before it reads another
    PeerFaults,   \* the kinds of contract violations the peer commits
    MaxFaults,    \* how many of them
    NetFaults     \* "eof": the peer may close; "down": the link may break

ASSUME CallsAssumption == NoCall \notin Calls
ASSUME LimitsAssumption ==
    /\ MaxInFlight \in Nat \ {0}
    /\ {QueueCap, WireCap, InboundCap, PeerWindow} \subseteq Nat \ {0}
    /\ MaxFaults \in Nat

VARIABLES
    state,         \* Shared::state
    permits,       \* permits left in the admission semaphore
    waiters,       \* calls queued on the semaphore, oldest first
    admissionOpen, \* the semaphore is not closed
    nextId,        \* the allocator's count
    pc,            \* where each call is
    reqId,         \* the identifier each call allocated
    outcome,       \* a call's completion channel, then its result
    queue,         \* the submit channel
    submitClosed,  \* the driver saw every sender of the submit channel gone
    shutdownTx,    \* the sender of the shutdown signal: held, sent, dropped
    handle,        \* the driver's join handle in Shared: held, taken
    owner,         \* the last Connection handle: alive, dropping, dropped
    dpc,           \* where the driver is
    ending,        \* why the driver is ending
    writing,       \* the submission being written
    live,          \* InFlightRegistry
    completions,   \* the completion sender held for each identifier
    buffer,        \* complete frames read and not yet drained
    cpc,           \* where each closer is
    closed,        \* what each close returned
    wire,          \* requests on their way to the peer
    received,      \* requests the peer read and has not answered
    executed,      \* the calls the peer ever read
    inbound,       \* frames on their way to the client
    faults,        \* contract violations the peer committed
    net            \* the transport: up, eof, down

callVars == <<permits, waiters, nextId, pc, reqId>>
driverVars == <<dpc, ending, writing, live, completions, buffer, submitClosed>>
closeVars == <<cpc, closed, shutdownTx, handle, owner>>
peerVars == <<wire, received, executed, inbound, faults, net>>
vars == <<state, admissionOpen, outcome, queue,
          callVars, driverVars, closeVars, peerVars>>

\* What the steps of each kind of task leave alone.
sessionVars == <<state, admissionOpen>>
callFrame == <<sessionVars, driverVars, closeVars, peerVars>>
driverFrame == <<callVars, closeVars>>
closeFrame == <<outcome, queue, callVars, driverVars, owner, peerVars>>
peerFrame == <<sessionVars, outcome, queue, callVars, driverVars, closeVars>>

-----------------------------------------------------------------------------
(* Values *)

Terminal == {"Closed", "Failed", "Unusable"}
States == {"Usable", "Closing"} \cup Terminal

CallPcs == {"idle", "admit", "waiting", "granted", "send", "await",
            "done", "abandoned"}
DriverPcs == {"select", "poll", "writing", "drain", "mark", "seal",
              "shutting", "return", "exited", "aborted"}
CloserPcs == {"idle", "begin", "seal", "branch", "signal", "take", "join",
              "driverless", "done", "abandoned"}
Endings == {"none", "Closed", "ShutdownFailed", "Failed", "Unusable", "Idle"}

Tags == {"none", "lost", "frame", "peerFatal", "RequestFailed",
         "ConnectionFatal", "Transport", "Closed", "Unusable",
         "LocalLimitExceeded"}
Outcomes == [tag : Tags, by : Calls \cup {NoCall}]
Plain(tag) == [tag |-> tag, by |-> NoCall]

Requests == [id : RequestId, call : Calls]
NoRequest == [id |-> 0, call |-> NoCall]
FrameKinds == {"answer", "fatalError", "badMeta", "garbage"}
Frames == [kind : FrameKinds, id : WireIds, by : Calls \cup {NoCall}]

Elements(s) == {s[i] : i \in DOMAIN s}
Unclaimed == [i \in RequestId |-> NoCall]

\* The identifiers the driver holds a completion sender for.
Pending == {i \in RequestId : completions[i] # NoCall}

-----------------------------------------------------------------------------
Init ==
    /\ state = "Usable"
    /\ permits = MaxInFlight
    /\ waiters = <<>>
    /\ admissionOpen = TRUE
    /\ nextId = FirstAfterHandshake
    /\ pc = [c \in Calls |-> "idle"]
    /\ reqId = [c \in Calls |-> 0]
    /\ outcome = [c \in Calls |-> Plain("none")]
    /\ queue = <<>>
    /\ submitClosed = FALSE
    /\ shutdownTx = "held"
    /\ handle = "held"
    /\ owner = "alive"
    /\ dpc = "select"
    /\ ending = "none"
    /\ writing = NoRequest
    /\ live = {}
    /\ completions = Unclaimed
    /\ buffer = <<>>
    /\ cpc = [k \in Closers |-> "idle"]
    /\ closed = [k \in Closers |-> "none"]
    /\ wire = <<>>
    /\ received = {}
    /\ executed = {}
    /\ inbound = <<>>
    /\ faults = 0
    /\ net = "up"

-----------------------------------------------------------------------------
(* Calls: execute, acquire_permit, allocate_id, submit *)

\* The error a refused or lost call reports in a given lifecycle state.
StateError(s) ==
    CASE s \in {"Closed", "Closing"} -> "Closed"
      [] s = "Failed" -> "Transport"
      [] OTHER -> "Unusable"

\* The call ends with this outcome.
Finish(c, result) ==
    outcome' = [outcome EXCEPT ![c] = result]

\* A permit goes back to the semaphore, which hands it to its oldest waiter.
ReturnPermit(pcs) ==
    IF waiters = <<>>
    THEN permits' = permits + 1 /\ pc' = pcs /\ UNCHANGED waiters
    ELSE /\ pc' = [pcs EXCEPT ![Head(waiters)] = "granted"]
         /\ waiters' = Tail(waiters)
         /\ UNCHANGED permits

\* check_usable and the size check of execute: whether the request exceeds
\* the effective frame limit is an input. The code reads the state a second
\* time to choose the error; a session that is not usable never is again, so
\* one read at that moment has the same outcomes.
Start(c) ==
    /\ pc[c] = "idle"
    /\ owner = "alive"
    /\ \/ /\ state = "Usable"
          /\ pc' = [pc EXCEPT ![c] = "admit"]
          /\ UNCHANGED outcome
       \/ /\ pc' = [pc EXCEPT ![c] = "done"]
          /\ Finish(c, Plain(IF state = "Usable" THEN "LocalLimitExceeded"
                                                 ELSE StateError(state)))
    /\ UNCHANGED <<queue, permits, waiters, nextId, reqId, callFrame>>

\* allocate_id: every permit holder takes the next identifier.
Allocate(c) ==
    /\ reqId' = [reqId EXCEPT ![c] = AllocatedId(nextId)]
    /\ nextId' = NextAfter(nextId)
    /\ pc' = [pc EXCEPT ![c] = "send"]

\* acquire_permit, first poll: refused, admitted or queued.
Acquire(c) ==
    /\ pc[c] = "admit"
    /\ \/ /\ ~admissionOpen
          /\ pc' = [pc EXCEPT ![c] = "done"]
          /\ Finish(c, Plain(StateError(state)))
          /\ UNCHANGED <<permits, waiters, nextId, reqId>>
       \/ /\ admissionOpen /\ permits > 0
          /\ permits' = permits - 1
          /\ Allocate(c)
          /\ UNCHANGED <<waiters, outcome>>
       \/ /\ admissionOpen /\ permits = 0
          /\ waiters' = Append(waiters, c)
          /\ pc' = [pc EXCEPT ![c] = "waiting"]
          /\ UNCHANGED <<permits, nextId, reqId, outcome>>
    /\ UNCHANGED <<queue, callFrame>>

\* The closed semaphore woke a waiter.
Woken(c) ==
    /\ pc[c] = "waiting"
    /\ ~admissionOpen
    /\ pc' = [pc EXCEPT ![c] = "done"]
    /\ Finish(c, Plain(StateError(state)))
    /\ UNCHANGED <<queue, permits, waiters, nextId, reqId, callFrame>>

\* Mutant of Granted: the permit of a waiter that finds the semaphore closed
\* is lost.
GrantedLeaks(c) ==
    /\ pc[c] = "granted"
    /\ IF admissionOpen
       THEN Allocate(c) /\ UNCHANGED outcome
       ELSE /\ pc' = [pc EXCEPT ![c] = "done"]
            /\ Finish(c, Plain(StateError(state)))
            /\ UNCHANGED <<nextId, reqId>>
    /\ UNCHANGED <<permits, waiters, queue, callFrame>>

\* A waiter that was handed a permit runs again; the semaphore may have
\* closed in between, and then the permit goes back.
Granted(c) ==
    /\ pc[c] = "granted"
    /\ \/ /\ admissionOpen
          /\ Allocate(c)
          /\ UNCHANGED <<permits, waiters, outcome>>
       \/ /\ ~admissionOpen
          /\ ReturnPermit([pc EXCEPT ![c] = "done"])
          /\ Finish(c, Plain(StateError(state)))
          /\ UNCHANGED <<nextId, reqId>>
    /\ UNCHANGED <<queue, callFrame>>

\* The driver task ended and dropped the receiver of the submit channel.
ReceiverGone == dpc \in {"exited", "aborted"}

\* submit, up to the send: waits for room, or finds the receiver gone.
Send(c) ==
    /\ pc[c] = "send"
    /\ \/ /\ ~ReceiverGone
          /\ Len(queue) < QueueCap
          /\ queue' = Append(queue, [id |-> reqId[c], call |-> c])
          /\ pc' = [pc EXCEPT ![c] = "await"]
          /\ UNCHANGED <<permits, waiters, outcome>>
       \/ /\ ReceiverGone
          /\ ReturnPermit([pc EXCEPT ![c] = "done"])
          /\ Finish(c, Plain(StateError(state)))
          /\ UNCHANGED queue
    /\ UNCHANGED <<nextId, reqId, callFrame>>

\* submit, from the completion on. A lost completion is explained by the
\* lifecycle state (completion_lost); the permit is dropped on return.
Resolve(c) ==
    /\ pc[c] = "await"
    /\ outcome[c].tag # "none"
    /\ ReturnPermit([pc EXCEPT ![c] = "done"])
    /\ Finish(c, IF outcome[c].tag = "lost" THEN Plain(StateError(state))
                                            ELSE outcome[c])
    /\ UNCHANGED <<queue, nextId, reqId, callFrame>>

\* The caller drops the future while it queues on the semaphore; a closed
\* semaphore has no queue.
AbandonWait(c) ==
    /\ pc[c] = "waiting"
    /\ \/ waiters = <<>> /\ UNCHANGED waiters
       \/ \E n \in DOMAIN waiters :
             /\ waiters[n] = c
             /\ waiters' = SubSeq(waiters, 1, n - 1)
                           \o SubSeq(waiters, n + 1, Len(waiters))
    /\ pc' = [pc EXCEPT ![c] = "abandoned"]
    /\ UNCHANGED <<queue, outcome, permits, nextId, reqId, callFrame>>

\* Mutant of Abandon: the drop releases the identifier before its terminal
\* frame retires it.
AbandonReleasesId(c) ==
    /\ pc[c] \in {"granted", "send", "await"}
    /\ ReturnPermit([pc EXCEPT ![c] = "abandoned"])
    /\ live' = live \ {i \in RequestId : completions[i] = c}
    /\ completions' = [i \in RequestId |-> IF completions[i] = c THEN NoCall ELSE completions[i]]
    /\ UNCHANGED <<queue, outcome, nextId, reqId, sessionVars, dpc, ending,
                   writing, buffer, submitClosed, closeVars, peerVars>>

\* The caller drops the future at a later await, and its permit with it.
Abandon(c) ==
    /\ pc[c] \in {"granted", "send", "await"}
    /\ ReturnPermit([pc EXCEPT ![c] = "abandoned"])
    /\ UNCHANGED <<queue, outcome, nextId, reqId, callFrame>>

CallStep(c) ==
    \/ Acquire(c)
    \/ Woken(c)
    \/ Granted(c)
    \/ Send(c)
    \/ Resolve(c)

-----------------------------------------------------------------------------
(* The driver: run_driver, drain_frames, fail_all, mark_state *)

\* A completion reaches its call unless the call dropped the receiver.
Awaiting(c) == pc[c] = "await" /\ outcome[c].tag = "none"

\* Mutants of FailAll: the call whose submission was refused is forgotten;
\* the identifiers stay in the registry.
FailAllPendingOnly(tag, also) ==
    /\ outcome' = [c \in Calls |->
                     IF Awaiting(c) /\ \E i \in Pending : completions[i] = c
                     THEN Plain(tag) ELSE outcome[c]]
    /\ live' = live \ Pending
    /\ completions' = Unclaimed
FailAllKeepsIds(tag, also) ==
    /\ outcome' = [c \in Calls |->
                     IF Awaiting(c) /\ (c = also \/ \E i \in Pending : completions[i] = c)
                     THEN Plain(tag) ELSE outcome[c]]
    /\ live' = live
    /\ completions' = Unclaimed

\* fail_all: every pending call gets this outcome, every identifier is
\* released; `also` is a call outside the map that gets it too.
FailAll(tag, also) ==
    /\ outcome' = [c \in Calls |->
                     IF Awaiting(c) /\ (c = also \/ \E i \in Pending : completions[i] = c)
                     THEN Plain(tag) ELSE outcome[c]]
    /\ live' = live \ Pending
    /\ completions' = Unclaimed

\* Mutant of EndSession: admission closes before the state is marked.
EndSessionUnmarked(how, tag, also) ==
    /\ FailAll(tag, also)
    /\ ending' = how
    /\ dpc' = "seal"

\* The select branch ends the session: first every waiter is resolved; the
\* state, the admission and the channel follow in later steps.
EndSession(how, tag, also) ==
    /\ FailAll(tag, also)
    /\ ending' = how
    /\ dpc' = "mark"

\* Mutant of ShutdownReady: only a dropped sender wakes the driver.
ShutdownReadyOnDrop == shutdownTx = "dropped"

\* The shutdown receiver resolves on the signal and on a dropped sender.
ShutdownReady == shutdownTx # "held"
SubmitReady == ~submitClosed /\ (queue # <<>> \/ owner # "alive")
ReadReady == inbound # <<>> \/ net # "up"

\* Mutant of TakeShutdown: the branch resolves the waiters and loops.
TakeShutdownLoops ==
    /\ dpc = "select"
    /\ ShutdownReady
    /\ FailAll("Closed", NoCall)
    /\ UNCHANGED <<dpc, ending, queue, writing, buffer, submitClosed, peerVars,
                   driverFrame, sessionVars>>

TakeShutdown ==
    /\ dpc = "select"
    /\ ShutdownReady
    /\ EndSession("Closed", "Closed", NoCall)
    /\ UNCHANGED <<queue, writing, buffer, submitClosed, peerVars,
                   driverFrame, sessionVars>>

\* The biased select found no shutdown signal and looks at the next
\* branches; a signal sent from here on waits for the next turn.
PollOthers ==
    /\ dpc = "select"
    /\ ~ShutdownReady
    /\ SubmitReady \/ ReadReady
    /\ dpc' = "poll"
    /\ UNCHANGED <<outcome, queue, ending, writing, live, completions, buffer,
                   submitClosed, peerVars, driverFrame, sessionVars>>

\* A submission is registered and its write begins; a live identifier ends
\* the session.
RecvSubmit ==
    /\ dpc = "poll"
    /\ ~submitClosed /\ queue # <<>>
    /\ queue' = Tail(queue)
    /\ LET s == Head(queue) IN
       \/ /\ Admissible(live, s.id)
          /\ live' = live \cup {s.id}
          /\ completions' = [completions EXCEPT ![s.id] = s.call]
          /\ writing' = s
          /\ dpc' = "writing"
          /\ UNCHANGED <<outcome, ending>>
       \/ /\ ~Admissible(live, s.id)
          /\ EndSession("Unusable", "Unusable", s.call)
          /\ UNCHANGED writing
    /\ UNCHANGED <<buffer, submitClosed, peerVars, driverFrame, sessionVars>>

\* Where the loop goes next: it ends once no submission can come and
\* nothing is pending.
LoopOn(noMoreSubmits, pendingAfter) ==
    IF noMoreSubmits /\ pendingAfter = {}
    THEN dpc' = "return" /\ ending' = "Idle"
    ELSE dpc' = "select" /\ UNCHANGED ending

\* Every sender of the submit channel is gone.
RecvClosed ==
    /\ dpc = "poll"
    /\ ~submitClosed /\ queue = <<>> /\ owner # "alive"
    /\ submitClosed' = TRUE
    /\ LoopOn(TRUE, Pending)
    /\ UNCHANGED <<outcome, queue, writing, live, completions, buffer,
                   peerVars, driverFrame, sessionVars>>

\* write_all: the driver does nothing else until the transport took the
\* whole frame or failed.
FinishWrite ==
    /\ dpc = "writing"
    /\ \/ /\ net # "down"
          /\ Len(wire) < WireCap
          /\ wire' = Append(wire, writing)
          /\ LoopOn(submitClosed, Pending)
          /\ UNCHANGED <<outcome, live, completions>>
       \/ /\ net = "down"
          /\ EndSession("Failed", "Transport", NoCall)
          /\ UNCHANGED wire
    /\ writing' = NoRequest
    /\ UNCHANGED <<queue, buffer, submitClosed, received, executed, inbound,
                   faults, net, driverFrame, sessionVars>>

\* The read branch is polled only when the submit branch is pending.
ReadTurn == dpc = "poll" /\ ~SubmitReady

\* read_chunk: one read carries one frame or several.
ReadChunk ==
    /\ ReadTurn
    /\ \E n \in 1 .. Len(inbound) :
          /\ buffer' = SubSeq(inbound, 1, n)
          /\ inbound' = SubSeq(inbound, n + 1, Len(inbound))
    /\ dpc' = "drain"
    /\ UNCHANGED <<outcome, queue, ending, writing, live, completions,
                   submitClosed, wire, received, executed, faults, net,
                   driverFrame, sessionVars>>

\* Mutant of ReadEnd: the loop reads on with calls pending too.
ReadEndReadsOn ==
    /\ ReadTurn
    /\ inbound = <<>> /\ net # "up"
    /\ LoopOn(submitClosed, Pending)
    /\ UNCHANGED <<outcome, live, completions, queue, writing, buffer,
                   submitClosed, peerVars, driverFrame, sessionVars>>

\* End of stream or a read error: with nothing pending the loop reads on.
ReadEnd ==
    /\ ReadTurn
    /\ inbound = <<>> /\ net # "up"
    /\ \/ /\ Pending = {}
          /\ LoopOn(submitClosed, Pending)
          /\ UNCHANGED <<outcome, live, completions>>
       \/ /\ Pending # {}
          /\ EndSession("Failed", "Transport", NoCall)
    /\ UNCHANGED <<queue, writing, buffer, submitClosed, peerVars,
                   driverFrame, sessionVars>>

\* What protocol::decode makes of a complete frame: an error frame of a
\* connection-fatal class is admitted whatever identifier it names.
Decode(f) ==
    CASE f.kind = "fatalError" -> "Frame"
      [] f.kind = "answer" /\ f.id \in live -> "Frame"
      [] f.kind = "badMeta" /\ f.id \in live -> "RequestScoped"
      [] OTHER -> "ConnectionFatal"

\* What the call that owns the identifier receives.
Delivered(f) ==
    [tag |-> CASE f.kind = "answer" -> "frame"
               [] f.kind = "fatalError" -> "peerFatal"
               [] OTHER -> "RequestFailed",
     by |-> f.by]

\* Whether draining this frame leaves the session usable.
Dispatches(f) == Decode(f) # "ConnectionFatal" /\ f.id \in Pending

\* Mutants of DrainFrame: a terminal frame is delivered and its identifier
\* stays registered; a terminal frame completes the oldest request.
DrainFrameKeepsId ==
    /\ dpc = "drain"
    /\ LET f == Head(buffer) IN
       \/ /\ Dispatches(f)
          /\ outcome' = IF Awaiting(completions[f.id])
                        THEN [outcome EXCEPT ![completions[f.id]] = Delivered(f)]
                        ELSE outcome
          /\ buffer' = Tail(buffer)
          /\ IF Len(buffer) > 1 THEN UNCHANGED <<dpc, ending>>
                                ELSE LoopOn(submitClosed, Pending)
          /\ UNCHANGED <<live, completions>>
       \/ /\ ~Dispatches(f)
          /\ EndSession("Unusable", "ConnectionFatal", NoCall)
          /\ buffer' = <<>>
    /\ UNCHANGED <<queue, writing, submitClosed, peerVars, driverFrame,
                   sessionVars>>

DrainFrameInOrder ==
    /\ dpc = "drain"
    /\ LET f == Head(buffer)
           oldest == CHOOSE i \in Pending : \A j \in Pending : i <= j IN
       \/ /\ Dispatches(f)
          /\ live' = live \ {oldest}
          /\ completions' = [completions EXCEPT ![oldest] = NoCall]
          /\ outcome' = IF Awaiting(completions[oldest])
                        THEN [outcome EXCEPT ![completions[oldest]] = Delivered(f)]
                        ELSE outcome
          /\ buffer' = Tail(buffer)
          /\ IF Len(buffer) > 1
             THEN UNCHANGED <<dpc, ending>>
             ELSE LoopOn(submitClosed, Pending \ {oldest})
       \/ /\ ~Dispatches(f)
          /\ EndSession("Unusable", "ConnectionFatal", NoCall)
          /\ buffer' = <<>>
    /\ UNCHANGED <<queue, writing, submitClosed, peerVars, driverFrame,
                   sessionVars>>

\* One turn of drain_frames.
DrainFrame ==
    /\ dpc = "drain"
    /\ LET f == Head(buffer) IN
       \/ /\ Dispatches(f)
          /\ live' = live \ {f.id}
          /\ completions' = [completions EXCEPT ![f.id] = NoCall]
          /\ outcome' = IF Awaiting(completions[f.id])
                        THEN [outcome EXCEPT ![completions[f.id]] = Delivered(f)]
                        ELSE outcome
          /\ buffer' = Tail(buffer)
          /\ IF Len(buffer) > 1
             THEN UNCHANGED <<dpc, ending>>
             ELSE LoopOn(submitClosed, Pending \ {f.id})
       \/ /\ ~Dispatches(f)
          /\ EndSession("Unusable", "ConnectionFatal", NoCall)
          /\ buffer' = <<>>
    /\ UNCHANGED <<queue, writing, submitClosed, peerVars, driverFrame,
                   sessionVars>>

\* Mutant of Marked: the last signal wins.
MarkedLast(next) == next

\* mark_state keeps the first terminal state.
Marked(next) == IF state \in {"Usable", "Closing"} THEN next ELSE state

MarkState ==
    /\ dpc = "mark"
    /\ state' = Marked(ending)
    /\ dpc' = "seal"
    /\ UNCHANGED <<admissionOpen, outcome, queue, ending, writing, live,
                   completions, buffer, submitClosed, peerVars, driverFrame>>

\* Semaphore::close wakes every waiter.
CloseAdmission == admissionOpen' = FALSE /\ waiters' = <<>>

SealAdmission ==
    /\ dpc = "seal"
    /\ CloseAdmission
    /\ dpc' = IF ending = "Closed" THEN "shutting" ELSE "return"
    /\ UNCHANGED <<state, outcome, queue, permits, nextId, pc, reqId, ending,
                   writing, live, completions, buffer, submitClosed,
                   closeVars, peerVars>>

\* Transport::shutdown; only a broken link makes it fail.
ShutTransport ==
    /\ dpc = "shutting"
    /\ \/ UNCHANGED <<state, ending>>
       \/ /\ net = "down"
          /\ state' = Marked("Failed")
          /\ ending' = "ShutdownFailed"
    /\ dpc' = "return"
    /\ UNCHANGED <<admissionOpen, outcome, queue, writing, live, completions,
                   buffer, submitClosed, peerVars, driverFrame>>

\* The task returns and drops the transport and the receiver, with whatever
\* they still hold.
DriverReturn ==
    /\ dpc = "return"
    /\ dpc' = "exited"
    /\ queue' = <<>> /\ inbound' = <<>>
    /\ outcome' = [c \in Calls |->
                     IF Awaiting(c) /\ \E s \in Elements(queue) : s.call = c
                     THEN Plain("lost") ELSE outcome[c]]
    /\ UNCHANGED <<ending, writing, live, completions, buffer, submitClosed,
                   wire, received, executed, faults, net, driverFrame,
                   sessionVars>>

\* The abort requested by Shared::drop takes effect at an await.
Abort ==
    /\ owner # "alive" /\ handle = "held"
    /\ dpc \in {"select", "writing", "shutting"}
    /\ dpc' = "aborted"
    /\ queue' = <<>> /\ inbound' = <<>>
    /\ live' = {} /\ completions' = Unclaimed
    /\ writing' = NoRequest
    /\ UNCHANGED <<outcome, ending, buffer, submitClosed, wire, received,
                   executed, faults, net, driverFrame, sessionVars>>

DriverStep ==
    \/ TakeShutdown \/ PollOthers \/ RecvSubmit \/ RecvClosed \/ FinishWrite
    \/ ReadChunk \/ ReadEnd \/ DrainFrame \/ MarkState \/ SealAdmission
    \/ ShutTransport \/ DriverReturn \/ Abort

-----------------------------------------------------------------------------
(* Connection::close and the drop of the last handle *)

\* is_terminal: one lock, released before begin_closing takes it again.
CloseStart(k) ==
    /\ cpc[k] = "idle"
    /\ owner = "alive"
    /\ IF state \in Terminal
       THEN cpc' = [cpc EXCEPT ![k] = "done"] /\ closed' = [closed EXCEPT ![k] = "Ok"]
       ELSE cpc' = [cpc EXCEPT ![k] = "begin"] /\ UNCHANGED closed
    /\ UNCHANGED <<shutdownTx, handle, closeFrame, sessionVars>>

BeginClosing(k) ==
    /\ cpc[k] = "begin"
    /\ state' = "Closing"
    /\ cpc' = [cpc EXCEPT ![k] = "seal"]
    /\ UNCHANGED <<admissionOpen, closed, shutdownTx, handle, closeFrame>>

CloseSeal(k) ==
    /\ cpc[k] = "seal"
    /\ CloseAdmission
    /\ cpc' = [cpc EXCEPT ![k] = "branch"]
    /\ UNCHANGED <<state, outcome, queue, permits, nextId, pc, reqId,
                   driverVars, closed, shutdownTx, handle, owner, peerVars>>

\* has_driver.
HasDriver(k) ==
    /\ cpc[k] = "branch"
    /\ cpc' = [cpc EXCEPT ![k] = IF handle = "held" THEN "signal" ELSE "driverless"]
    /\ UNCHANGED <<closed, shutdownTx, handle, closeFrame, sessionVars>>

\* close_with_driver takes the shutdown sender, once.
SignalShutdown(k) ==
    /\ cpc[k] = "signal"
    /\ shutdownTx' = "sent"
    /\ cpc' = [cpc EXCEPT ![k] = "take"]
    /\ UNCHANGED <<closed, handle, closeFrame, sessionVars>>

\* close_with_driver takes the join handle; another closer may have it.
TakeHandle(k) ==
    /\ cpc[k] = "take"
    /\ handle' = "taken"
    /\ IF handle = "held"
       THEN cpc' = [cpc EXCEPT ![k] = "join"] /\ UNCHANGED closed
       ELSE cpc' = [cpc EXCEPT ![k] = "done"] /\ closed' = [closed EXCEPT ![k] = "Ok"]
    /\ UNCHANGED <<shutdownTx, closeFrame, sessionVars>>

\* finish_close lands a session that is still closing.
Landed(next) == IF state = "Closing" THEN next ELSE state

\* Mutant of JoinDriver: the result is read from the lifecycle state.
JoinDriverByState(k) ==
    /\ cpc[k] = "join"
    /\ dpc = "exited"
    /\ cpc' = [cpc EXCEPT ![k] = "done"]
    /\ closed' = [closed EXCEPT ![k] = IF state = "Failed" THEN "Err" ELSE "Ok"]
    /\ state' = IF ending = "Unusable" THEN state ELSE Landed("Closed")
    /\ UNCHANGED <<admissionOpen, shutdownTx, handle, closeFrame>>

\* The awaited driver exited; its exit decides the state and the result.
JoinDriver(k) ==
    /\ cpc[k] = "join"
    /\ dpc = "exited"
    /\ cpc' = [cpc EXCEPT ![k] = "done"]
    /\ LET failed == ending \in {"Failed", "ShutdownFailed"} IN
       /\ closed' = [closed EXCEPT ![k] = IF failed THEN "Err" ELSE "Ok"]
       /\ state' = IF failed THEN Landed("Failed")
                   ELSE IF ending = "Unusable" THEN state
                   ELSE Landed("Closed")
    /\ UNCHANGED <<admissionOpen, shutdownTx, handle, closeFrame>>

\* close_without_driver on a session whose driver owns the transport.
CloseDriverless(k) ==
    /\ cpc[k] = "driverless"
    /\ state' = "Closed"
    /\ cpc' = [cpc EXCEPT ![k] = "done"]
    /\ closed' = [closed EXCEPT ![k] = "Ok"]
    /\ UNCHANGED <<admissionOpen, shutdownTx, handle, closeFrame>>

\* The only await of close is the join; a dropped future detaches the driver.
AbandonClose(k) ==
    /\ cpc[k] = "join"
    /\ cpc' = [cpc EXCEPT ![k] = "abandoned"]
    /\ UNCHANGED <<closed, shutdownTx, handle, closeFrame, sessionVars>>

CloseStep(k) ==
    \/ BeginClosing(k) \/ CloseSeal(k) \/ HasDriver(k) \/ SignalShutdown(k)
    \/ TakeHandle(k) \/ JoinDriver(k) \/ CloseDriverless(k)

\* The last handle goes when no call or close borrows one: Shared::drop
\* aborts the driver, then the fields drop, the submit sender before the
\* shutdown sender.
DropShared ==
    /\ owner = "alive"
    /\ \A c \in Calls : pc[c] \in {"idle", "done", "abandoned"}
    /\ \A k \in Closers : cpc[k] \in {"idle", "done", "abandoned"}
    /\ owner' = "dropping"
    /\ UNCHANGED <<outcome, queue, callVars, driverVars, cpc, closed,
                   shutdownTx, handle, peerVars, sessionVars>>

DropShutdownSender ==
    /\ owner = "dropping"
    /\ owner' = "dropped"
    /\ shutdownTx' = IF shutdownTx = "held" THEN "dropped" ELSE shutdownTx
    /\ UNCHANGED <<outcome, queue, callVars, driverVars, cpc, closed, handle,
                   peerVars, sessionVars>>

-----------------------------------------------------------------------------
(* The transport and the peer: outside the repository, modelled from what  *)
(* the driver relies on. Both directions are bounded and in order.         *)

PeerRead ==
    /\ net # "down" /\ wire # <<>>
    /\ Cardinality(received) < PeerWindow
    /\ received' = received \cup {Head(wire)}
    /\ executed' = executed \cup {Head(wire).call}
    /\ wire' = Tail(wire)
    /\ UNCHANGED <<inbound, faults, net, peerFrame>>

PeerSends(f, isFault) ==
    /\ net = "up" /\ ~ReceiverGone
    /\ Len(inbound) < InboundCap
    /\ inbound' = Append(inbound, f)
    /\ IF isFault THEN faults < MaxFaults /\ faults' = faults + 1
                  ELSE UNCHANGED faults
    /\ UNCHANGED <<wire, executed, net, peerFrame>>

\* A terminal frame for one of the received requests, in any order.
PeerAnswer ==
    \E r \in received :
        /\ PeerSends([kind |-> "answer", id |-> r.id, by |-> r.call], FALSE)
        /\ received' = received \ {r}

\* The same with metadata that breaks the order rule.
PeerBadMeta ==
    /\ "badMeta" \in PeerFaults
    /\ \E r \in received :
        /\ PeerSends([kind |-> "badMeta", id |-> r.id, by |-> r.call], TRUE)
        /\ received' = received \ {r}

\* A terminal frame for an identifier of the peer's choice, answering no
\* request: unknown, duplicate, or naming another request; an error frame of
\* a connection-fatal class; bytes that decode to a fatal failure.
PeerViolates ==
    /\ \E kind \in PeerFaults \cap {"answer", "fatalError", "garbage"}, i \in WireIds :
        PeerSends([kind |-> kind, id |-> i, by |-> NoCall], TRUE)
    /\ UNCHANGED received

\* The peer closes its direction; what it sent before is still read.
PeerClose ==
    /\ "eof" \in NetFaults /\ net = "up" /\ ~ReceiverGone
    /\ net' = "eof"
    /\ UNCHANGED <<wire, received, executed, inbound, faults, peerFrame>>

\* The link breaks and what it carried is lost.
LinkDown ==
    /\ "down" \in NetFaults /\ net # "down" /\ ~ReceiverGone
    /\ net' = "down"
    /\ wire' = <<>> /\ inbound' = <<>>
    /\ UNCHANGED <<received, executed, faults, peerFrame>>

PeerStep == PeerRead \/ PeerAnswer \/ PeerBadMeta \/ PeerViolates
NetStep == PeerClose \/ LinkDown

\* Everything was released.
Terminated == owner = "dropped" /\ ReceiverGone /\ UNCHANGED vars

Next ==
    \/ \E c \in Calls : Start(c) \/ CallStep(c) \/ AbandonWait(c) \/ Abandon(c)
    \/ \E k \in Closers : CloseStart(k) \/ CloseStep(k) \/ AbandonClose(k)
    \/ DriverStep
    \/ DropShared \/ DropShutdownSender
    \/ PeerStep \/ NetStep
    \/ Terminated

Spec == Init /\ [][Next]_vars

(***************************************************************************)
(* The runtime polls every task that can run: the driver, the calls that   *)
(* were started and the closes that were begun. The peer reads requests    *)
(* and answers the ones it read; nobody has to start, abandon or drop      *)
(* anything.                                                               *)
(***************************************************************************)
ClientFairness ==
    /\ WF_vars(DriverStep)
    /\ \A c \in Calls : WF_vars(CallStep(c))
    /\ \A k \in Closers : WF_vars(CloseStep(k))
PeerFairness == WF_vars(PeerRead) /\ WF_vars(PeerAnswer)
FairSpec == Spec /\ ClientFairness /\ PeerFairness

-----------------------------------------------------------------------------
(* Properties *)

CallTypes ==
    /\ state \in States
    /\ permits \in Nat
    /\ waiters \in Seq(Calls)
    /\ admissionOpen \in BOOLEAN
    /\ nextId \in RequestId
    /\ pc \in [Calls -> CallPcs]
    /\ reqId \in [Calls -> WireIds]
    /\ outcome \in [Calls -> Outcomes]
    /\ queue \in Seq(Requests)

DriverTypes ==
    /\ submitClosed \in BOOLEAN
    /\ dpc \in DriverPcs
    /\ ending \in Endings
    /\ writing \in Requests \cup {NoRequest}
    /\ live \subseteq RequestId
    /\ completions \in [RequestId -> Calls \cup {NoCall}]
    /\ buffer \in Seq(Frames)

CloseTypes ==
    /\ shutdownTx \in {"held", "sent", "dropped"}
    /\ handle \in {"held", "taken"}
    /\ owner \in {"alive", "dropping", "dropped"}
    /\ cpc \in [Closers -> CloserPcs]
    /\ closed \in [Closers -> {"none", "Ok", "Err"}]

PeerTypes ==
    /\ wire \in Seq(Requests)
    /\ received \subseteq Requests
    /\ executed \subseteq Calls
    /\ inbound \in Seq(Frames)
    /\ faults \in 0 .. MaxFaults
    /\ net \in {"up", "eof", "down"}

\* Every variable keeps its type.
TypeOK == CallTypes /\ DriverTypes /\ CloseTypes /\ PeerTypes

PermitHolders == {c \in Calls : pc[c] \in {"granted", "send", "await"}}

\* Admission: the permits left and the calls that hold one always add up to
\* the bound, over every way a call ends (answered, refused, lost, dropped
\* mid-wait), and no call waits while a permit is free.
PermitsConserved ==
    /\ permits + Cardinality(PermitHolders) = MaxInFlight
    /\ waiters # <<>> => permits = 0

\* Dispatch: a call that waits for its completion is known to exactly one
\* holder, the submit channel or the driver's map under the call's own
\* identifier, so it is resolved once and never forgotten.
OneHolder ==
    \A c \in Calls : Awaiting(c) =>
        /\ ~ReceiverGone
        /\ \/ /\ \E n \in DOMAIN queue : queue[n] = [id |-> reqId[c], call |-> c]
              /\ \A i \in Pending : completions[i] # c
           \/ /\ completions[reqId[c]] = c
              /\ \A s \in Elements(queue) : s.call # c

\* Dispatch: the registry that decode consults and the map of completion
\* senders name the same identifiers, whichever path retired one.
RegistryMatches == live = Pending

\* Dispatch: an identifier the driver keeps belongs to a call that still
\* waits under its permit, or to one whose caller dropped it and gave the
\* permit back. Only the latter pass the bound on calls in flight, and no
\* two identifiers stand for one call.
InFlightAccounted ==
    /\ \A i \in Pending :
          \/ Awaiting(completions[i]) /\ reqId[completions[i]] = i
          \/ pc[completions[i]] = "abandoned"
    /\ \A i, j \in Pending : completions[i] = completions[j] => i = j
    /\ Cardinality({i \in Pending : pc[completions[i]] # "abandoned"}) <= MaxInFlight

\* Lifecycle: admission closes, and the receiver of submissions goes away,
\* only after the session left usable, so completion_lost and acquire_permit
\* never explain a failure by a usable state.
EndedBeforeLost ==
    /\ ~admissionOpen => state # "Usable"
    /\ (ReceiverGone /\ owner = "alive") => (state # "Usable" /\ ~admissionOpen)
    /\ \A c \in Calls : outcome[c].tag = "lost" => state # "Usable"

\* The peer has answered nothing it was not asked.
Truthful == faults = 0 \/ PeerFaults \cap {"answer", "fatalError"} = {}

\* Correlation: as long as the peer answers each request at most once, the
\* frame a call receives answers that call's own request, whatever the order
\* of answers, abandoned calls and identifiers that wrap around.
OwnAnswer ==
    Truthful =>
        \A c \in Calls : outcome[c].tag \in {"frame", "RequestFailed"} =>
            outcome[c].by = c

\* Lifecycle: a session that left usable never returns to it, and a terminal
\* state gives way only to a close that was already past its terminal test,
\* never to the driver, to another verdict or to a close that joined it
\* (mark_state and finish_close keep the first outcome).
FirstOutcomeKept ==
    [][/\ state # "Usable" => state' # "Usable"
       /\ (state \in Terminal /\ state' # state) =>
              \E k \in Closers : BeginClosing(k) \/ CloseDriverless(k)]_vars

\* Lifecycle: the driver marks the session closed before it knows whether
\* the transport shut down, and the later failure no longer changes the
\* state; the close that took the driver's handle reports it all the same.
\* No other close does, and none reports a failure the driver did not have.
FailureReported ==
    LET reported == {k \in Closers : closed[k] = "Err"}
        left == {k \in Closers : cpc[k] \in {"join", "abandoned"}}
        broken == dpc = "exited" /\ ending \in {"Failed", "ShutdownFailed"}
    IN /\ Cardinality(reported) <= 1
       /\ reported # {} => broken
       /\ (broken /\ handle = "taken" /\ left = {}) => reported # {}

\* The peer never makes its reading wait for its answers to be read: it has
\* room for every request. The driver does not read while it writes, so a
\* write that waits is the peer's to end (run standoff shows one that never
\* does).
PeerReadsOn == PeerWindow >= Cardinality(Calls)

\* Every call that was started is resolved: by its answer, or by the end of
\* the session, in whatever state the end finds it, behind writes that wait
\* for the peer too.
CallsResolve ==
    PeerReadsOn =>
        \A c \in Calls : pc[c] = "admit" ~> pc[c] \in {"done", "abandoned"}

\* Every close that was begun returns, although a driver in write_all does
\* not see the shutdown signal until the write ends.
CloseReturns ==
    PeerReadsOn =>
        \A k \in Closers : cpc[k] = "begin" ~> cpc[k] \in {"done", "abandoned"}

\* Dropping the last handle ends the driver, and with it the transport, also
\* when an abandoned close took the join handle and nothing aborts a driver
\* that is writing.
DropEndsDriver == PeerReadsOn => (owner = "dropped" ~> ReceiverGone)

-----------------------------------------------------------------------------
(* What the documentation says and the code does not do. Each of these is  *)
(* refuted by a run of its own.                                            *)

\* A close that returned leaves the session in a terminal state, and one that
\* returned an error in Failed. A close that overwrote Unusable with Closing
\* returns Ok and lands nowhere; a shutdown that fails is returned as an
\* error by a close of a session the driver already marked Closed.
CloseLandsAsDocumented ==
    \A k \in Closers : cpc[k] = "done" ~>
        IF closed[k] = "Err" THEN state = "Failed" ELSE state \in Terminal

\* An error frame of a connection-fatal class makes the connection unusable,
\* and so does the loss of the transport. The frame is delivered to the call
\* whose identifier it names, the lost transport is read on, and a session
\* that met both stays usable.
FatalAndLostEnds ==
    ((\E c \in Calls : outcome[c].tag = "peerFatal") /\ net # "up")
        ~> (state # "Usable" \/ owner # "alive")

\* CommandError::is_ambiguous.
IsAmbiguous(tag) == tag \in {"Transport", "Closed", "Unusable"}

\* A call that ended without a frame of its own, in an error that is not
\* ambiguous, was not executed: a connection-fatal failure is reported with
\* the class of the offending frame to every call in flight.
UnambiguousMeansNotExecuted ==
    \A c \in executed : (pc[c] = "done" /\ outcome[c].by # c) =>
        IsAmbiguous(outcome[c].tag)

\* The driver waits in write_all for a peer that waits for the driver to read:
\* everything between them is full. Nothing but the loss of the link, or an
\* abort, ends it: the driver sees no signal, no answer and no submission.
Standoff ==
    /\ dpc = "writing" /\ Len(wire) = WireCap
    /\ Cardinality(received) = PeerWindow
    /\ Len(inbound) = InboundCap

\* With one call in flight requests are serialised, and no two sides wait for
\* each other. A dropped call returns its permit while its request is still
\* under way, so requests pile up past the bound.
SerializesWithoutDeadlock == MaxInFlight = 1 => ~Standoff

=============================================================================
