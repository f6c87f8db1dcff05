------------------------------ MODULE Decoder ------------------------------
(***************************************************************************)
(* A receiver that calls decode again and again while the bytes of a       *)
(* frame, and of what follows it, arrive in pieces of any size: what       *)
(* drain_frames (src/connection/driver.rs) and read_handshake_response     *)
(* (src/connection/mod.rs) rely on.                                        *)
(***************************************************************************)
EXTENDS Protocol

CONSTANTS
    Inputs,      \* the frames a peer may send
    Admissions,  \* the contexts a receiver may decode under
    MaxBytes     \* the longest buffer

\* A region shorter than one entry head cannot be cut into entries.
WellFormed(f) ==
    /\ {f.metadata_length, f.payload_length, f.request_id, f.inner} \subseteq Nat
    /\ f.metadata_length = 0 => f.metadata = "ordered"
    /\ f.metadata_length \in 1 .. 3 => f.metadata = "torn"

ASSUME InputsAssumption ==
    /\ \A f \in Inputs : WellFormed(f)
    /\ Admissions \subseteq
           [role : {"Client", "Server"}, state : {"PreNegotiation", "Negotiated", "Terminal"},
            limits : [frame_size : Nat, metadata_size : Nat], in_flight : SUBSET Nat]
    /\ MaxBytes \in Nat

VARIABLES
    frame,      \* the frame at the head of the buffer
    admission,  \* the context
    have        \* the bytes in the buffer

vars == <<frame, admission, have>>

Init == frame \in Inputs /\ admission \in Admissions /\ have = 0

\* One byte more; a read of several is several of these.
Receive ==
    /\ have < MaxBytes
    /\ have' = have + 1
    /\ UNCHANGED <<frame, admission>>

Spec == Init /\ [][Receive]_vars

-----------------------------------------------------------------------------
(* Properties *)

Verdict == Decode(frame, have, admission)

\* What decode answers, once it answers, does not depend on how many more
\* bytes were read: a frame refused by its header is refused, and never
\* admitted, when the rest of it arrives.
VerdictStable ==
    [][<<frame, admission>>' = <<frame, admission>> /\ Verdict.step # "Need"
           => Verdict'.step = Verdict.step]_vars

\* decode asks for a length it does not have, that no shorter buffer could
\* replace, and never for more than the frame limit: the buffer of a
\* receiver stays bounded and a reader that waits for exactly that many
\* bytes never waits for the next frame's.
NeedIsExact ==
    Verdict.step = "Need" =>
        /\ have < Verdict.bytes
        /\ Verdict.bytes = HEADER_LENGTH \/ Verdict.bytes <= admission.limits.frame_size
        /\ Decode(frame, Verdict.bytes - 1, admission).step = "Need"
        /\ Verdict.bytes > HEADER_LENGTH =>
               Decode(frame, Verdict.bytes, admission).step # "Need"

\* A frame that leaves the session usable, admitted or refused for one
\* request, tells the driver its exact length: the next frame starts where
\* this one ends (drain_frames drains `consumed` bytes).
KeepsInSync ==
    Verdict.step \in RequestScoped \cup {"Frame"} =>
        Verdict.bytes = TotalLength(frame) /\ Verdict.bytes <= have

\* A frame the driver admitted among many requests in flight is admitted
\* again by decode_own, which decodes it alone with its own identifier in
\* flight.
OwnDecodeAgrees ==
    Verdict.step = "Frame" /\ admission.role = "Client" =>
        LET own == [admission EXCEPT !.in_flight = {frame.request_id}]
        IN  Decode(frame, TotalLength(frame), own) = Verdict

=============================================================================
