----------------------------- MODULE MCDecoder -----------------------------
(* Instances of Decoder and Exchange for TLC.                              *)
EXTENDS Exchange

\* Codes that are an opcode, a result and a class, or some of these, or none.
Codes == {0, 1, 2, 3, 4, 12}

MCInputs ==
    {f \in [version : {0}, kind : 1 .. 3, flags : {0}, code : Codes,
            metadata_length : {0, 3, 6}, payload_length : {0, 2, 4, 8},
            request_id : {0, 5, 6}, metadata : {"ordered", "refused", "torn"},
            inner : {0, 2}] : WellFormed(f)}
    \cup {f \in [version : {0, 1}, kind : {0, 2}, flags : {0, 1}, code : {0},
                 metadata_length : {0, 9}, payload_length : {8, 30},
                 request_id : {5}, metadata : {"ordered"}, inner : {0}] : WellFormed(f)}

MCLimits == [frame_size |-> 36, metadata_size |-> 8]

MCAdmissions ==
    [role : {"Client", "Server"}, state : {"PreNegotiation", "Negotiated", "Terminal"},
     limits : {MCLimits}, in_flight : {{5, 7}}]

\* Empty and other keys and values, one of which fills the largest frame, one
\* exceeds it and one exceeds the length field.
MCRequests ==
    {Ping}
    \cup [opcode : {GET_OPCODE, DEL_OPCODE, EXISTS_OPCODE}, key : {0, 2}, value : {0}]
    \cup [opcode : {SET_OPCODE}, key : {0, 2}, value : {0, 1, 10, 11, 40}]

MCCells ==
    {None, [form |-> "other", length |-> 0], [form |-> "warm", length |-> 9]}
    \cup [form : {"bytes"}, length : {0, 2}]

\* None, an entry to ignore, one that must be understood, and one too many.
MCAnswerMetadata ==
    {<<>>, <<[id |-> 1, length |-> 2]>>, <<[id |-> 4, length |-> 0]>>,
     <<[id |-> 1, length |-> 0], [id |-> 2, length |-> 1]>>}

=============================================================================
