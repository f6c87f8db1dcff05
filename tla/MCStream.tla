------------------------------ MODULE MCStream ------------------------------
(* Instances of Stream for TLC.                                            *)
EXTENDS Stream

Frame(kind, code, id, metadata, mlen, plen, inner) ==
    [version |-> 0, kind |-> kind, flags |-> 0, code |-> code,
     metadata_length |-> mlen, payload_length |-> plen, request_id |-> id,
     metadata |-> metadata, inner |-> inner]

\* Answers to 1 and 2, the second with metadata and as long as the bound
\* allows; an answer refused for its metadata order; a scoped error; a fatal
\* error that names nobody, and one that names 2; a frame one byte too long.
MCFrames == {
    Frame(Response, Success, 1, "ordered", 0, 0, 0),
    Frame(Response, Success, 2, "ordered", 5, 7, 0),
    Frame(Response, Success, 1, "refused", 4, 1, 0),
    Frame(Error, 11, 2, "ordered", 0, 2, 0),
    Frame(Error, 12, 0, "ordered", 0, 2, 0),
    Frame(Error, 12, 2, "ordered", 0, 2, 0),
    Frame(Response, Success, 1, "ordered", 0, 13, 0)}

MCLimits == [frame_size |-> 32, metadata_size |-> 8]

=============================================================================
