---------------------------- MODULE MCHandshake ----------------------------
(* Instances of Handshake for TLC; the sizes 65536, 4096 and 4096 are      *)
(* scaled to 40, 6 and READ_CHUNK.                                         *)
EXTENDS Handshake

\* The builders of ConnectionConfig, at both sides of every floor.
Config(empty, desired, frame, metadata, inFlight) ==
    [NewConfig(empty) EXCEPT !.desired = desired, !.local_frame = frame,
                             !.local_metadata = metadata, !.in_flight = inFlight]

MCConfigs ==
    {NewConfig(FALSE)}
    \cup {Config(FALSE, 50, f, m, 1) : f \in {40, 50}, m \in {6, 7}}
    \cup {Config(e, d, f, m, n) : e \in BOOLEAN, d \in {39, 40}, f \in {39, 40},
                                 m \in {5, 6}, n \in {0, 1}}

Good == [torn |-> FALSE, capabilities |-> <<>>, count |-> 0, version |-> 0,
         frame_size |-> 40, metadata_size |-> 6]

\* Payloads that break one rule each, and the boundaries of the sizes.
Bodies ==
    [torn : {FALSE}, capabilities : {<<>>}, count : {0}, version : {0},
     frame_size : {39, 40, 50, 51}, metadata_size : {5, 6, 7, 8}]
    \cup {[Good EXCEPT !.torn = TRUE], [Good EXCEPT !.count = 1],
          [Good EXCEPT !.version = 1], [Good EXCEPT !.version = 256],
          [Good EXCEPT !.capabilities = <<3>>, !.count = 1],
          [Good EXCEPT !.capabilities = <<3, 3>>, !.count = 2]}

Answer(kind, code, id, mlen, metadata, plen) ==
    [version |-> 0, kind |-> kind, flags |-> 0, code |-> code,
     metadata_length |-> mlen, payload_length |-> plen, request_id |-> id,
     metadata |-> metadata, inner |-> 0]

\* A response without metadata; responses that are the longest allowed, one
\* byte more, or too short; wrong identifier, code or metadata; errors.
MCReplies ==
    {[frame |-> Answer(Response, Success, 1, 0, "ordered", 10 + 4 * b.count), body |-> b] :
        b \in Bodies}
    \cup {[frame |-> f, body |-> Good] : f \in {
        Answer(Response, Success, 1, 6, "ordered", 14),
        Answer(Response, Success, 1, 6, "ordered", 15),
        Answer(Response, Success, 1, 0, "ordered", 9),
        Answer(Response, Success, 2, 0, "ordered", 10),
        Answer(Response, Absent, 1, 0, "ordered", 0),
        Answer(Response, Success, 1, 4, "refused", 10),
        Answer(Response, Success, 1, 3, "torn", 10),
        Answer(Error, 2, 0, 0, "ordered", 2),
        Answer(Error, 8, 1, 0, "ordered", 2),
        Answer(Error, 8, 0, 0, "ordered", 2),
        Answer(Request, 3, 1, 0, "ordered", 0)}}

=============================================================================
