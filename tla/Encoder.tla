------------------------------ MODULE Encoder ------------------------------
(***************************************************************************)
(* The sending half of src/protocol.rs: what encode_with_max writes, or    *)
(* why it refuses. The frames are the records that Protocol decodes.       *)
(***************************************************************************)
EXTENDS Protocol, Sequences, SequencesExt

CONSTANTS
    U16_MAX, U32_MAX,   \* the largest numbers the length fields hold
    REQUIRED            \* the first metadata identifier with the required bit

ASSUME EncoderAssumption ==
    /\ {U16_MAX, U32_MAX, REQUIRED} \subseteq Nat
    /\ U16_MAX <= U32_MAX /\ REQUIRED <= U16_MAX

-----------------------------------------------------------------------------
(* encode_payload: the length of what is written, the number at its head,  *)
(* and whether that number fits its field.                                 *)

Opaque(length, inner) == [length |-> length, inner |-> inner, fits |-> TRUE]
Warm(logicalLength) == [length |-> 8, inner |-> logicalLength, fits |-> TRUE]
ErrorPayload(detail, text) ==
    [length |-> 2 + detail + text, inner |-> detail, fits |-> detail <= U16_MAX]

(* A metadata entry is the record of its identifier and the length of its  *)
(* value.                                                                  *)

MetadataLength(entries) ==
    FoldLeft(LAMBDA sum, e : sum + 4 + e.length, 0, entries)

AscendingIds(entries) ==
    \A i \in 1 .. Len(entries) - 1 : entries[i].id < entries[i + 1].id

\* check_metadata_order, as the receiver applies it to what was written.
MetadataOrder(entries) ==
    IF AscendingIds(entries) /\ \A i \in DOMAIN entries : entries[i].id < REQUIRED
    THEN "ordered" ELSE "refused"

-----------------------------------------------------------------------------
(* encode_with_max of an outgoing frame [kind, code, request_id, metadata, *)
(* payload]. A metadata limit is a u16, so that the region's length and    *)
(* those of its values fit their fields once it is within the limit.       *)

\* checked_metadata_length_with_max, then the lengths of payload and frame.
EncodeError(o, limits) ==
    LET metadata == MetadataLength(o.metadata) IN
    IF ~AscendingIds(o.metadata) THEN "MetadataNotAscending"
    ELSE IF metadata > limits.metadata_size THEN "MetadataTooLarge"
    ELSE IF \/ ~o.payload.fits \/ o.payload.length > U32_MAX
            \/ HEADER_LENGTH + metadata + o.payload.length > limits.frame_size
         THEN "FrameTooLarge"
    ELSE "none"

\* The fields written when it does not refuse.
Encoded(o) ==
    [version |-> 0, kind |-> o.kind, flags |-> 0, code |-> o.code,
     metadata_length |-> MetadataLength(o.metadata), payload_length |-> o.payload.length,
     request_id |-> o.request_id, metadata |-> MetadataOrder(o.metadata),
     inner |-> o.payload.inner]

=============================================================================
