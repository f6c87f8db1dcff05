----------------------------- MODULE RequestIds -----------------------------
(***************************************************************************)
(* Request identity of one connection: the allocator that hands out        *)
(* identifiers and the registry of the identifiers in flight               *)
(* (src/connection/dispatch.rs).                                           *)
(*                                                                         *)
(* The code counts in a u64; here the count wraps at IdModulus, so that a  *)
(* small instance reaches the wrap.                                        *)
(***************************************************************************)
EXTENDS Naturals

CONSTANT IdModulus

ASSUME IdModulusAssumption == IdModulus \in Nat /\ IdModulus >= 2

\* Every value of the identifier field; 0 names no request.
WireIds == 0 .. (IdModulus - 1)
RequestId == WireIds \ {0}

(***************************************************************************)
(* RequestIdAllocator::allocate: the identifier handed out when the count  *)
(* is `next`, and the count it leaves behind.                              *)
(***************************************************************************)
AllocatedId(next) == IF next = 0 THEN 1 ELSE next

\* Mutant of NextAfter: the reserved 0 is not skipped at the wrap.
NextAfterUnreserved(next) == (AllocatedId(next) + 1) % IdModulus

NextAfter(next) ==
    LET advanced == (AllocatedId(next) + 1) % IdModulus
    IN  IF advanced = 0 THEN 1 ELSE advanced

\* The count of a new session: the second allocator skips the identifier 1
\* that the handshake used.
FirstAfterHandshake == NextAfter(1)

\* InFlightRegistry::insert succeeds exactly for these identifiers.
Admissible(live, id) == id # 0 /\ id \notin live

=============================================================================
