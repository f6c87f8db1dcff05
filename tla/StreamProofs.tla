---------------------------- MODULE StreamProofs ----------------------------
(***************************************************************************)
(* That the read side of the driver keeps its place in the byte stream and *)
(* implements FrameOrder, for every set of frames, every number of them,   *)
(* every size a read may have and all limits.                              *)
(***************************************************************************)
EXTENDS Stream, SequenceTheorems, WellFoundedInduction, TLAPS

(* Induction on the natural numbers, for sets instead of predicates. *)
LEMMA SetInduction ==
    ASSUME NEW S, 0 \in S, \A n \in Nat : n \in S => n + 1 \in S
    PROVE  \A n \in Nat : n \in S
<1> SUFFICES ASSUME Nat \ S # {} PROVE FALSE
  OBVIOUS
<1> DEFINE R == {p \in Nat \X Nat : p[1] < p[2]}
<1>1. IsWellFoundedOn(R, Nat)
  BY NatLessThanWellFounded DEF OpToRel
<1>2. Nat \ S \subseteq Nat
  OBVIOUS
<1>3. PICK x \in Nat \ S : \A y \in Nat \ S : ~(<<y, x>> \in R)
  BY <1>1, <1>2, WFMin
<1>4. x \in Nat /\ x # 0 /\ x - 1 \in Nat /\ x - 1 < x
  OBVIOUS
<1>5. <<x - 1, x>> \in R
  BY <1>4
<1>6. x - 1 \in S
  BY <1>3, <1>4, <1>5
<1> QED  BY <1>4, <1>6

-----------------------------------------------------------------------------
(* The ends of the frames in the byte stream. *)

\* b has the length of every prefix of the frames s.
Sums(s, b) ==
    b = [n \in 0 .. Len(s) |-> IF n = 0 THEN 0 ELSE b[n - 1] + TotalLength(s[n])]

Table(s) == CHOOSE b : Sums(s, b)

LEMMA BoundaryIsTable == \A k : Boundary(k) = Table(stream)[k]
BY Zenon DEF Boundary, Table, Sums

LEMMA LengthType ==
    ASSUME NEW f \in Frames
    PROVE  TotalLength(f) \in Nat /\ TotalLength(f) >= HEADER_LENGTH /\ HEADER_LENGTH = 20
BY StreamAssumption DEF TotalLength, HEADER_LENGTH

\* The recursion of Boundary defines a function.
LEMMA TableExists ==
    ASSUME NEW s \in Seq(Frames)
    PROVE  Sums(s, Table(s))
<1> DEFINE Upto(b, n) == b = [m \in 0 .. n |-> IF m = 0 THEN 0 ELSE b[m - 1] + TotalLength(s[m])]
           S == {n \in Nat : \E b : Upto(b, n)}
<1>1. 0 \in S
  <2>1. Upto([m \in 0 .. 0 |-> 0], 0)
    OBVIOUS
  <2> QED  BY <2>1
<1>2. ASSUME NEW n \in Nat, n \in S
      PROVE  n + 1 \in S
  <2>1. PICK b : Upto(b, n)
    BY <1>2
  <2> DEFINE c == [m \in 0 .. n + 1 |-> IF m = n + 1 THEN b[n] + TotalLength(s[m]) ELSE b[m]]
  <2>2. \A m \in 0 .. n + 1 : c[m] = IF m = 0 THEN 0 ELSE c[m - 1] + TotalLength(s[m])
    BY <2>1
  <2>3. Upto(c, n + 1)
    BY <2>2
  <2> HIDE DEF c, Upto
  <2>4. \E a : Upto(a, n + 1)
    BY Zenon, <2>3
  <2>5. n + 1 \in Nat
    OBVIOUS
  <2> QED  BY Zenon, <2>4, <2>5
<1>3. Len(s) \in S
  <2> HIDE DEF S
  <2>1. \A n \in Nat : n \in S
    BY Zenon, <1>1, <1>2, SetInduction
  <2> QED  BY Zenon, <2>1, LenProperties
<1>4. \E b : Sums(s, b)
  BY <1>3 DEF Sums
<1> QED  BY Zenon, <1>4 DEF Table

LEMMA TableUnfolds ==
    ASSUME NEW s \in Seq(Frames)
    PROVE  /\ Table(s)[0] = 0
           /\ \A n \in 1 .. Len(s) : Table(s)[n] = Table(s)[n - 1] + TotalLength(s[n])
<1>1. Len(s) \in Nat
  BY LenProperties
<1>2. \A n \in 0 .. Len(s) :
         Table(s)[n] = IF n = 0 THEN 0 ELSE Table(s)[n - 1] + TotalLength(s[n])
  BY Zenon, TableExists DEF Sums
<1> QED  BY <1>1, <1>2

LEMMA TableType ==
    ASSUME NEW s \in Seq(Frames), NEW n \in 0 .. Len(s)
    PROVE  Table(s)[n] \in Nat
<1> DEFINE S == {k \in Nat : k <= Len(s) => Table(s)[k] \in Nat}
<1>1. Len(s) \in Nat /\ \A k \in 1 .. Len(s) : TotalLength(s[k]) \in Nat
  BY LenProperties, ElementOfSeq, LengthType
<1>2. 0 \in S
  BY TableUnfolds
<1>3. ASSUME NEW k \in Nat, k \in S
      PROVE  k + 1 \in S
  <2>1. CASE k + 1 <= Len(s)
    <3>1. k + 1 \in 1 .. Len(s) /\ Table(s)[k] \in Nat /\ (k + 1) - 1 = k
      BY <1>1, <1>3, <2>1
    <3> QED  BY <1>1, <3>1, TableUnfolds
  <2> QED  BY <1>1, <2>1
<1>4. n \in S
  <2> HIDE DEF S
  <2>1. n \in Nat
    BY <1>1
  <2>2. \A k \in Nat : k \in S
    BY Zenon, <1>2, <1>3, SetInduction
  <2> QED  BY Zenon, <2>1, <2>2
<1> QED  BY <1>1, <1>4

\* Every frame has a length of its own.
LEMMA TableGrows ==
    ASSUME NEW s \in Seq(Frames), NEW m \in 0 .. Len(s), NEW n \in 0 .. Len(s), m < n
    PROVE  Table(s)[m] < Table(s)[n]
<1> DEFINE S == {k \in Nat : k <= Len(s) /\ m < k => Table(s)[m] < Table(s)[k]}
<1>1. Len(s) \in Nat /\ \A k \in 1 .. Len(s) : TotalLength(s[k]) \in Nat \ {0}
  BY LenProperties, ElementOfSeq, LengthType
<1>2. 0 \in S
  BY <1>1
<1>3. ASSUME NEW k \in Nat, k \in S
      PROVE  k + 1 \in S
  <2>1. CASE k + 1 <= Len(s) /\ m < k + 1
    <3>1. /\ k + 1 \in 1 .. Len(s) /\ k \in 0 .. Len(s) /\ (k + 1) - 1 = k
          /\ m = k \/ Table(s)[m] < Table(s)[k]
      BY <1>1, <1>3, <2>1
    <3>2. Table(s)[k] \in Nat /\ Table(s)[m] \in Nat
      BY <3>1, TableType
    <3>3. Table(s)[k + 1] = Table(s)[k] + TotalLength(s[k + 1])
      BY <3>1, TableUnfolds
    <3> QED  BY <1>1, <3>1, <3>2, <3>3
  <2> QED  BY <1>1, <2>1
<1>4. n \in S
  <2> HIDE DEF S
  <2>1. n \in Nat
    BY <1>1
  <2>2. \A k \in Nat : k \in S
    BY Zenon, <1>2, <1>3, SetInduction
  <2> QED  BY Zenon, <2>1, <2>2
<1> QED  BY <1>1, <1>4

\* A frame more does not move the frames before it.
LEMMA TableAppend ==
    ASSUME NEW s \in Seq(Frames), NEW f \in Frames, NEW n \in 0 .. Len(s)
    PROVE  Table(Append(s, f))[n] = Table(s)[n]
<1> DEFINE t == Append(s, f)
           S == {k \in Nat : k <= Len(s) => Table(t)[k] = Table(s)[k]}
<1>1. /\ Len(s) \in Nat /\ t \in Seq(Frames) /\ Len(t) = Len(s) + 1
      /\ \A k \in 1 .. Len(s) : t[k] = s[k]
  BY LenProperties, AppendProperties
<1> HIDE DEF t
<1>2. 0 \in S
  BY <1>1, TableUnfolds
<1>3. ASSUME NEW k \in Nat, k \in S
      PROVE  k + 1 \in S
  <2>1. CASE k + 1 <= Len(s)
    <3>1. k + 1 \in 1 .. Len(s) /\ k + 1 \in 1 .. Len(t) /\ (k + 1) - 1 = k
          /\ Table(t)[k] = Table(s)[k]
      BY <1>1, <1>3, <2>1
    <3>2. /\ Table(s)[k + 1] = Table(s)[k] + TotalLength(s[k + 1])
          /\ Table(t)[k + 1] = Table(t)[k] + TotalLength(t[k + 1])
      BY <1>1, <3>1, TableUnfolds
    <3> QED  BY <1>1, <3>1, <3>2
  <2> QED  BY <1>1, <2>1
<1>4. n \in S
  <2> HIDE DEF S
  <2>1. n \in Nat
    BY <1>1
  <2>2. \A k \in Nat : k \in S
    BY Zenon, <1>2, <1>3, SetInduction
  <2> QED  BY Zenon, <2>1, <2>2
<1> QED  BY <1>1, <1>4 DEF t

-----------------------------------------------------------------------------
(* What decode makes of the head of the buffer. *)

\* The first n bytes of a frame do not decide about it.
Partial(f, n) ==
    \/ n < HEADER_LENGTH
    \/ HeaderVerdict(f, Limits) = "ok" /\ n < TotalLength(f)

LEMMA VerdictNames ==
    ASSUME NEW f, NEW a
    PROVE  /\ HeaderVerdict(f, a.limits) \in ConnectionFatal \cup {"ok"}
           /\ BodyVerdict(f, a) \in ConnectionFatal \cup RequestScoped \cup {"Frame"}
BY DEF HeaderVerdict, BodyVerdict, Correlate, ConnectionFatal, RequestScoped

\* decode waits exactly while the bytes are partial, decides then as on the
\* whole frame, and a frame it leaves the session usable after is whole.
LEMMA DecodeDecides ==
    ASSUME NEW f \in Frames, NEW n \in Nat, NEW a, a.limits = Limits
    PROVE  LET d == Decode(f, n, a)
               whole == Decode(f, TotalLength(f), a)
           IN  /\ d.step = "Need" <=> Partial(f, n)
               /\ d.step \in ConnectionFatal \cup RequestScoped \cup {"Frame", "Need"}
               /\ d.step # "Need" => whole.step = d.step
               /\ d.step \in RequestScoped \cup {"Frame"} =>
                      d.bytes = TotalLength(f) /\ TotalLength(f) <= n
<1> DEFINE header == HeaderVerdict(f, Limits)
           body == BodyVerdict(f, a)
           total == TotalLength(f)
<1>1. total \in Nat /\ total >= HEADER_LENGTH /\ HEADER_LENGTH = 20
  BY LengthType
<1>2. /\ header \in ConnectionFatal \cup {"ok"}
      /\ body \in ConnectionFatal \cup RequestScoped \cup {"Frame"}
  BY VerdictNames
<1>3. /\ "Need" \notin ConnectionFatal \cup RequestScoped /\ "ok" \notin ConnectionFatal
      /\ ConnectionFatal \cap RequestScoped = {} /\ "Frame" \notin ConnectionFatal
      /\ "Frame" \notin RequestScoped
  BY DEF ConnectionFatal, RequestScoped
<1>4. ASSUME NEW k \in Nat
      PROVE  /\ k < HEADER_LENGTH => Decode(f, k, a).step = "Need"
             /\ k >= HEADER_LENGTH /\ header # "ok" => Decode(f, k, a).step = header
             /\ k >= HEADER_LENGTH /\ header = "ok" /\ k < total => Decode(f, k, a).step = "Need"
             /\ k >= HEADER_LENGTH /\ header = "ok" /\ k >= total =>
                   /\ Decode(f, k, a).step = body
                   /\ body \in RequestScoped \cup {"Frame"} => Decode(f, k, a).bytes = total
  <2> HIDE DEF header, body, total
  <2>1. CASE k < HEADER_LENGTH
    BY <1>1, <2>1 DEF Decode, Need
  <2>2. CASE k >= HEADER_LENGTH /\ header # "ok"
    BY <1>1, <2>2 DEF Decode, Refused, header
  <2>3. CASE k >= HEADER_LENGTH /\ header = "ok" /\ k < total
    BY <1>1, <2>3 DEF Decode, Need, header, total
  <2>4. CASE k >= HEADER_LENGTH /\ header = "ok" /\ k >= total
    BY <1>1, <1>3, <2>4 DEF Decode, Admitted, Refused, header, body, total
  <2> QED  BY <1>1, <2>1, <2>2, <2>3, <2>4
<1> HIDE DEF header, body, total
<1>5. Partial(f, n) <=> n < HEADER_LENGTH \/ (header = "ok" /\ n < total)
  BY Zenon DEF Partial, header, total
<1>6. CASE Partial(f, n)
  BY <1>1, <1>3, <1>4, <1>5, <1>6
<1>7. CASE ~Partial(f, n)
  <2>1. n >= HEADER_LENGTH /\ (header = "ok" => n >= total)
    BY <1>1, <1>5, <1>7
  <2>2. CASE header # "ok"
    <3>1. Decode(f, n, a).step = header /\ Decode(f, total, a).step = header
      BY <1>1, <1>4, <2>1, <2>2
    <3> QED  BY <1>2, <1>3, <1>7, <2>2, <3>1 DEF total
  <2>3. CASE header = "ok"
    <3>1. /\ Decode(f, n, a).step = body /\ Decode(f, total, a).step = body
          /\ body \in RequestScoped \cup {"Frame"} => Decode(f, n, a).bytes = total
      BY <1>1, <1>4, <2>1, <2>3
    <3> QED  BY <1>2, <1>3, <1>7, <2>1, <2>3, <3>1 DEF total
  <2> QED  BY <2>2, <2>3
<1> QED  BY <1>6, <1>7

-----------------------------------------------------------------------------
(* The place in the stream. Aligned is not inductive: that a frame is      *)
(* drained whole needs all of it to have arrived, and that DrainFrame      *)
(* takes the next frame needs the frames drained to be those in the log.   *)
(* NothingLeft and BufferBounded need what drain_frames knows of the       *)
(* buffer when it returns: that its head is partial.                       *)

Dispatches == {<<f.request_id, step>> : f \in Frames, step \in RequestScoped \cup {"Frame"}}

StreamInv ==
    /\ stream \in Seq(Frames) /\ log \in Seq(Dispatches)
    /\ arrived \in Nat /\ dpc \in {"select", "drain", "ended"}
    /\ Len(log) <= Len(stream)
    /\ drained = Boundary(Len(log))
    /\ drained <= arrived /\ arrived <= Boundary(Len(stream))
    /\ dpc = "select" /\ drained # arrived => Partial(stream[Len(log) + 1], arrived - drained)

LEMMA BoundaryNext == \A k : Boundary(k)' = Table(stream')[k]
BY Zenon DEF Boundary, Table, Sums

\* What the invariant says of lengths.
LEMMA StreamTypes ==
    ASSUME StreamInv
    PROVE  /\ Len(stream) \in Nat /\ Len(log) \in Nat /\ Len(log) \in 0 .. Len(stream)
           /\ \A k \in 0 .. Len(stream) : Boundary(k) \in Nat
           /\ drained \in Nat
           /\ \A k \in 1 .. Len(stream) :
                 stream[k] \in Frames /\ Boundary(k) = Boundary(k - 1) + TotalLength(stream[k])
<1>1. stream \in Seq(Frames) /\ log \in Seq(Dispatches) /\ Len(log) <= Len(stream)
      /\ drained = Boundary(Len(log))
  BY Zenon DEF StreamInv
<1>2. Len(stream) \in Nat /\ Len(log) \in Nat
  BY Zenon, <1>1, LenProperties
<1>3. Len(log) \in 0 .. Len(stream)
  BY <1>1, <1>2
<1>4. \A k \in 0 .. Len(stream) : Boundary(k) \in Nat
  BY Zenon, <1>1, BoundaryIsTable, TableType
<1>5. \A k \in 1 .. Len(stream) : stream[k] \in Frames
  BY Zenon, <1>1, ElementOfSeq
<1>6. \A k \in 1 .. Len(stream) : Boundary(k) = Boundary(k - 1) + TotalLength(stream[k])
  BY Zenon, <1>1, BoundaryIsTable, TableUnfolds
<1> QED  BY Zenon, <1>1, <1>2, <1>3, <1>4, <1>5, <1>6

\* The frame at the head of the buffer is the next one.
LEMMA HeadOfBuffer ==
    ASSUME StreamInv, NEW k \in 1 .. Len(stream), Boundary(k - 1) = drained
    PROVE  k = Len(log) + 1
<1>1. /\ stream \in Seq(Frames) /\ Len(stream) \in Nat /\ Len(log) \in 0 .. Len(stream)
      /\ Boundary(Len(log)) = drained
  BY Zenon, StreamTypes DEF StreamInv
<1>2. k - 1 \in 0 .. Len(stream)
  BY <1>1
<1>3. \A n \in 0 .. Len(stream) : Boundary(n) = Table(stream)[n] /\ Table(stream)[n] \in Nat
  BY Zenon, <1>1, BoundaryIsTable, TableType
<1>4. ~(k - 1 < Len(log))
  <2> SUFFICES ASSUME k - 1 < Len(log) PROVE FALSE
    OBVIOUS
  <2>1. Table(stream)[k - 1] < Table(stream)[Len(log)]
    BY Zenon, <1>1, <1>2, TableGrows
  <2> QED  BY <1>1, <1>2, <1>3, <2>1
<1>5. ~(Len(log) < k - 1)
  <2> SUFFICES ASSUME Len(log) < k - 1 PROVE FALSE
    OBVIOUS
  <2>1. Table(stream)[Len(log)] < Table(stream)[k - 1]
    BY Zenon, <1>1, <1>2, TableGrows
  <2> QED  BY <1>1, <1>2, <1>3, <2>1
<1> QED  BY <1>1, <1>4, <1>5

\* Bytes in the buffer belong to a frame that was sent.
LEMMA BufferedBelongs ==
    ASSUME StreamInv, drained # arrived
    PROVE  Len(log) + 1 \in 1 .. Len(stream)
<1>1. /\ Len(stream) \in Nat /\ Len(log) \in 0 .. Len(stream)
      /\ drained = Boundary(Len(log)) /\ drained <= arrived /\ arrived <= Boundary(Len(stream))
      /\ arrived \in Nat /\ drained \in Nat
  BY Zenon, StreamTypes DEF StreamInv
<1>2. Len(log) # Len(stream)
  BY <1>1
<1> QED  BY <1>1, <1>2

LEMMA StreamInit == Init => StreamInv
<1> SUFFICES ASSUME Init PROVE StreamInv
  OBVIOUS
<1>1. stream = <<>> /\ log = <<>> /\ arrived = 0 /\ drained = 0 /\ dpc = "select"
  BY DEF Init
<1>2. stream \in Seq(Frames) /\ log \in Seq(Dispatches) /\ Len(stream) = 0 /\ Len(log) = 0
  BY <1>1
<1>3. Boundary(0) = 0
  BY Zenon, <1>2, BoundaryIsTable, TableUnfolds
<1> QED  BY <1>1, <1>2, <1>3 DEF StreamInv

\* What DrainFrame does with the next frame.
LEMMA DrainCases ==
    ASSUME StreamInv, DrainFrame
    PROVE  LET f == stream[Len(log) + 1]
               n == arrived - drained
               c == [role |-> "Client", state |-> "Negotiated",
                     limits |-> Limits, in_flight |-> live]
               step == Decode(f, TotalLength(f), c).step
           IN  /\ dpc = "drain" /\ UNCHANGED <<stream, arrived>>
               /\ \/ /\ drained # arrived => Partial(f, n)
                     /\ dpc' = "select" /\ UNCHANGED <<live, log, drained>>
                  \/ /\ Len(log) + 1 \in 1 .. Len(stream)
                     /\ step \in RequestScoped \cup {"Frame"} /\ f.request_id \in live
                     /\ live' = live \ {f.request_id} /\ dpc' = dpc
                     /\ log' = Append(log, <<f.request_id, step>>)
                     /\ drained' = drained + TotalLength(f) /\ TotalLength(f) <= n
                  \/ /\ Len(log) + 1 \in 1 .. Len(stream)
                     /\ step \in ConnectionFatal \/ f.request_id \notin live
                     /\ dpc' = "ended" /\ live' = {} /\ UNCHANGED <<log, drained>>
<1> DEFINE f == stream[Len(log) + 1]
           n == arrived - drained
           c == [role |-> "Client", state |-> "Negotiated", limits |-> Limits, in_flight |-> live]
           d == Decode(f, n, c)
           Turn(k) ==
             /\ n > 0 /\ Boundary(k - 1) = drained
             /\ LET g == stream[k]
                    verdict == Decode(g, n, c)
                IN  \/ /\ verdict.step = "Need"
                       /\ dpc' = "select" /\ UNCHANGED <<live, log, drained>>
                    \/ /\ verdict.step = "Frame" /\ g.request_id \in live
                       /\ Drained(g, verdict.step, FrameTotalLen(g))
                    \/ /\ verdict.step \in RequestScoped /\ g.request_id \in live
                       /\ Drained(g, verdict.step, verdict.bytes)
                    \/ /\ verdict.step # "Need"
                       /\ verdict.step \in ConnectionFatal \/ g.request_id \notin live
                       /\ SessionEnds
<1>1. /\ arrived \in Nat /\ drained \in Nat /\ drained <= arrived /\ n \in Nat
  BY StreamTypes DEF StreamInv
<1>2. dpc = "drain" /\ UNCHANGED <<stream, arrived>>
  BY Zenon DEF DrainFrame
<1>3. CASE n = 0 /\ dpc' = "select" /\ UNCHANGED <<live, log, drained>>
  <2>1. drained = arrived
    BY <1>1, <1>3
  <2> QED  BY Zenon, <1>2, <1>3, <2>1
<1>4. ASSUME NEW k \in 1 .. Len(stream), Turn(k)
      PROVE  /\ Len(log) + 1 \in 1 .. Len(stream)
             /\ \/ /\ Partial(f, n)
                   /\ dpc' = "select" /\ UNCHANGED <<live, log, drained>>
                \/ /\ Decode(f, TotalLength(f), c).step \in RequestScoped \cup {"Frame"}
                   /\ f.request_id \in live
                   /\ live' = live \ {f.request_id} /\ dpc' = dpc
                   /\ log' = Append(log, <<f.request_id, Decode(f, TotalLength(f), c).step>>)
                   /\ drained' = drained + TotalLength(f) /\ TotalLength(f) <= n
                \/ /\ Decode(f, TotalLength(f), c).step \in ConnectionFatal
                         \/ f.request_id \notin live
                   /\ dpc' = "ended" /\ live' = {} /\ UNCHANGED <<log, drained>>
  <2>1. k = Len(log) + 1 /\ f \in Frames /\ stream[k] = f
    BY Zenon, <1>4, HeadOfBuffer, StreamTypes
  <2>2. c.limits = Limits
    OBVIOUS
  <2> HIDE DEF f, n, c
  <2>3. /\ d.step = "Need" <=> Partial(f, n)
        /\ d.step # "Need" => Decode(f, TotalLength(f), c).step = d.step
        /\ d.step \in RequestScoped \cup {"Frame"} => d.bytes = TotalLength(f) /\ TotalLength(f) <= n
    BY <1>1, <2>1, <2>2, DecodeDecides
  <2>4. "Need" \notin RequestScoped \cup {"Frame"}
    BY DEF RequestScoped
  <2>5. FrameTotalLen(f) = TotalLength(f)
    BY Zenon DEF FrameTotalLen, TotalLength
  <2> QED  BY Zenon, <1>4, <2>1, <2>3, <2>4, <2>5 DEF Drained, Retired, SessionEnds
<1>5. \/ n = 0 /\ dpc' = "select" /\ UNCHANGED <<live, log, drained>>
      \/ \E k \in 1 .. Len(stream) : Turn(k)
  BY Zenon DEF DrainFrame
<1> HIDE DEF Turn
<1> QED  BY Zenon, <1>2, <1>3, <1>4, <1>5

LEMMA StreamNext == StreamInv /\ [Next]_vars => StreamInv'
<1> SUFFICES ASSUME StreamInv, [Next]_vars PROVE StreamInv'
  OBVIOUS
<1>1. /\ stream \in Seq(Frames) /\ log \in Seq(Dispatches) /\ arrived \in Nat /\ drained \in Nat
      /\ drained = Boundary(Len(log)) /\ drained <= arrived /\ arrived <= Boundary(Len(stream))
      /\ Len(stream) \in Nat /\ Len(log) \in Nat /\ Len(log) \in 0 .. Len(stream)
      /\ \A k \in 0 .. Len(stream) : Boundary(k) \in Nat
  BY Zenon, StreamTypes DEF StreamInv
<1>2. ASSUME stream' = stream PROVE \A k : Boundary(k)' = Boundary(k)
  BY Zenon, <1>2, BoundaryIsTable, BoundaryNext
<1>3. CASE UNCHANGED <<stream, arrived, drained, log, dpc>>
  BY Zenon, <1>2, <1>3 DEF StreamInv
<1>4. ASSUME NEW f \in Frames, PeerSend(f) PROVE StreamInv'
  <2>1. stream' = Append(stream, f) /\ UNCHANGED <<arrived, drained, log, dpc>>
    BY Zenon, <1>4 DEF PeerSend
  <2>2. /\ stream' \in Seq(Frames) /\ Len(stream') = Len(stream) + 1
        /\ \A k \in 1 .. Len(stream) : stream'[k] = stream[k]
    BY <1>1, <2>1, AppendProperties
  <2>3. \A k \in 0 .. Len(stream) : Boundary(k)' = Boundary(k)
    BY Zenon, <1>1, <2>1, BoundaryIsTable, BoundaryNext, TableAppend
  <2>4. Boundary(Len(stream)) <= Table(stream')[Len(stream')] /\ Table(stream')[Len(stream')] \in Nat
    <3>1. /\ Len(stream) \in 0 .. Len(stream') /\ Len(stream') \in 0 .. Len(stream')
          /\ Len(stream) < Len(stream')
      BY <1>1, <2>2
    <3>2. Table(stream')[Len(stream)] < Table(stream')[Len(stream')]
      BY Zenon, <2>2, <3>1, TableGrows
    <3>3. Table(stream')[Len(stream)] \in Nat /\ Table(stream')[Len(stream')] \in Nat
      BY Zenon, <2>2, <3>1, TableType
    <3>4. Boundary(Len(stream)) = Table(stream')[Len(stream)]
      <4>1. Len(stream) \in 0 .. Len(stream)
        BY <1>1
      <4> QED  BY Zenon, <2>3, <4>1, BoundaryNext
    <3> QED  BY <3>2, <3>3, <3>4
  <2>5. Boundary(Len(stream))' = Table(stream')[Len(stream')]
    BY Zenon DEF Boundary, Table, Sums
  <2>6. arrived' <= Boundary(Len(stream))'
    <3>1. Boundary(Len(stream)) \in Nat
      <4>1. Len(stream) \in 0 .. Len(stream)
        BY <1>1
      <4> QED  BY Zenon, <1>1, <4>1
    <3> QED  BY <1>1, <2>1, <2>4, <2>5, <3>1
  <2>7. drained' = Boundary(Len(log))'
    BY Zenon, <1>1, <2>1, <2>3, BoundaryNext
  <2>8. ASSUME dpc' = "select", drained' # arrived'
        PROVE  Partial(stream[Len(log) + 1], arrived - drained)'
    <3>1. Len(log) + 1 \in 1 .. Len(stream)
      BY Zenon, <2>1, <2>8, BufferedBelongs
    <3>2. Partial(stream[Len(log) + 1], arrived - drained)
      BY Zenon, <2>1, <2>8 DEF StreamInv
    <3> QED  BY Zenon, <2>1, <2>2, <3>1, <3>2 DEF Partial
  <2>9. Len(log') <= Len(stream')
    BY <1>1, <2>1, <2>2
  <2> QED  BY Zenon, <1>1, <2>1, <2>2, <2>6, <2>7, <2>8, <2>9 DEF StreamInv
<1>5. ASSUME NEW n \in ChunkSizes, ReadChunk(n) PROVE StreamInv'
  <2>1. /\ UNCHANGED <<stream, drained, log>> /\ dpc' = "drain"
        /\ arrived < Boundary(Len(stream))
        /\ arrived' = IF arrived + n < Boundary(Len(stream))
                      THEN arrived + n ELSE Boundary(Len(stream))
    BY Zenon, <1>5 DEF ReadChunk
  <2>2. n \in Nat /\ Boundary(Len(stream)) \in Nat
    BY <1>1, StreamAssumption
  <2>3. arrived' \in Nat /\ drained' <= arrived' /\ arrived' <= Boundary(Len(stream))
    BY <1>1, <2>1, <2>2
  <2>4. Boundary(Len(stream))' = Boundary(Len(stream)) /\ Boundary(Len(log))' = Boundary(Len(log))
    BY Zenon, <1>2, <2>1
  <2> QED  BY Zenon, <1>1, <2>1, <2>3, <2>4 DEF StreamInv
<1>6. CASE DrainFrame
  <2> DEFINE f == stream[Len(log) + 1]
             step == Decode(f, TotalLength(f),
                            [role |-> "Client", state |-> "Negotiated",
                             limits |-> Limits, in_flight |-> live]).step
  <2>1. /\ UNCHANGED <<stream, arrived>>
        /\ \/ /\ drained # arrived => Partial(f, arrived - drained)
              /\ dpc' = "select" /\ UNCHANGED <<log, drained>>
           \/ /\ Len(log) + 1 \in 1 .. Len(stream) /\ step \in RequestScoped \cup {"Frame"}
              /\ log' = Append(log, <<f.request_id, step>>) /\ dpc' = "drain"
              /\ drained' = drained + TotalLength(f) /\ TotalLength(f) <= arrived - drained
           \/ dpc' = "ended" /\ UNCHANGED <<log, drained>>
    BY Zenon, <1>6, DrainCases
  <2> HIDE DEF step
  <2>2. \A k : Boundary(k)' = Boundary(k)
    BY Zenon, <1>2, <2>1
  <2>3. CASE /\ drained # arrived => Partial(f, arrived - drained)
             /\ dpc' = "select" /\ UNCHANGED <<log, drained>>
    BY Zenon, <2>1, <2>2, <2>3 DEF StreamInv, Partial
  <2>4. CASE dpc' = "ended" /\ UNCHANGED <<log, drained>>
    BY Zenon, <2>1, <2>2, <2>4 DEF StreamInv
  <2>5. CASE /\ Len(log) + 1 \in 1 .. Len(stream) /\ step \in RequestScoped \cup {"Frame"}
             /\ log' = Append(log, <<f.request_id, step>>) /\ dpc' = "drain"
             /\ drained' = drained + TotalLength(f) /\ TotalLength(f) <= arrived - drained
    <3>1. /\ f \in Frames /\ Boundary(Len(log) + 1) = Boundary(Len(log)) + TotalLength(f)
          /\ TotalLength(f) \in Nat
      <4>1. (Len(log) + 1) - 1 = Len(log)
        BY <1>1
      <4> QED  BY Zenon, <2>5, <4>1, StreamTypes, LengthType
    <3>2. <<f.request_id, step>> \in Dispatches
      BY <2>5, <3>1 DEF Dispatches
    <3> HIDE DEF f
    <3>3. log' \in Seq(Dispatches) /\ Len(log') = Len(log) + 1
      BY <1>1, <2>5, <3>2, AppendProperties
    <3>4. drained' = Boundary(Len(log))'
      BY Zenon, <1>1, <2>2, <2>5, <3>1, <3>3
    <3>5. drained' <= arrived' /\ Len(log') <= Len(stream')
      BY <1>1, <2>1, <2>5, <3>1, <3>3
    <3> QED  BY Zenon, <1>1, <2>1, <2>2, <2>5, <3>3, <3>4, <3>5 DEF StreamInv
  <2> QED  BY Zenon, <2>1, <2>3, <2>4, <2>5
<1> QED  BY Zenon, <1>3, <1>4, <1>5, <1>6 DEF Next, Submit, vars

LEMMA StreamInvariant == Spec => []StreamInv
BY StreamInit, StreamNext, PTL DEF Spec

\* The head of the buffer is the start of a frame in every state of a session
\* that goes on: drain_frames never decodes from the middle of a frame.
THEOREM AlignedHolds == Spec => []Aligned
<1>1. StreamInv => Aligned
  BY DEF StreamInv, Aligned
<1> QED  BY <1>1, StreamInvariant, PTL

\* When drain_frames returns to the select loop no frame that has arrived whole
\* is left in the buffer.
THEOREM NothingLeftHolds == Spec => []NothingLeft
<1>1. StreamInv => NothingLeft
  <2> SUFFICES ASSUME StreamInv, dpc = "select", Len(log) < Len(stream)
               PROVE  Boundary(Len(log) + 1) > arrived
    BY DEF NothingLeft
  <2>1. /\ drained = Boundary(Len(log)) /\ drained \in Nat /\ arrived \in Nat
        /\ Len(stream) \in Nat /\ Len(log) \in Nat
        /\ drained # arrived => Partial(stream[Len(log) + 1], arrived - drained)
    BY Zenon, StreamTypes DEF StreamInv
  <2>2. Len(log) + 1 \in 1 .. Len(stream) /\ (Len(log) + 1) - 1 = Len(log)
    BY <2>1
  <2>3. /\ stream[Len(log) + 1] \in Frames
        /\ Boundary(Len(log) + 1) = drained + TotalLength(stream[Len(log) + 1])
    BY Zenon, <2>1, <2>2, StreamTypes
  <2>4. /\ TotalLength(stream[Len(log) + 1]) \in Nat
        /\ TotalLength(stream[Len(log) + 1]) >= HEADER_LENGTH /\ HEADER_LENGTH = 20
    BY Zenon, <2>3, LengthType
  <2> QED  BY <2>1, <2>3, <2>4 DEF Partial
<1> QED  BY <1>1, StreamInvariant, PTL

\* Between two reads the buffer of the driver holds less than one frame of the
\* effective bound, whatever the peer sends.
THEOREM BufferBoundedHolds == Spec => []BufferBounded
<1>1. StreamInv => BufferBounded
  <2> SUFFICES ASSUME StreamInv, dpc = "select"
               PROVE  arrived - drained < Limits.frame_size
    BY DEF BufferBounded
  <2>1. /\ drained \in Nat /\ arrived \in Nat
        /\ drained # arrived => Partial(stream[Len(log) + 1], arrived - drained)
    BY Zenon, StreamTypes DEF StreamInv
  <2>2. Limits.frame_size \in Nat /\ Limits.frame_size >= HEADER_LENGTH /\ HEADER_LENGTH = 20
    BY StreamAssumption DEF HEADER_LENGTH
  <2>3. CASE drained = arrived
    BY <2>1, <2>2, <2>3
  <2>4. CASE drained # arrived
    <3> DEFINE f == stream[Len(log) + 1]
    <3>1. f \in Frames
      BY Zenon, <2>4, BufferedBelongs, StreamTypes
    <3>2. TotalLength(f) \in Nat
      BY Zenon, <3>1, LengthType
    <3>3. HeaderVerdict(f, Limits) = "ok" => ~(TotalLength(f) > Limits.frame_size)
      BY DEF HeaderVerdict
    <3> HIDE DEF f
    <3>4. Partial(f, arrived - drained)
      BY Zenon, <2>1, <2>4 DEF f
    <3> QED  BY <2>1, <2>2, <3>2, <3>3, <3>4 DEF Partial
  <2> QED  BY <2>3, <2>4
<1> QED  BY <1>1, StreamInvariant, PTL

-----------------------------------------------------------------------------
(* The driver implements FrameOrder *)

\* The abstract specification reads a frame by the same operators.
LEMMA SameReading ==
    /\ FramesInOrder!RequestScoped = RequestScoped
    /\ \A f : FramesInOrder!TotalLength(f) = TotalLength(f)
    /\ \A f, have, c : FramesInOrder!Decode(f, have, c) = Decode(f, have, c)
<1>1. /\ FramesInOrder!RequestScoped = RequestScoped
      /\ FramesInOrder!HEADER_LENGTH = HEADER_LENGTH
      /\ \A f : FramesInOrder!TotalLength(f) = TotalLength(f)
  BY Zenon DEF FramesInOrder!RequestScoped, RequestScoped, FramesInOrder!HEADER_LENGTH,
     HEADER_LENGTH, FramesInOrder!TotalLength, TotalLength
<1>2. /\ FramesInOrder!Request = Request /\ FramesInOrder!Response = Response
      /\ FramesInOrder!Error = Error /\ FramesInOrder!Opcodes = Opcodes
      /\ FramesInOrder!FatalCodes = FatalCodes /\ FramesInOrder!ScopedCodes = ScopedCodes
      /\ FramesInOrder!HANDSHAKE_OPCODE = HANDSHAKE_OPCODE
      /\ FramesInOrder!PING_OPCODE = PING_OPCODE /\ FramesInOrder!SET_OPCODE = SET_OPCODE
      /\ FramesInOrder!Success = Success /\ FramesInOrder!Absent = Absent
      /\ FramesInOrder!ValueHeldOutsideMemory = ValueHeldOutsideMemory
  BY Zenon DEF FramesInOrder!Request, Request, FramesInOrder!Response, Response, FramesInOrder!Error,
     Error, FramesInOrder!Opcodes, Opcodes, FramesInOrder!FatalCodes, FatalCodes,
     FramesInOrder!ScopedCodes, ScopedCodes, FramesInOrder!HANDSHAKE_OPCODE, HANDSHAKE_OPCODE,
     FramesInOrder!PING_OPCODE, PING_OPCODE, FramesInOrder!SET_OPCODE, SET_OPCODE,
     FramesInOrder!Success, Success, FramesInOrder!Absent, Absent,
     FramesInOrder!ValueHeldOutsideMemory, ValueHeldOutsideMemory
<1>3. FramesInOrder!Kinds = Kinds /\ FramesInOrder!ResultCodes = ResultCodes
  BY Zenon, <1>2 DEF FramesInOrder!Kinds, Kinds, FramesInOrder!ResultCodes, ResultCodes
<1>4. \A f, l : FramesInOrder!HeaderVerdict(f, l) = HeaderVerdict(f, l)
  BY Zenon, <1>1, <1>3 DEF FramesInOrder!HeaderVerdict, HeaderVerdict
<1>5. \A k : FramesInOrder!Sender(k) = Sender(k)
  BY Zenon, <1>2 DEF FramesInOrder!Sender, Sender
<1>6. \A st, f : FramesInOrder!StateAllows(st, f) = StateAllows(st, f)
  BY Zenon, <1>2 DEF FramesInOrder!StateAllows, StateAllows
<1>7. \A f, ids : FramesInOrder!Correlate(f, ids) = Correlate(f, ids)
  BY ZenonT(60), <1>2, <1>3 DEF FramesInOrder!Correlate, Correlate
<1>8. \A f : FramesInOrder!PayloadFits(f) = PayloadFits(f)
  BY Zenon, <1>2 DEF FramesInOrder!PayloadFits, PayloadFits
<1>9. \A f, c : FramesInOrder!BodyVerdict(f, c) = BodyVerdict(f, c)
  BY Zenon, <1>5, <1>6, <1>7, <1>8 DEF FramesInOrder!BodyVerdict, BodyVerdict
<1>10. /\ \A f, v, n : FramesInOrder!Refused(f, v, n) = Refused(f, v, n)
       /\ \A f : FramesInOrder!Admitted(f) = Admitted(f)
       /\ \A n : FramesInOrder!Need(n) = Need(n)
  BY Zenon, <1>1 DEF FramesInOrder!Refused, Refused, FramesInOrder!Admitted, Admitted,
     FramesInOrder!Need, Need
<1>11. \A f, have, c : FramesInOrder!Decode(f, have, c) = Decode(f, have, c)
  <2> SUFFICES ASSUME NEW f, NEW have, NEW c
               PROVE  FramesInOrder!Decode(f, have, c) = Decode(f, have, c)
    BY Zenon
  <2>1. /\ FramesInOrder!HeaderVerdict(f, c.limits) = HeaderVerdict(f, c.limits)
        /\ FramesInOrder!BodyVerdict(f, c) = BodyVerdict(f, c)
    BY Zenon, <1>4, <1>9
  <2>2. /\ FramesInOrder!Refused(f, HeaderVerdict(f, c.limits), have)
             = Refused(f, HeaderVerdict(f, c.limits), have)
        /\ FramesInOrder!Refused(f, BodyVerdict(f, c), have) = Refused(f, BodyVerdict(f, c), have)
        /\ FramesInOrder!Admitted(f) = Admitted(f)
        /\ FramesInOrder!Need(HEADER_LENGTH) = Need(HEADER_LENGTH)
        /\ FramesInOrder!Need(TotalLength(f)) = Need(TotalLength(f))
    BY Zenon, <1>10
  <2>3. /\ FramesInOrder!TotalLength(f) = TotalLength(f)
        /\ FramesInOrder!HEADER_LENGTH = HEADER_LENGTH
    BY Zenon, <1>1
  <2> QED  BY ZenonT(30), <2>1, <2>2, <2>3 DEF FramesInOrder!Decode, Decode
<1> QED  BY Zenon, <1>1, <1>11

LEMMA LessThanNext ==
    \A m, n \in Nat : m + 1 \in 1 .. n => m < n
OBVIOUS

\* Every step of the driver handles one whole frame, or nothing.
LEMMA StepRefines ==
    StreamInv /\ [Next]_vars => [FramesInOrder!Next]_(FramesInOrder!vars)
<1> SUFFICES ASSUME StreamInv, [Next]_vars
             PROVE  FramesInOrder!Next \/ UNCHANGED FramesInOrder!vars
  OBVIOUS
<1>1. CASE UNCHANGED vars
  BY Zenon, <1>1 DEF vars, FramesInOrder!vars
<1>2. ASSUME NEW i \in Ids, Submit(i) PROVE FramesInOrder!Submit(i)
  <2>1. dpc # "ended"
    BY <1>2 DEF Submit
  <2> QED  BY Zenon, <1>2, <2>1 DEF Submit, FramesInOrder!Submit
<1>3. ASSUME NEW f \in Frames, PeerSend(f) PROVE FramesInOrder!PeerSend(f)
  BY Zenon, <1>3 DEF PeerSend, FramesInOrder!PeerSend
<1>4. ASSUME NEW n \in ChunkSizes, ReadChunk(n) PROVE UNCHANGED FramesInOrder!vars
  <2>1. dpc = "select" /\ dpc' = "drain" /\ UNCHANGED <<live, stream, log>>
    BY Zenon, <1>4 DEF ReadChunk
  <2>2. dpc # "ended" /\ dpc' # "ended"
    BY <2>1
  <2> QED  BY Zenon, <2>1, <2>2 DEF FramesInOrder!vars
<1>5. CASE DrainFrame
  <2> DEFINE f == stream[Len(log) + 1]
             step == Decode(f, TotalLength(f),
                            [role |-> "Client", state |-> "Negotiated",
                             limits |-> Limits, in_flight |-> live]).step
  <2>1. /\ dpc = "drain" /\ stream' = stream
        /\ \/ dpc' = "select" /\ UNCHANGED <<live, log>>
           \/ /\ Len(log) + 1 \in 1 .. Len(stream)
              /\ step \in RequestScoped \cup {"Frame"} /\ f.request_id \in live
              /\ live' = live \ {f.request_id} /\ dpc' = dpc
              /\ log' = Append(log, <<f.request_id, step>>)
           \/ /\ Len(log) + 1 \in 1 .. Len(stream)
              /\ step \in ConnectionFatal \/ f.request_id \notin live
              /\ dpc' = "ended" /\ live' = {} /\ log' = log
    BY Zenon, <1>5, DrainCases
  <2>2. dpc # "ended" /\ "select" # "ended" /\ ConnectionFatal \cap (RequestScoped \cup {"Frame"}) = {}
    BY <2>1 DEF ConnectionFatal, RequestScoped
  <2>3. Len(log) + 1 \in 1 .. Len(stream) => Len(log) < Len(stream)
    BY Zenon, StreamTypes, LessThanNext
  <2>4. step = FramesInOrder!Decode(f, FramesInOrder!TotalLength(f), FramesInOrder!Context(live)).step
    BY Zenon, SameReading DEF FramesInOrder!Context
  <2>5. \A v : FramesInOrder!Dispatchable(v) <=> v \in RequestScoped \cup {"Frame"}
    BY Zenon, SameReading DEF FramesInOrder!Dispatchable
  <2> HIDE DEF step
  <2>6. CASE dpc' = "select" /\ UNCHANGED <<live, log>>
    BY Zenon, <2>1, <2>2, <2>6 DEF FramesInOrder!vars
  <2>7. CASE /\ Len(log) + 1 \in 1 .. Len(stream)
             /\ step \in RequestScoped \cup {"Frame"} /\ f.request_id \in live
             /\ live' = live \ {f.request_id} /\ dpc' = dpc
             /\ log' = Append(log, <<f.request_id, step>>)
    BY Zenon, <2>1, <2>2, <2>3, <2>4, <2>5, <2>7 DEF FramesInOrder!Next, FramesInOrder!Handle
  <2>8. CASE /\ Len(log) + 1 \in 1 .. Len(stream)
             /\ step \in ConnectionFatal \/ f.request_id \notin live
             /\ dpc' = "ended" /\ live' = {} /\ log' = log
    <3>1. ~(FramesInOrder!Dispatchable(step) /\ f.request_id \in live)
      BY Zenon, <2>2, <2>5, <2>8
    <3> QED
      BY Zenon, <2>1, <2>2, <2>3, <2>4, <2>8, <3>1 DEF FramesInOrder!Next, FramesInOrder!Handle
  <2> QED  BY Zenon, <2>1, <2>6, <2>7, <2>8
<1> QED  BY Zenon, <1>1, <1>2, <1>3, <1>4, <1>5 DEF Next, FramesInOrder!Next

\* What drain_frames makes of the byte stream, however the reads cut it, is what
\* one would do with the frames taken whole, in order and one at a time.
THEOREM FrameOrderRefined == Spec => ImplementsFrameOrder
<1>1. Init => FramesInOrder!Init
  <2> SUFFICES ASSUME Init PROVE FramesInOrder!Init
    OBVIOUS
  <2>1. dpc # "ended"
    BY DEF Init
  <2> QED  BY Zenon, <2>1 DEF Init, FramesInOrder!Init
<1> QED  BY <1>1, StreamInvariant, StepRefines, PTL DEF Spec, ImplementsFrameOrder, FramesInOrder!Spec

=============================================================================
