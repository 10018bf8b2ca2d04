------------------------------ MODULE GoUintN -------------------------------
(***************************************************************************)
(* Identifiers in the Go client (normfs_go/uintn/uintn.go).  The types are *)
(* those of the server without u128, and the operations are written again: *)
(* comparisons go by the type where they can, and reading bytes keeps the  *)
(* type that their number names.                                           *)
(***************************************************************************)
EXTENDS LittleEndian

CONSTANT GoCap     \* type -> one more than its largest value: 2^8 .. 2^64

TypeBig == Len(GoCap) + 1

InType(v, w) == w = TypeBig \/ v < GoCap[w]

\* FromU16 .. FromU64, FromBigInt and ParseDecimal
FromBigInt(v) ==
  [w |-> CHOOSE w \in 1..TypeBig : InType(v, w) /\ \A u \in 1..w - 1 : ~InType(v, u), v |-> v]

\* An error, or a panic.
Refused == [w |-> 0, v |-> 0]

IsZero(u) == u.v = 0

\* ByteLen: a big integer is always serialized as twice the largest type, and
\* what does not fit is cut off.
ByteLen(u) == 2^(u.w - 1)

ToLEBytes(u) == to_le_bytes(u.v, ByteLen(u))

\* The lengths of the types and of a big integer; no other.
FromLEBytes(bytes) ==
  IF \E w \in 1..TypeBig : 2^(w - 1) = Len(bytes)
  THEN [w |-> CHOOSE w \in 1..TypeBig : 2^(w - 1) = Len(bytes), v |-> from_le_bytes(bytes)]
  ELSE Refused

\* ToU64 fails, and ToU64Must panics.
IsUint64(u) == u.v < GoCap[Len(GoCap)]

-----------------------------------------------------------------------------
Equal(u, other) == u.v = other.v

\* Less panics: a middle type against a big integer that ToU64Must cannot take.
LessPanics(u, other) == u.w \in 2..TypeBig - 2 /\ other.w = TypeBig /\ ~IsUint64(other)

Less(u, other) == IF u.w = 1 /\ other.w > 1 THEN TRUE ELSE u.v < other.v

\* U64 against a big integer asks v.Less(u), so this is right; the smaller types
\* are never greater than a wider one.
Greater(u, other) == IF u.w < other.w /\ u.w < TypeBig - 1 THEN FALSE ELSE u.v > other.v

Inc(u) ==
  IF u.w # TypeBig /\ u.v = GoCap[u.w] - 1 THEN [w |-> u.w + 1, v |-> GoCap[u.w]]
  ELSE [u EXCEPT !.v = @ + 1]

Dec(u) ==
  IF IsZero(u) THEN Refused
  ELSE IF u.w = 1 THEN [u EXCEPT !.v = @ - 1]
  ELSE FromBigInt(u.v - 1)

\* Mutant of Add: the sum of two native values stays native.
Add_Wraps(a, b) ==
  IF IsZero(b) THEN a
  ELSE IF IsUint64(a) /\ IsUint64(b) THEN FromBigInt((a.v + b.v) % GoCap[Len(GoCap)])
  ELSE [w |-> TypeBig, v |-> a.v + b.v]

Add(a, b) ==
  IF IsZero(b) THEN a
  ELSE IF IsUint64(a) /\ IsUint64(b) /\ a.v + b.v < GoCap[Len(GoCap)] THEN FromBigInt(a.v + b.v)
  ELSE [w |-> TypeBig, v |-> a.v + b.v]

Sub(a, b) ==
  IF IsZero(b) THEN a
  ELSE IF LessPanics(a, b) \/ Less(a, b) THEN Refused
  ELSE FromBigInt(a.v - b.v)

ShrinkToFit(u) == IF u.w = 1 THEN u ELSE FromBigInt(u.v)

DivideByTwo(u) == [u EXCEPT !.v = @ \div 2]

\* Add never fails, so that the fallback is never taken.
Middle(a, b) == DivideByTwo(Add(a, b))

\* Resize, FromU64WithKnownSize and FromBigIntWithKnownSize.
Resize(u, size) ==
  LET w == CHOOSE w \in 1..TypeBig : 2^(w - 1) = size
  IN  IF (\E x \in 1..TypeBig : 2^(x - 1) = size) /\ InType(u.v, w) THEN [w |-> w, v |-> u.v] ELSE Refused
=============================================================================
