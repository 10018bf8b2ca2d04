------------------------------- MODULE UintN --------------------------------
(***************************************************************************)
(* The identifiers of entries and files (uintn-rs/src/lib.rs): numbers     *)
(* held in the smallest of several integer types, or in a big integer.     *)
(* A value is [w, v]: the variant of the enum, counted from 1, and the     *)
(* number.  The other modules take an identifier for its number, which is  *)
(* sound as far as the operations here are exact.                          *)
(***************************************************************************)
EXTENDS Integers, Sequences

CONSTANT Cap       \* variant -> one more than its MAX: 2^8, 2^16, 2^32, ...

\* A sum of two values of one variant fits into the next.
ASSUME CapAssumption ==
  /\ Cap \in Seq(Nat) /\ Len(Cap) > 0 /\ Cap[1] > 1
  /\ \A i \in 1..Len(Cap) : \A j \in i + 1..Len(Cap) : 2 * Cap[i] <= Cap[j]

Big == Len(Cap) + 1

Fits(v, w) == w = Big \/ v < Cap[w]

Values == {x \in [w : 1..Big, v : Nat] : Fits(x.v, x.w)}

\* Err(..), and in the Go package also a panic.
Err == [w |-> 0, v |-> 0]

Smallest(v) == CHOOSE w \in 1..Big : Fits(v, w) /\ \A u \in 1..w - 1 : ~Fits(v, u)

\* From<u16> .. From<UBig>
from(v) == [w |-> Smallest(v), v |-> v]

\* The value is in the smallest variant.
Canonical(x) == x \in Values /\ x = from(x.v)

zero == [w |-> 1, v |-> 0]

is_zero(x) == x.v = 0

-----------------------------------------------------------------------------
\* Mutant of increment: MAX itself wraps.
increment_Wraps(x) ==
  IF x.w # Big /\ x.v = Cap[x.w] - 1 THEN [x EXCEPT !.v = 0] ELSE [x EXCEPT !.v = @ + 1]

increment(x) ==
  IF x.w # Big /\ x.v = Cap[x.w] - 1 THEN [w |-> x.w + 1, v |-> Cap[x.w]]
  ELSE [x EXCEPT !.v = @ + 1]

decrement(x) == IF is_zero(x) THEN Err ELSE from(x.v - 1)

Wider(x, y) == IF x.w > y.w THEN x.w ELSE y.w

\* checked_add in the wider type; if that overflows, the sum in the next one.
add(x, y) ==
  LET w   == Wider(x, y)
      sum == x.v + y.v
  IN  IF is_zero(y) THEN x
      ELSE IF w # Big /\ sum < Cap[w] THEN from(sum)
      ELSE [w |-> IF w = Big THEN Big ELSE w + 1, v |-> sum]

\* Values of one type are compared first, and so is everything that involves a
\* big integer or begins with the narrower type.  A narrower value is subtracted
\* from a wider one unchecked: the wider type wraps.
sub(x, y) ==
  IF is_zero(y) THEN x
  ELSE IF y.w < x.w /\ x.w # Big THEN from((x.v - y.v) % Cap[x.w])
  ELSE IF x.v < y.v THEN Err
  ELSE from(x.v - y.v)

shrink_to_fit(x) == IF x.w = 1 THEN x ELSE from(x.v)

middle(x, y) ==
  LET half == (x.v + y.v) \div 2
  IN  IF x.w = y.w /\ x.w # Big THEN [w |-> x.w, v |-> half] ELSE from(half)

\* Rem::rem, which panics for a zero divisor.
rem(x, y) == from(x.v % y.v)

\* PartialEq::eq and Ord::cmp compare the numbers.
eq(x, y) == x.v = y.v
less(x, y) == x.v < y.v

in_step(x, first, step) ==
  \/ step = 1
  \/ /\ ~less(x, first)
     /\ LET diff == sub(x, first)
        IN  is_zero(rem(IF diff = Err THEN zero ELSE diff, from(step)))

step_by(x, step) == add(x, from(step))
=============================================================================
