---------------------------- MODULE ServerProofs ----------------------------
(***************************************************************************)
(* The server towards its clients.                                         *)
(*                                                                         *)
(* The identifiers it counts in are exact, for any number of integer types *)
(* that each have room for a sum in the one below: on values in their      *)
(* smallest type every operation is exact and leaves its result in the     *)
(* smallest type.  In particular the unchecked subtraction in sub never    *)
(* wraps.                                                                  *)
(*                                                                         *)
(* A connection keeps the promise that clients rely on: ServerConnection   *)
(* implements Protocol, for any number of requests and entries and any     *)
(* size of the channels.                                                   *)
(***************************************************************************)
EXTENDS ServerConnection, UintN, FiniteSetTheorems, WellFoundedInduction, TLAPS

(* Identifiers                                                             *)

\* A set of numbers has a least one.
LEMMA LeastElement ==
  ASSUME NEW T, T \subseteq Nat, T # {}
  PROVE  \E x \in T : \A y \in T : x <= y
<1> DEFINE R == {ss \in Nat \X Nat : ss[1] < ss[2]}
<1>1. IsWellFoundedOn(R, Nat)
  BY NatLessThanWellFounded DEF OpToRel
<1> HIDE DEF R
<1>2. PICK x \in T : \A y \in T : <<y, x>> \notin R
  BY <1>1, WFMin
<1>3. \A y \in T : ~(y < x)
  BY <1>2 DEF R
<1> QED BY <1>3

\* Widths are numbers, and wider types have larger values.
LEMMA CapFacts ==
  /\ Big \in Nat \ {0, 1}
  /\ \A i \in 1..Big - 1 : Cap[i] \in Nat /\ Cap[i] > 1
  /\ \A i, j \in 1..Big - 1 : i < j => 2 * Cap[i] <= Cap[j]
<1>1. Len(Cap) \in Nat /\ Big = Len(Cap) + 1
  BY CapAssumption DEF Big
<1>2. \A i \in 1..Len(Cap) : Cap[i] \in Nat
  BY CapAssumption
<1>3. \A i, j \in 1..Len(Cap) : i < j => 2 * Cap[i] <= Cap[j]
  <2> SUFFICES ASSUME NEW i \in 1..Len(Cap), NEW j \in 1..Len(Cap), i < j
               PROVE  2 * Cap[i] <= Cap[j]
    OBVIOUS
  <2>1. j \in i + 1..Len(Cap)
    BY <1>1
  <2> QED BY <2>1, CapAssumption
<1>4. \A i \in 1..Len(Cap) : Cap[i] > 1
  <2> SUFFICES ASSUME NEW i \in 1..Len(Cap) PROVE Cap[i] > 1
    OBVIOUS
  <2>1. 1 \in 1..Len(Cap) /\ Cap[1] > 1 /\ Cap[1] \in Nat /\ Cap[i] \in Nat
    BY <1>1, <1>2, CapAssumption
  <2> QED BY <1>1, <1>3, <2>1
<1>5. Len(Cap) > 0
  BY CapAssumption
<1> QED BY <1>1, <1>2, <1>3, <1>4, <1>5

\* Every number has a smallest type.
LEMMA SmallestFits ==
  ASSUME NEW v \in Nat
  PROVE  /\ Smallest(v) \in 1..Big /\ Fits(v, Smallest(v))
         /\ \A u \in 1..Smallest(v) - 1 : ~Fits(v, u)
<1> DEFINE T == {w \in 1..Big : Fits(v, w)}
<1>1. Big \in Nat /\ Big \in 1..Big /\ Fits(v, Big)
  BY CapFacts DEF Fits
<1>2. T \subseteq Nat /\ T # {}
  BY <1>1
<1>3. PICK w \in T : \A u \in T : w <= u
  BY <1>2, LeastElement
<1>4. \A u \in 1..w - 1 : ~Fits(v, u)
  BY <1>1, <1>3
<1> QED BY <1>3, <1>4 DEF Smallest

\* ... and only one type is the smallest.
LEMMA SmallestUnique ==
  ASSUME NEW v \in Nat, NEW w \in 1..Big, Fits(v, w), \A u \in 1..w - 1 : ~Fits(v, u)
  PROVE  Smallest(v) = w
<1> DEFINE s == Smallest(v)
<1>1. Big \in Nat
  BY CapFacts
<1>2. s \in 1..Big /\ Fits(v, s) /\ \A u \in 1..s - 1 : ~Fits(v, u)
  BY SmallestFits
<1> HIDE DEF s
<1>3. ~(s < w)
  BY <1>1, <1>2
<1>4. ~(w < s)
  BY <1>1, <1>2
<1>5. s = w
  BY <1>1, <1>2, <1>3, <1>4
<1> QED BY <1>5 DEF s

\* The smallest type by its limits: the number fits, and not in the type below.
LEMMA SmallestByLimits ==
  ASSUME NEW v \in Nat, NEW w \in 1..Big, Fits(v, w), w > 1 => v >= Cap[w - 1]
  PROVE  Smallest(v) = w
<1> SUFFICES ASSUME NEW u \in 1..w - 1 PROVE ~Fits(v, u)
  BY SmallestUnique
<1>1. Big \in Nat /\ w > 1 /\ w - 1 \in 1..Big - 1 /\ u \in 1..Big - 1 /\ u # Big
  BY CapFacts
<1>2. Cap[u] <= Cap[w - 1] /\ Cap[u] \in Nat /\ Cap[w - 1] \in Nat
  BY <1>1, CapFacts
<1> QED BY <1>1, <1>2 DEF Fits

\* What a value in its smallest type looks like.
LEMMA CanonicalLimits ==
  ASSUME NEW x, Canonical(x)
  PROVE  /\ x.v \in Nat /\ x.w \in 1..Big /\ x = [w |-> x.w, v |-> x.v]
         /\ x.w = Smallest(x.v) /\ Fits(x.v, x.w)
         /\ x.w > 1 => x.v >= Cap[x.w - 1]
<1>1. /\ x.v \in Nat /\ x.w \in 1..Big /\ x = [w |-> x.w, v |-> x.v]
      /\ x.w = Smallest(x.v) /\ Fits(x.v, x.w)
  BY DEF Canonical, Values, from
<1>2. ASSUME x.w > 1 PROVE x.v >= Cap[x.w - 1]
  <2>1. x.w - 1 \in 1..x.w - 1 /\ x.w - 1 \in 1..Big - 1 /\ x.w - 1 # Big
    BY <1>1, <1>2, CapFacts
  <2>2. ~Fits(x.v, x.w - 1)
    BY <1>1, <2>1, SmallestFits
  <2> QED BY <1>1, <2>1, <2>2, CapFacts DEF Fits
<1> QED BY <1>1, <1>2

\* from gives values in their smallest type.
LEMMA FromIsCanonical ==
  ASSUME NEW v \in Nat
  PROVE  Canonical(from(v)) /\ from(v).v = v /\ from(v).w = Smallest(v)
BY SmallestFits DEF Canonical, Values, from

\* Counting on and adding move to the next type exactly when they must.
LEMMA IncrementIsExact ==
  ASSUME NEW x, Canonical(x)
  PROVE  increment(x) = from(x.v + 1)
<1>1. /\ x.v \in Nat /\ x.w \in 1..Big /\ x = [w |-> x.w, v |-> x.v]
      /\ x.w = Smallest(x.v) /\ Fits(x.v, x.w)
      /\ x.w > 1 => x.v >= Cap[x.w - 1]
  BY CanonicalLimits
<1>2. Big \in Nat
  BY CapFacts
<1>3. CASE x.w # Big /\ x.v = Cap[x.w] - 1
  <2>1. x.w \in 1..Big - 1 /\ x.w + 1 \in 1..Big /\ (x.w + 1) - 1 = x.w
    BY <1>1, <1>2, <1>3
  <2>2. Cap[x.w] \in Nat /\ Cap[x.w] > 1
    BY <2>1, CapFacts
  <2>3. Fits(Cap[x.w], x.w + 1)
    <3>1. CASE x.w + 1 = Big
      BY <3>1 DEF Fits
    <3>2. CASE x.w + 1 \in 1..Big - 1
      BY <1>2, <2>1, <2>2, <3>2, CapFacts DEF Fits
    <3> QED BY <1>2, <2>1, <3>1, <3>2
  <2>4. Smallest(Cap[x.w]) = x.w + 1
    BY <2>1, <2>2, <2>3, SmallestByLimits
  <2>5. x.v + 1 = Cap[x.w]
    BY <1>3, <2>2
  <2> QED BY <1>3, <2>4, <2>5 DEF increment, from
<1>4. CASE ~(x.w # Big /\ x.v = Cap[x.w] - 1)
  <2>1. increment(x) = [w |-> x.w, v |-> x.v + 1]
    BY <1>1, <1>4 DEF increment
  <2>2. Fits(x.v + 1, x.w)
    <3>1. CASE x.w = Big
      BY <3>1 DEF Fits
    <3>2. CASE x.w # Big
      <4>1. Cap[x.w] \in Nat /\ x.v < Cap[x.w] /\ x.v # Cap[x.w] - 1
        BY <1>1, <1>2, <1>4, <3>2, CapFacts DEF Fits
      <4> QED BY <1>1, <4>1 DEF Fits
    <3> QED BY <3>1, <3>2
  <2>3. x.w > 1 => x.v + 1 >= Cap[x.w - 1]
    BY <1>1, <1>2, CapFacts
  <2>4. Smallest(x.v + 1) = x.w
    BY <1>1, <2>2, <2>3, SmallestByLimits
  <2> QED BY <2>1, <2>4 DEF from
<1> QED BY <1>3, <1>4

LEMMA AddIsExact ==
  ASSUME NEW x, NEW y, Canonical(x), Canonical(y)
  PROVE  add(x, y) = from(x.v + y.v)
<1> DEFINE w == Wider(x, y)
           sum == x.v + y.v
<1>1. /\ x.v \in Nat /\ x.w \in 1..Big /\ Fits(x.v, x.w) /\ (x.w > 1 => x.v >= Cap[x.w - 1])
      /\ x = [w |-> x.w, v |-> x.v] /\ x.w = Smallest(x.v)
      /\ y.v \in Nat /\ y.w \in 1..Big /\ Fits(y.v, y.w) /\ (y.w > 1 => y.v >= Cap[y.w - 1])
  BY CanonicalLimits
<1>2. Big \in Nat /\ Big > 1
  BY CapFacts
<1>3. w \in 1..Big /\ x.w <= w /\ y.w <= w /\ (w = x.w \/ w = y.w)
  BY <1>1, <1>2 DEF Wider
<1>4. sum \in Nat /\ sum >= x.v /\ sum >= y.v
  BY <1>1
<1>5. w > 1 => sum >= Cap[w - 1]
  BY <1>1, <1>2, <1>3, <1>4, CapFacts
<1>6. CASE is_zero(y)
  BY <1>1, <1>6 DEF add, from, is_zero
<1>7. CASE ~is_zero(y) /\ w # Big /\ sum < Cap[w]
  BY <1>7 DEF add
<1>8. CASE ~is_zero(y) /\ w = Big
  <2>1. Smallest(sum) = Big
    BY <1>3, <1>4, <1>5, <1>8, SmallestByLimits DEF Fits
  <2>2. add(x, y) = [w |-> Big, v |-> sum]
    BY <1>8 DEF add
  <2> QED BY <2>1, <2>2 DEF from
<1>9. CASE ~is_zero(y) /\ w # Big /\ ~(sum < Cap[w])
  <2>1. w \in 1..Big - 1 /\ w + 1 \in 1..Big /\ (w + 1) - 1 = w /\ Cap[w] \in Nat
    BY <1>2, <1>3, <1>9, CapFacts
  <2>2. x.v < Cap[w] /\ y.v < Cap[w]
    <3>1. x.w \in 1..Big - 1 /\ y.w \in 1..Big - 1
      BY <1>1, <1>2, <1>3, <2>1
    <3>2. x.v < Cap[x.w] /\ y.v < Cap[y.w]
      BY <1>1, <1>2, <3>1 DEF Fits
    <3>3. Cap[x.w] <= Cap[w] /\ Cap[y.w] <= Cap[w] /\ Cap[x.w] \in Nat /\ Cap[y.w] \in Nat
      <4>1. Cap[x.w] \in Nat /\ Cap[y.w] \in Nat
        BY <3>1, CapFacts
      <4>2. x.w = w \/ 2 * Cap[x.w] <= Cap[w]
        BY <1>3, <2>1, <3>1, CapFacts
      <4>3. y.w = w \/ 2 * Cap[y.w] <= Cap[w]
        BY <1>3, <2>1, <3>1, CapFacts
      <4> QED BY <2>1, <4>1, <4>2, <4>3
    <3> QED BY <1>1, <2>1, <3>2, <3>3
  <2>3. Fits(sum, w + 1)
    <3>1. CASE w + 1 = Big
      BY <3>1 DEF Fits
    <3>2. CASE w + 1 \in 1..Big - 1
      <4>1. 2 * Cap[w] <= Cap[w + 1] /\ Cap[w + 1] \in Nat
        BY <2>1, <3>2, CapFacts
      <4> QED BY <1>1, <2>1, <2>2, <4>1 DEF Fits
    <3> QED BY <1>2, <2>1, <3>1, <3>2
  <2>4. sum >= Cap[w]
    BY <1>4, <1>9, <2>1
  <2> HIDE DEF w, sum
  <2>5. Smallest(sum) = w + 1
    BY <1>4, <2>1, <2>3, <2>4, SmallestByLimits
  <2>6. add(x, y) = [w |-> w + 1, v |-> sum]
    BY <1>9 DEF add, w, sum
  <2> QED BY <2>5, <2>6 DEF from, sum
<1> QED BY <1>6, <1>7, <1>8, <1>9

\* Where sub does not compare, the wider value is the larger one.
LEMMA SubIsExact ==
  ASSUME NEW x, NEW y, Canonical(x), Canonical(y)
  PROVE  sub(x, y) = IF y.v <= x.v THEN from(x.v - y.v) ELSE Err
<1>1. /\ x.v \in Nat /\ x.w \in 1..Big /\ Fits(x.v, x.w) /\ (x.w > 1 => x.v >= Cap[x.w - 1])
      /\ x = [w |-> x.w, v |-> x.v] /\ x.w = Smallest(x.v)
      /\ y.v \in Nat /\ y.w \in 1..Big /\ Fits(y.v, y.w)
  BY CanonicalLimits
<1>2. Big \in Nat /\ Big > 1
  BY CapFacts
<1>3. CASE is_zero(y)
  BY <1>1, <1>3 DEF sub, from, is_zero
<1>4. CASE ~is_zero(y) /\ y.w < x.w /\ x.w # Big
  <2>1. /\ y.w \in 1..Big - 1 /\ x.w \in 1..Big - 1 /\ x.w - 1 \in 1..Big - 1 /\ x.w > 1
        /\ y.w <= x.w - 1
    BY <1>1, <1>2, <1>4
  <2>2. /\ y.v < Cap[y.w] /\ x.v < Cap[x.w]
        /\ Cap[y.w] \in Nat /\ Cap[x.w] \in Nat /\ Cap[x.w - 1] \in Nat
    BY <1>1, <1>2, <2>1, CapFacts DEF Fits
  <2>3. Cap[y.w] <= Cap[x.w - 1]
    <3>1. y.w = x.w - 1 \/ 2 * Cap[y.w] <= Cap[x.w - 1]
      BY <2>1, CapFacts
    <3> QED BY <2>2, <3>1
  <2>4. y.v <= x.v /\ x.v - y.v \in 0..Cap[x.w] - 1
    BY <1>1, <2>1, <2>2, <2>3
  <2>5. (x.v - y.v) % Cap[x.w] = x.v - y.v
    BY <2>2, <2>4
  <2> QED BY <1>4, <2>4, <2>5 DEF sub
<1>5. CASE ~is_zero(y) /\ ~(y.w < x.w /\ x.w # Big)
  BY <1>1, <1>5 DEF sub
<1> QED BY <1>3, <1>4, <1>5

LEMMA MiddleIsExact ==
  ASSUME NEW x, NEW y, Canonical(x), Canonical(y)
  PROVE  middle(x, y) = from((x.v + y.v) \div 2)
<1> DEFINE half == (x.v + y.v) \div 2
<1>1. /\ x.v \in Nat /\ x.w \in 1..Big /\ Fits(x.v, x.w) /\ (x.w > 1 => x.v >= Cap[x.w - 1])
      /\ y.v \in Nat /\ y.w \in 1..Big /\ Fits(y.v, y.w) /\ (y.w > 1 => y.v >= Cap[y.w - 1])
  BY CanonicalLimits
<1>2. CASE x.w = y.w /\ x.w # Big
  <2>1. /\ x.w \in 1..Big - 1 /\ Cap[x.w] \in Nat /\ x.v < Cap[x.w] /\ y.v < Cap[x.w]
        /\ x.w > 1 => Cap[x.w - 1] \in Nat /\ x.v >= Cap[x.w - 1] /\ y.v >= Cap[x.w - 1]
    BY <1>1, <1>2, CapFacts DEF Fits
  <2>2. half \in Nat /\ half < Cap[x.w] /\ (x.w > 1 => half >= Cap[x.w - 1])
    BY <1>1, <2>1
  <2> HIDE DEF half
  <2>3. Smallest(half) = x.w
    BY <1>1, <2>2, SmallestByLimits DEF Fits
  <2>4. middle(x, y) = [w |-> x.w, v |-> half]
    BY <1>2 DEF middle, half
  <2> QED BY <2>3, <2>4 DEF from, half
<1>3. CASE ~(x.w = y.w /\ x.w # Big)
  BY <1>3 DEF middle
<1> QED BY <1>2, <1>3

\* Values in their smallest type are all that counting, adding, subtracting and
\* halving ever produce from such values, and the numbers are right.
THEOREM ArithmeticIsClosed ==
  \A x, y : Canonical(x) /\ Canonical(y) =>
    /\ increment(x) = from(x.v + 1)
    /\ decrement(x) = IF x.v = 0 THEN Err ELSE from(x.v - 1)
    /\ add(x, y) = from(x.v + y.v)
    /\ sub(x, y) = IF y.v <= x.v THEN from(x.v - y.v) ELSE Err
    /\ middle(x, y) = from((x.v + y.v) \div 2)
    /\ shrink_to_fit(x) = x
<1> SUFFICES ASSUME NEW x, NEW y, Canonical(x), Canonical(y)
             PROVE  /\ increment(x) = from(x.v + 1)
                    /\ decrement(x) = IF x.v = 0 THEN Err ELSE from(x.v - 1)
                    /\ add(x, y) = from(x.v + y.v)
                    /\ sub(x, y) = IF y.v <= x.v THEN from(x.v - y.v) ELSE Err
                    /\ middle(x, y) = from((x.v + y.v) \div 2)
                    /\ shrink_to_fit(x) = x
  OBVIOUS
<1>1. decrement(x) = IF x.v = 0 THEN Err ELSE from(x.v - 1)
  BY DEF decrement, is_zero
<1>2. shrink_to_fit(x) = x
  BY DEF shrink_to_fit, Canonical
<1> QED BY <1>1, <1>2, IncrementIsExact, AddIsExact, SubIsExact, MiddleIsExact

\* in_step selects, from first on, every step-th identifier; the stepping reads
\* of the memory queue and of the files rely on it.
THEOREM StepsAreExact ==
  \A x, first : \A step \in Nat \ {0} : Canonical(x) /\ Canonical(first) =>
    (in_step(x, first, step) <=> step = 1 \/ (first.v <= x.v /\ (x.v - first.v) % step = 0))
<1> SUFFICES ASSUME NEW x, NEW first, NEW step \in Nat \ {0}, Canonical(x), Canonical(first)
             PROVE  in_step(x, first, step) <=>
                      step = 1 \/ (first.v <= x.v /\ (x.v - first.v) % step = 0)
  OBVIOUS
<1>1. x.v \in Nat /\ first.v \in Nat
  BY CanonicalLimits
<1>2. CASE x.v < first.v
  BY <1>1, <1>2 DEF in_step, less
<1>3. CASE ~(x.v < first.v)
  <2> DEFINE d == x.v - first.v
  <2>1. d \in Nat /\ first.v <= x.v
    BY <1>1, <1>3
  <2>2. sub(x, first) = from(d)
    BY <2>1, SubIsExact
  <2> HIDE DEF d
  <2>3. from(d).v = d /\ from(d).w \in 1..Big /\ from(step).v = step
    BY <2>1, FromIsCanonical, SmallestFits
  <2>4. from(d) # Err
    BY <2>3, CapFacts DEF Err
  <2>5. d % step \in Nat
    BY <2>1
  <2>6. rem(from(d), from(step)).v = d % step
    BY <2>3, <2>5, FromIsCanonical DEF rem
  <2>7. in_step(x, first, step) <=> step = 1 \/ is_zero(rem(from(d), from(step)))
    BY <1>3, <2>2, <2>4 DEF in_step, less
  <2> QED BY <2>1, <2>6, <2>7 DEF is_zero, d
<1> QED BY <1>2, <1>3

-----------------------------------------------------------------------------
(* The connection                                                          *)

\* The leaves are first-order reasoning; those about numbers, sequences or
\* records name SMT.
USE Zenon DEF clientVars, readerVars, sourceVars, handlerVars, writerVars

Message == [re : Requests, what : {"done", "error", "start", "entry", "end", "failed"}, n : Nat]

TasksType(h, p) ==
  /\ h \in [Requests -> {"none", "run", "send", "stream", "ended"}]
  /\ p = [q \in Requests |-> p[q]]
  /\ \A q \in Requests : h[q] = "send" => p[q] \in Message /\ p[q].re = q

TypeOK ==
  /\ sent \subseteq Requests /\ acted \subseteq Writes
  /\ wire \in Seq(Requests) /\ requests \in Seq(Requests)
  /\ reader = "push" => request \in Requests
  /\ TasksType(handler, response)
  /\ source = [r \in Reads |-> source[r]]
  /\ rx \in [Reads -> Seq(Nat)] /\ found \in [Reads -> Nat]
  /\ line \in Seq(Message) /\ responses \in Seq(Message)
  /\ writer = "write" => writing \in Message

-----------------------------------------------------------------------------
(* Where a request is                                                       *)

In(s, q)   == \E i \in 1..Len(s) : s[i] = q
Once(s, q) == \A i, j \in 1..Len(s) : s[i] = q /\ s[j] = q => i = j
InHand(q)  == reader = "push" /\ request = q

\* A request is in one place at most on its way to a task of its own.
RequestOK(q) ==
  /\ Once(wire, q) /\ Once(requests, q)
  /\ In(wire, q) => ~InHand(q) /\ ~In(requests, q) /\ handler[q] = "none"
  /\ InHand(q) => ~In(requests, q) /\ handler[q] = "none"
  /\ In(requests, q) => handler[q] = "none"
  /\ q \notin sent => ~In(wire, q) /\ ~InHand(q) /\ ~In(requests, q) /\ handler[q] = "none"

\* Nothing is done or said before the task runs, and nothing refused is done.
Early(q) == handler[q] \in {"none", "run"}

LineOK(q) ==
  /\ Early(q) => q \notin acted /\ \A i \in DOMAIN line : line[i].re # q
  /\ Says(q, "error") => q \notin acted

-----------------------------------------------------------------------------
(* What is said, from the client back to the tasks                          *)

Front == IF writer = "write" THEN Append(line, writing) ELSE line
Out   == Front \o responses

\* The responses to q among the first i, and the entries among them.
Said(s, q, i)      == {j \in 1..i : s[j].re = q}
SaidEntry(s, q, i) == {j \in Said(s, q, i) : s[j].what = "entry"}
Ended(s, q, i)     == \E j \in Said(s, q, i) : s[j].what \in {"end", "failed"}
Number(s, q, i)    == Cardinality(SaidEntry(s, q, i))

\* After i responses m may be said.
LegalWrite(s, i, m) ==
  /\ m.re \in Writes /\ m.n = 0 /\ Said(s, m.re, i) = {}
  /\ \/ m.what = "done" /\ m.re \in acted
     \/ m.what = "error" /\ m.re \notin acted

LegalRead(s, i, m) ==
  /\ m.re \in Reads /\ ~Ended(s, m.re, i)
  /\ m.what # "entry" => m.n = 0
  /\ \/ m.what = "start" /\ Said(s, m.re, i) = {}
     \/ m.what = "failed"
     \/ m.what = "end" /\ Said(s, m.re, i) # {}
     \/ /\ m.what = "entry" /\ Said(s, m.re, i) # {}
        /\ m.n = Number(s, m.re, i) + 1 /\ m.n <= MaxEntries

Legal(s, i, m) == LegalWrite(s, i, m) \/ LegalRead(s, i, m)

\* The entries in a channel follow the n-th, and f have been found.
Follow(s, f, n) ==
  /\ \A i \in 1..Len(s) : s[i] = n + i
  /\ f = n + Len(s) /\ f <= MaxEntries

Follows(r, n) == Follow(rx[r], found[r], n)

TaskOK(q) ==
  /\ Early(q) => Said(Out, q, Len(Out)) = {} /\ (q \in Reads => source[q] = "none" /\ Follows(q, 0))
  /\ handler[q] = "send" => Legal(Out, Len(Out), response[q])
  /\ q \in Reads =>
       /\ handler[q] = "stream" =>
            /\ Said(Out, q, Len(Out)) # {} /\ ~Ended(Out, q, Len(Out))
            /\ Follows(q, Number(Out, q, Len(Out)))
       /\ handler[q] = "send" /\ response[q].what = "start" => source[q] = "none" /\ Follows(q, 0)
       /\ handler[q] = "send" /\ response[q].what = "entry" => Follows(q, response[q].n)

\* As long as the client is there, all that is on its way to it is in order.
SpeechOK ==
  /\ writer \in {"recv", "write"}
  /\ \A i \in 1..Len(Out) : Legal(Out, i - 1, Out[i])
  /\ \A q \in Requests : TaskOK(q)

Inv ==
  /\ TypeOK
  /\ \A q \in Requests : RequestOK(q) /\ LineOK(q)
  /\ peer = "open" => SpeechOK

-----------------------------------------------------------------------------
(* Queues, and the type of the state                                        *)

\* What is in a queue that grows.
LEMMA InAppend ==
  ASSUME NEW S, NEW s \in Seq(S), NEW x \in S, NEW q
  PROVE  /\ Append(s, x) \in Seq(S)
         /\ In(Append(s, x), q) => In(s, q) \/ q = x
         /\ Once(s, q) /\ (q = x => ~In(s, q)) => Once(Append(s, x), q)
<1>1. /\ Append(s, x) \in Seq(S) /\ Len(Append(s, x)) = Len(s) + 1 /\ Len(s) \in Nat
      /\ \A i \in 1..Len(s) : Append(s, x)[i] = s[i]
      /\ \A i \in 1..Len(s) + 1 : i \in 1..Len(s) \/ i = Len(s) + 1
      /\ Append(s, x)[Len(s) + 1] = x
  BY SMT
<1> DEFINE t == Append(s, x)
<1> HIDE DEF t
<1>2. In(t, q) => In(s, q) \/ q = x
  BY <1>1 DEF In, t
<1>3. ASSUME Once(s, q), q = x => ~In(s, q), NEW i \in 1..Len(t), NEW j \in 1..Len(t), t[i] = q, t[j] = q
      PROVE  i = j
  <2>1. CASE q = x
    BY <1>1, <1>3, <2>1 DEF In, t
  <2>2. CASE q # x
    BY <1>1, <1>3, <2>2 DEF Once, t
  <2> QED BY <2>1, <2>2
<1> QED BY <1>1, <1>2, <1>3 DEF Once, t

\* What is in a queue that is taken from.
LEMMA InTail ==
  ASSUME NEW S, NEW s \in Seq(S), s # <<>>, NEW q
  PROVE  /\ Tail(s) \in Seq(S) /\ Head(s) \in S /\ In(s, Head(s))
         /\ In(Tail(s), q) => In(s, q)
         /\ Once(s, q) => Once(Tail(s), q)
         /\ Once(s, q) /\ q = Head(s) => ~In(Tail(s), q)
<1>1. /\ Tail(s) \in Seq(S) /\ Head(s) \in S /\ Head(s) = s[1] /\ 1 \in 1..Len(s)
      /\ \A i \in 1..Len(Tail(s)) : i + 1 \in 1..Len(s) /\ Tail(s)[i] = s[i + 1] /\ i + 1 # 1
      /\ \A i, j \in 1..Len(Tail(s)) : i + 1 = j + 1 => i = j
  BY SMT
<1>2. In(s, Head(s)) /\ (In(Tail(s), q) => In(s, q))
  BY <1>1 DEF In
<1>3. ASSUME Once(s, q), NEW i \in 1..Len(Tail(s)), NEW j \in 1..Len(Tail(s)), Tail(s)[i] = q, Tail(s)[j] = q
      PROVE  i = j
  <2>1. s[i + 1] = q /\ s[j + 1] = q /\ i + 1 \in 1..Len(s) /\ j + 1 \in 1..Len(s)
    BY <1>1, <1>3
  <2>2. i + 1 = j + 1
    BY <1>3, <2>1 DEF Once
  <2> QED BY <1>1, <2>2
<1>4. Once(s, q) /\ q = Head(s) => ~In(Tail(s), q)
  BY <1>1 DEF In, Once
<1> QED BY <1>1, <1>2, <1>3, <1>4 DEF Once

\* A task goes on.
LEMMA TaskType ==
  ASSUME NEW h, NEW p, TasksType(h, p), NEW q \in Requests,
         NEW at \in {"none", "run", "send", "stream", "ended"}, NEW m
  PROVE  /\ (at = "send" => m \in Message /\ m.re = q) =>
              TasksType([h EXCEPT ![q] = at], [p EXCEPT ![q] = m])
         /\ at # "send" => TasksType([h EXCEPT ![q] = at], p)
         /\ at # "send" => TasksType([h EXCEPT ![q] = at], [p EXCEPT ![q] = m])
<1> DEFINE g == [h EXCEPT ![q] = at]
           o == [p EXCEPT ![q] = m]
<1>1. /\ g \in [Requests -> {"none", "run", "send", "stream", "ended"}]
      /\ g[q] = at /\ \A x \in Requests : x # q => g[x] = h[x]
  BY DEF TasksType
<1>2. /\ o = [x \in Requests |-> o[x]] /\ o[q] = m
      /\ \A x \in Requests : x # q => o[x] = p[x]
  BY DEF TasksType
<1> HIDE DEF g, o
<1>3. (at = "send" => m \in Message /\ m.re = q) => TasksType(g, o)
  BY <1>1, <1>2 DEF TasksType
<1>4. at # "send" => TasksType(g, p)
  BY <1>1 DEF TasksType
<1>5. at # "send" => TasksType(g, o)
  BY <1>1, <1>2 DEF TasksType
<1> QED BY <1>3, <1>4, <1>5 DEF g, o

\* What the tasks of the requests do.
TaskStep(q) ==
  \/ HandlerStep(q)
  \/ q \in Reads /\ (Find(q) \/ Result(q))

\* The steps that leave the tasks of the requests alone.
LoopStep ==
  \/ ClientLeaves \/ StopReading \/ ReadRequest \/ PushRequest \/ SignalFromReader \/ ProcessDone
  \/ TakeResponse \/ WriteResponse \/ SignalFromWriter
  \/ \E q \in Requests : ClientSends(q)
  \/ UNCHANGED vars

\* Every step is one of these, or starts a task.
LEMMA Steps ==
  ASSUME [ServerNext]_vars
  PROVE  LoopStep \/ Process \/ \E q \in Requests : TaskStep(q)
<1>1. \A r \in Reads : r \in Requests
  BY DEF Requests
<1>2. CASE UNCHANGED vars
  BY <1>2 DEF LoopStep
<1>3. CASE ServerNext
  BY <1>1, <1>3 DEF ServerNext, ReaderStep, WriterStep, LoopStep, TaskStep
<1> QED BY <1>2, <1>3

\* The end of a read.
LEMMA EndFacts ==
  ASSUME NEW r, EndStream(r)
  PROVE  /\ handler[r] = "stream" /\ source[r] \in Over /\ rx[r] = <<>>
         /\ \/ \E what \in {"end", "failed"} : Sends(r, what, 0)
            \/ handler' = [handler EXCEPT ![r] = "ended"] /\ UNCHANGED response
BY SMT DEF EndStream, Conclude

\* A request moves from the wire to its task.
LEMMA RequestKept ==
  ASSUME TypeOK, [ServerNext]_vars, NEW q \in Requests, RequestOK(q)
  PROVE  RequestOK(q)'
<1>0. wire \in Seq(Requests) /\ requests \in Seq(Requests) /\ handler = [x \in Requests |-> handler[x]]
  BY DEF TypeOK, TasksType
<1>1. ASSUME NEW x \in Requests, ClientSends(x) PROVE RequestOK(q)'
  <2>1. /\ x \notin sent /\ sent' = sent \cup {x} /\ wire' = Append(wire, x)
        /\ UNCHANGED <<reader, request, requests, handler>>
    BY <1>1 DEF ClientSends
  <2>2. In(wire', q) => In(wire, q) \/ q = x
    BY <1>0, <2>1, InAppend
  <2>3. Once(wire, q) /\ (q = x => ~In(wire, q)) => Once(wire', q)
    BY <1>0, <2>1, InAppend
  <2> QED BY <2>1, <2>2, <2>3 DEF RequestOK, InHand
<1>2. CASE ReadRequest
  <2>1. /\ reader = "read" /\ wire # <<>> /\ request' = Head(wire) /\ wire' = Tail(wire) /\ reader' = "push"
        /\ UNCHANGED <<requests, handler, sent>>
    BY <1>2 DEF ReadRequest
  <2>2. /\ In(wire, Head(wire)) /\ (In(wire', q) => In(wire, q)) /\ (Once(wire, q) => Once(wire', q))
        /\ (Once(wire, q) /\ q = Head(wire) => ~In(wire', q))
    BY <1>0, <2>1, InTail
  <2> QED BY <2>1, <2>2 DEF RequestOK, InHand
<1>3. CASE PushRequest
  <2>1. /\ reader = "push" /\ requests' = Append(requests, request) /\ reader' = "read"
        /\ UNCHANGED <<wire, handler, sent>>
    BY <1>3 DEF PushRequest
  <2>2. request \in Requests
    BY <2>1 DEF TypeOK
  <2>3. In(requests', q) => In(requests, q) \/ q = request
    BY <1>0, <2>1, <2>2, InAppend
  <2>4. Once(requests, q) /\ (q = request => ~In(requests, q)) => Once(requests', q)
    BY <1>0, <2>1, <2>2, InAppend
  <2> QED BY <2>1, <2>3, <2>4 DEF RequestOK, InHand
<1>4. CASE Process
  <2>1. /\ requests # <<>> /\ requests' = Tail(requests) /\ handler' = [handler EXCEPT ![Head(requests)] = "run"]
        /\ UNCHANGED <<wire, reader, request, sent>>
    BY <1>4 DEF Process
  <2>2. /\ In(requests, Head(requests)) /\ (In(requests', q) => In(requests, q)) /\ Head(requests) \in Requests
        /\ (Once(requests, q) => Once(requests', q))
        /\ (Once(requests, q) /\ q = Head(requests) => ~In(requests', q))
    BY <1>0, <2>1, InTail
  <2>3. q # Head(requests) => handler'[q] = handler[q]
    BY <1>0, <2>1
  <2> QED BY <2>1, <2>2, <2>3 DEF RequestOK, InHand
<1>5. ASSUME NEW x \in Requests, TaskStep(x) PROVE RequestOK(q)'
  <2>1. /\ UNCHANGED <<wire, reader, request, requests, sent>>
    BY <1>5 DEF TaskStep, HandlerStep, SendResponse, handle_write, handle_read, SendEntry, EndStream, Conclude,
       Find, Result
  <2>2. \/ handler' = handler
        \/ handler[x] # "none" /\ \E at \in {"send", "stream", "ended"} : handler' = [handler EXCEPT ![x] = at]
    <3>1. CASE SendResponse(x)
      BY SMT, <3>1 DEF SendResponse
    <3>2. CASE EndStream(x)
      BY <3>2, EndFacts DEF Sends
    <3>3. CASE handle_write(x) \/ handle_read(x) \/ SendEntry(x) \/ Find(x) \/ Result(x)
      BY <3>3 DEF handle_write, handle_read, SendEntry, Find, Result, Sends
    <3> QED BY <1>5, <3>1, <3>2, <3>3 DEF TaskStep, HandlerStep
  <2>3. handler[q] = "none" => handler'[q] = "none"
    BY <1>0, <2>2
  <2> QED BY <2>1, <2>3 DEF RequestOK, InHand
<1>6. CASE ClientLeaves \/ StopReading \/ SignalFromReader \/ ProcessDone \/ TakeResponse \/ WriteResponse
           \/ SignalFromWriter \/ UNCHANGED vars
  <2>1. UNCHANGED <<wire, requests, handler, sent>> /\ (reader' = "push" => UNCHANGED <<reader, request>>)
    BY <1>6 DEF ClientLeaves, StopReading, SignalFromReader, ProcessDone, TakeResponse, WriteResponse,
       SignalFromWriter, vars
  <2> QED BY <2>1 DEF RequestOK, InHand
<1> QED BY <1>1, <1>2, <1>3, <1>4, <1>5, <1>6, Steps DEF LoopStep

\* The types are kept.
LEMMA TypeKept ==
  ASSUME TypeOK, [ServerNext]_vars
  PROVE  TypeOK'
<1>0. /\ sent \subseteq Requests /\ acted \subseteq Writes
      /\ wire \in Seq(Requests) /\ requests \in Seq(Requests)
      /\ reader = "push" => request \in Requests
      /\ TasksType(handler, response)
      /\ source = [r \in Reads |-> source[r]]
      /\ rx \in [Reads -> Seq(Nat)] /\ found \in [Reads -> Nat]
      /\ line \in Seq(Message) /\ responses \in Seq(Message)
      /\ writer = "write" => writing \in Message
  BY DEF TypeOK
<1>1. CASE LoopStep
  <2>1. UNCHANGED <<acted, handler, response, source, rx, found>>
    BY <1>1 DEF LoopStep, ClientSends, ReadRequest, PushRequest, ClientLeaves, StopReading, SignalFromReader,
       ProcessDone, TakeResponse, WriteResponse, SignalFromWriter, vars
  <2>2. sent' \subseteq Requests
    BY <1>0, <1>1 DEF LoopStep, ClientSends, ReadRequest, PushRequest, ClientLeaves, StopReading,
       SignalFromReader, ProcessDone, TakeResponse, WriteResponse, SignalFromWriter, vars
  <2>3. wire' \in Seq(Requests) /\ requests' \in Seq(Requests) /\ (reader' = "push" => request' \in Requests)
    <3>1. ASSUME NEW q \in Requests, ClientSends(q)
          PROVE  wire' \in Seq(Requests) /\ requests' \in Seq(Requests) /\ (reader' = "push" => request' \in Requests)
      BY <1>0, <3>1, InAppend DEF ClientSends
    <3>2. CASE ReadRequest
      BY <1>0, <3>2, InTail DEF ReadRequest
    <3>3. CASE PushRequest
      BY <1>0, <3>3, InAppend DEF PushRequest
    <3>4. CASE ClientLeaves \/ StopReading \/ SignalFromReader \/ ProcessDone \/ TakeResponse \/ WriteResponse
               \/ SignalFromWriter \/ UNCHANGED vars
      BY <1>0, <3>4 DEF ClientLeaves, StopReading, SignalFromReader, ProcessDone, TakeResponse, WriteResponse,
         SignalFromWriter, vars
    <3> QED BY <1>1, <3>1, <3>2, <3>3, <3>4 DEF LoopStep
  <2>4. line' \in Seq(Message) /\ responses' \in Seq(Message) /\ (writer' = "write" => writing' \in Message)
    <3>1. CASE TakeResponse
      BY <1>0, <3>1, InTail DEF TakeResponse
    <3>2. CASE WriteResponse
      <4>1. writing \in Message /\ writer' # "write" /\ UNCHANGED responses
        BY <1>0, <3>2 DEF WriteResponse
      <4>2. Append(line, writing) \in Seq(Message)
        BY <1>0, <4>1, InAppend
      <4> QED BY <1>0, <3>2, <4>1, <4>2 DEF WriteResponse
    <3>3. CASE SignalFromWriter
      <4>1. <<>> \in Seq(Message)
        BY SMT
      <4> QED BY <1>0, <3>3, <4>1 DEF SignalFromWriter
    <3>4. CASE ClientLeaves \/ StopReading \/ ReadRequest \/ PushRequest \/ SignalFromReader \/ ProcessDone
               \/ (\E q \in Requests : ClientSends(q)) \/ UNCHANGED vars
      BY <1>0, <3>4 DEF ClientLeaves, StopReading, ReadRequest, PushRequest, SignalFromReader, ProcessDone,
         ClientSends, vars
    <3> QED BY <1>1, <3>1, <3>2, <3>3, <3>4 DEF LoopStep
  <2> QED BY <1>0, <2>1, <2>2, <2>3, <2>4 DEF TypeOK
<1>2. CASE Process
  <2>1. /\ requests # <<>> /\ requests' = Tail(requests) /\ handler' = [handler EXCEPT ![Head(requests)] = "run"]
        /\ UNCHANGED <<sent, acted, wire, reader, request, response, source, rx, found, line, responses, writer,
                       writing>>
    BY <1>2 DEF Process
  <2>2. requests' \in Seq(Requests) /\ Head(requests) \in Requests
    BY <1>0, <2>1, InTail
  <2>3. TasksType(handler', response)
    BY <1>0, <2>1, <2>2, TaskType
  <2> QED BY <1>0, <2>1, <2>2, <2>3 DEF TypeOK
<1>3. ASSUME NEW q \in Requests, TaskStep(q) PROVE TypeOK'
  <2>0. /\ UNCHANGED <<sent, wire, reader, request, requests, line, writer, writing>>
        /\ acted' = acted \/ (q \in Writes /\ acted' = acted \cup {q})
    BY <1>3 DEF TaskStep, HandlerStep, SendResponse, handle_write, handle_read, SendEntry, EndStream, Conclude,
       Find, Result
  <2>1. ASSUME NEW what \in {"done", "error", "start", "entry", "end", "failed"}, NEW n \in Nat, Sends(q, what, n)
        PROVE  TasksType(handler', response')
    <3>1. Response(q, what, n) \in Message /\ Response(q, what, n).re = q
      BY SMT DEF Response, Message
    <3> QED BY <1>0, <2>1, <3>1, TaskType DEF Sends
  <2>2. CASE SendResponse(q)
    <3>1. handler[q] = "send" /\ UNCHANGED <<rx, found, acted>>
      BY <2>2 DEF SendResponse
    <3>2. response[q] \in Message
      BY <1>0, <3>1 DEF TasksType
    <3>3. responses' \in Seq(Message)
      <4>1. Append(responses, response[q]) \in Seq(Message)
        BY <1>0, <3>2, InAppend
      <4>2. responses' = Append(responses, response[q]) \/ responses' = responses
        BY <2>2 DEF SendResponse
      <4> QED BY <1>0, <4>1, <4>2
    <3>4. PICK at \in {"stream", "ended"} : /\ handler' = [handler EXCEPT ![q] = at]
                                           /\ response' = [response EXCEPT ![q] = Response(q, "none", 0)]
      BY SMT, <2>2 DEF SendResponse
    <3>5. TasksType([handler EXCEPT ![q] = at], [response EXCEPT ![q] = Response(q, "none", 0)])
      <4>1. at \in {"none", "run", "send", "stream", "ended"} /\ at # "send"
        BY <3>4
      <4> QED BY <1>0, <4>1, TaskType
    <3>6. source' = source \/ source' = [source EXCEPT ![q] = "reading"]
      BY SMT, <2>2 DEF SendResponse
    <3>7. source' = [r \in Reads |-> source'[r]]
      BY <1>0, <3>6
    <3> QED BY <1>0, <2>0, <3>1, <3>3, <3>4, <3>5, <3>7 DEF TypeOK
  <2>3. CASE handle_write(q) \/ handle_read(q) \/ (q \in Reads /\ EndStream(q))
    <3>1. UNCHANGED <<rx, source, found, responses>>
      BY <2>3 DEF handle_write, handle_read, EndStream, Conclude
    <3>2. 0 \in Nat
      BY SMT
    <3>3. TasksType(handler', response')
      <4>1. CASE EndStream(q)
        <5>1. CASE \E what \in {"end", "failed"} : Sends(q, what, 0)
          BY <2>1, <3>2, <5>1
        <5>2. CASE handler' = [handler EXCEPT ![q] = "ended"] /\ UNCHANGED response
          BY <1>0, <5>2, TaskType
        <5> QED BY <4>1, <5>1, <5>2, EndFacts
      <4>2. CASE handle_write(q) \/ handle_read(q)
        BY <2>1, <3>2, <4>2 DEF handle_write, handle_read
      <4> QED BY <2>3, <4>1, <4>2
    <3> QED BY <1>0, <2>0, <3>1, <3>3 DEF TypeOK
  <2>4. CASE q \in Reads /\ SendEntry(q)
    <3>1. rx[q] \in Seq(Nat) /\ rx[q] # <<>> /\ UNCHANGED <<source, found, responses, acted>>
      BY <1>0, <2>4 DEF SendEntry
    <3>2. Head(rx[q]) \in Nat /\ Tail(rx[q]) \in Seq(Nat)
      BY <3>1, InTail
    <3>3. TasksType(handler', response')
      BY <2>1, <2>4, <3>2 DEF SendEntry
    <3>4. rx' \in [Reads -> Seq(Nat)]
      BY <1>0, <2>4, <3>2 DEF SendEntry
    <3> QED BY <1>0, <2>0, <3>1, <3>3, <3>4 DEF TypeOK
  <2>5. CASE q \in Reads /\ Find(q)
    <3>1. /\ found' = [found EXCEPT ![q] = found[q] + 1] /\ rx' = [rx EXCEPT ![q] = Append(rx[q], found'[q])]
          /\ UNCHANGED <<handler, response, source, responses, acted>> /\ rx[q] \in Seq(Nat)
      BY <1>0, <2>5 DEF Find
    <3>2. found[q] + 1 \in Nat
      BY SMT, <1>0, <2>5
    <3>3. found' \in [Reads -> Nat] /\ found'[q] \in Nat
      BY <1>0, <2>5, <3>1, <3>2
    <3>4. Append(rx[q], found'[q]) \in Seq(Nat)
      BY <3>1, <3>3, InAppend
    <3>5. rx' \in [Reads -> Seq(Nat)]
      BY <1>0, <3>1, <3>4
    <3> QED BY <1>0, <2>0, <3>1, <3>3, <3>5 DEF TypeOK
  <2>6. CASE q \in Reads /\ Result(q)
    <3>1. /\ \E s : source' = [source EXCEPT ![q] = s]
          /\ UNCHANGED <<handler, response, rx, found, responses, acted>>
      BY <2>6 DEF Result
    <3>2. source' = [r \in Reads |-> source'[r]]
      BY <1>0, <3>1
    <3> QED BY <1>0, <2>0, <3>1, <3>2 DEF TypeOK
  <2> QED BY <1>3, <2>2, <2>3, <2>4, <2>5, <2>6 DEF TaskStep, HandlerStep
<1> QED BY <1>1, <1>2, <1>3, Steps

-----------------------------------------------------------------------------
(* What is on its way to the client                                         *)

\* Among the first i responses only the first i count.
LEMMA SaidPrefix ==
  ASSUME NEW s, NEW t, NEW i, \A j \in 1..i : t[j] = s[j], NEW q
  PROVE  /\ Said(t, q, i) = Said(s, q, i) /\ Number(t, q, i) = Number(s, q, i)
         /\ Ended(t, q, i) <=> Ended(s, q, i)
<1>1. Said(t, q, i) = Said(s, q, i)
  BY DEF Said
<1>2. SaidEntry(t, q, i) = SaidEntry(s, q, i)
  BY DEF Said, SaidEntry
<1>3. Ended(t, q, i) <=> Ended(s, q, i)
  BY DEF Said, Ended
<1> QED BY <1>1, <1>2, <1>3 DEF Number

\* The entries are counted.
LEMMA NumberType ==
  ASSUME NEW s, NEW q, NEW i \in Nat
  PROVE  /\ IsFiniteSet(SaidEntry(s, q, i)) /\ Number(s, q, i) \in Nat
         /\ Said(s, q, i) = {} => Number(s, q, i) = 0 /\ ~Ended(s, q, i)
<1>1. IsFiniteSet(1..i)
  BY SMT, FS_Interval
<1>2. SaidEntry(s, q, i) \subseteq 1..i
  BY DEF Said, SaidEntry
<1>3. IsFiniteSet(SaidEntry(s, q, i))
  BY <1>1, <1>2, FS_Subset
<1>4. Number(s, q, i) \in Nat
  BY <1>3, FS_CardinalityType DEF Number
<1>5. ASSUME Said(s, q, i) = {} PROVE Number(s, q, i) = 0 /\ ~Ended(s, q, i)
  <2>1. SaidEntry(s, q, i) = {} /\ ~Ended(s, q, i)
    BY <1>5 DEF SaidEntry, Ended
  <2> QED BY <2>1, FS_EmptySet DEF Number
<1> QED BY <1>3, <1>4, <1>5

\* One more response.
LEMMA SaidNext ==
  ASSUME NEW s \in Seq(Message), NEW m \in Message, NEW q
  PROVE  LET n == Len(s) t == Append(s, m) IN
         /\ n \in Nat /\ Len(t) = n + 1
         /\ m.re # q => /\ Said(t, q, n + 1) = Said(s, q, n) /\ Number(t, q, n + 1) = Number(s, q, n)
                        /\ Ended(t, q, n + 1) <=> Ended(s, q, n)
         /\ m.re = q => /\ Said(t, q, n + 1) # {}
                        /\ m.what \notin {"end", "failed"} /\ ~Ended(s, q, n) => ~Ended(t, q, n + 1)
                        /\ m.what # "entry" => Number(t, q, n + 1) = Number(s, q, n)
                        /\ m.what = "entry" => Number(t, q, n + 1) = Number(s, q, n) + 1
<1> DEFINE n == Len(s)
           t == Append(s, m)
<1>1. /\ n \in Nat /\ Len(t) = n + 1 /\ t[n + 1] = m /\ \A j \in 1..n : t[j] = s[j]
      /\ n + 1 \notin 1..n /\ n + 1 \in 1..n + 1 /\ \A j : j \in 1..n + 1 <=> j \in 1..n \/ j = n + 1
  BY SMT
<1> HIDE DEF n, t
<1>2. CASE m.re # q
  <2>1. Said(t, q, n + 1) = Said(s, q, n)
    BY <1>1, <1>2 DEF Said
  <2>2. \A j \in Said(s, q, n) : t[j] = s[j]
    BY <1>1 DEF Said
  <2>3. SaidEntry(t, q, n + 1) = SaidEntry(s, q, n) /\ (Ended(t, q, n + 1) <=> Ended(s, q, n))
    BY <2>1, <2>2 DEF SaidEntry, Ended
  <2> QED BY <1>1, <1>2, <2>1, <2>3 DEF Number, n, t
<1>3. CASE m.re = q
  <2>1. Said(t, q, n + 1) = Said(s, q, n) \cup {n + 1}
    BY <1>1, <1>3 DEF Said
  <2>2. \A j \in Said(s, q, n) : t[j] = s[j]
    BY <1>1 DEF Said
  <2>3. Said(t, q, n + 1) # {}
    BY <2>1
  <2>4. m.what \notin {"end", "failed"} /\ ~Ended(s, q, n) => ~Ended(t, q, n + 1)
    BY <1>1, <2>1, <2>2 DEF Ended
  <2>5. m.what # "entry" => SaidEntry(t, q, n + 1) = SaidEntry(s, q, n)
    BY <1>1, <2>1, <2>2 DEF SaidEntry
  <2>6. m.what = "entry" => SaidEntry(t, q, n + 1) = SaidEntry(s, q, n) \cup {n + 1}
    BY <1>1, <2>1, <2>2 DEF SaidEntry
  <2>7. n + 1 \notin SaidEntry(s, q, n) /\ IsFiniteSet(SaidEntry(s, q, n))
    BY <1>1, NumberType DEF SaidEntry, Said
  <2>8. m.what # "entry" => Number(t, q, n + 1) = Number(s, q, n)
    BY <2>5 DEF Number
  <2>9. m.what = "entry" => Number(t, q, n + 1) = Number(s, q, n) + 1
    BY <2>6, <2>7, FS_AddElement DEF Number
  <2> QED BY <1>1, <1>3, <2>3, <2>4, <2>8, <2>9 DEF n, t
<1> QED BY <1>2, <1>3 DEF n, t

\* Responses move from the channel through the write loop to the client.
LEMMA OutFacts ==
  ASSUME TypeOK
  PROVE  /\ Front \in Seq(Message) /\ Out \in Seq(Message) /\ Len(Out) \in Nat /\ Len(line) \in Nat
         /\ \A j \in 1..Len(line) : j \in 1..Len(Out) /\ Out[j] = line[j]
         /\ writer = "write" => Len(line) + 1 \in 1..Len(Out) /\ Out[Len(line) + 1] = writing
<1>1. line \in Seq(Message) /\ responses \in Seq(Message) /\ (writer = "write" => writing \in Message)
  BY DEF TypeOK
<1>2. CASE writer = "write"
  <2>1. Front = Append(line, writing)
    BY <1>2 DEF Front
  <2>2. /\ Front \in Seq(Message) /\ Len(Front) = Len(line) + 1 /\ Len(line) \in Nat
        /\ \A j \in 1..Len(line) : j \in 1..Len(Front) /\ Front[j] = line[j]
        /\ Len(line) + 1 \in 1..Len(Front) /\ Front[Len(line) + 1] = writing
    BY SMT, <1>1, <1>2, <2>1
  <2>3. /\ Out \in Seq(Message) /\ Len(Out) \in Nat
        /\ \A j \in 1..Len(Front) : j \in 1..Len(Out) /\ Out[j] = Front[j]
    BY SMT, <1>1, <2>2 DEF Out
  <2> QED BY <2>2, <2>3
<1>3. CASE writer # "write"
  <2>1. Front = line
    BY <1>3 DEF Front
  <2>2. Front \in Seq(Message) /\ Len(line) \in Nat
    BY SMT, <1>1, <2>1
  <2>3. /\ Out \in Seq(Message) /\ Len(Out) \in Nat
        /\ \A j \in 1..Len(Front) : j \in 1..Len(Out) /\ Out[j] = Front[j]
    BY SMT, <1>1, <2>2 DEF Out
  <2> QED BY <1>3, <2>1, <2>2, <2>3
<1> QED BY <1>2, <1>3

\* Taking the first of a queue to the end of another one.
LEMMA Moved ==
  ASSUME NEW s \in Seq(Message), NEW t \in Seq(Message), t # <<>>
  PROVE  Append(s, Head(t)) \o Tail(t) = s \o t
BY SMT

\* No step of the write loop changes what a connected client will read.
LEMMA OutSame ==
  ASSUME TypeOK, LoopStep, peer' = "open", writer # "done"
  PROVE  Out' = Out
<1>1. line \in Seq(Message) /\ responses \in Seq(Message)
  BY DEF TypeOK
<1>2. CASE TakeResponse
  <2>1. /\ writer = "recv" /\ writer' = "write" /\ writing' = Head(responses) /\ responses # <<>>
        /\ responses' = Tail(responses) /\ line' = line
    BY <1>2 DEF TakeResponse
  <2>2. Front = line /\ Front' = Append(line, Head(responses))
    BY <2>1 DEF Front
  <2> QED BY <1>1, <2>1, <2>2, Moved DEF Out
<1>3. CASE WriteResponse
  <2>1. writer = "write" /\ writer' = "recv" /\ line' = Append(line, writing) /\ responses' = responses
    BY <1>3 DEF WriteResponse
  <2>2. Front = Append(line, writing) /\ Front' = Append(line, writing)
    BY <2>1 DEF Front
  <2> QED BY <2>1, <2>2 DEF Out
<1>4. CASE UNCHANGED <<line, responses, writer, writing>>
  BY <1>4 DEF Front, Out
<1>5. TakeResponse \/ WriteResponse \/ UNCHANGED <<line, responses, writer, writing>>
  BY DEF LoopStep, ClientSends, ReadRequest, PushRequest, ClientLeaves, StopReading, SignalFromReader,
     ProcessDone, SignalFromWriter, vars
<1> QED BY <1>2, <1>3, <1>4, <1>5

\* A task says something.
LEMMA OutGrows ==
  ASSUME TypeOK, NEW m \in Message, responses' = Append(responses, m), UNCHANGED <<line, writer, writing>>
  PROVE  Out' = Append(Out, m)
<1>1. Front \in Seq(Message) /\ responses \in Seq(Message) /\ Front' = Front
  BY OutFacts DEF TypeOK, Front
<1>2. \A s, t \in Seq(Message) : s \o Append(t, m) = Append(s \o t, m)
  BY SMT
<1> QED BY <1>1, <1>2 DEF Out

\* What comes behind says nothing about what was legal.
LEMMA LegalPrefix ==
  ASSUME NEW s, NEW t, NEW i, NEW m, \A j \in 1..i : t[j] = s[j], Legal(s, i, m)
  PROVE  Legal(t, i, m)
BY SaidPrefix DEF Legal, LegalWrite, LegalRead

\* Entries come into the channel of a read and leave it in order.
LEMMA FollowAppend ==
  ASSUME NEW s \in Seq(Nat), NEW f \in Nat, NEW n \in Nat, Follow(s, f, n), f < MaxEntries
  PROVE  Follow(Append(s, f + 1), f + 1, n)
BY SMT, ServerAssumption DEF Follow

LEMMA FollowTail ==
  ASSUME NEW s \in Seq(Nat), NEW f \in Nat, NEW n \in Nat, Follow(s, f, n), s # <<>>
  PROVE  Head(s) = n + 1 /\ n + 1 <= MaxEntries /\ Follow(Tail(s), f, n + 1)
<1>1. /\ Head(s) = s[1] /\ 1 \in 1..Len(s) /\ Len(s) \in Nat /\ Len(Tail(s)) = Len(s) - 1 /\ Len(s) >= 1
      /\ \A i \in 1..Len(Tail(s)) : i + 1 \in 1..Len(s) /\ Tail(s)[i] = s[i + 1]
  BY SMT
<1>2. /\ \A i \in 1..Len(s) : s[i] = n + i
      /\ f = n + Len(s) /\ f <= MaxEntries
  BY DEF Follow
<1>3. Head(s) = n + 1 /\ n + 1 <= MaxEntries
  BY SMT, <1>1, <1>2, ServerAssumption
<1>4. \A i \in 1..Len(Tail(s)) : Tail(s)[i] = (n + 1) + i
  BY SMT, <1>1, <1>2
<1>5. f = (n + 1) + Len(Tail(s))
  BY SMT, <1>1, <1>2
<1> QED BY <1>2, <1>3, <1>4, <1>5 DEF Follow

\* A task that does not step, while another one may speak.
LEMMA TaskElse ==
  ASSUME TypeOK, NEW q \in Requests, TaskOK(q),
         Out' = Out \/ \E m \in Message : m.re # q /\ Out' = Append(Out, m),
         handler'[q] = handler[q], response'[q] = response[q],
         q \in Reads => source'[q] = source[q] /\ rx'[q] = rx[q] /\ found'[q] = found[q],
         q \in acted' <=> q \in acted
  PROVE  TaskOK(q)'
<1>0. Out \in Seq(Message)
  BY OutFacts
<1>1. /\ Said(Out', q, Len(Out')) = Said(Out, q, Len(Out)) /\ Number(Out', q, Len(Out')) = Number(Out, q, Len(Out))
      /\ Ended(Out', q, Len(Out')) <=> Ended(Out, q, Len(Out))
  <2>1. CASE Out' = Out
    BY <2>1
  <2>2. ASSUME NEW m \in Message, m.re # q, Out' = Append(Out, m)
        PROVE  /\ Said(Out', q, Len(Out')) = Said(Out, q, Len(Out))
               /\ Number(Out', q, Len(Out')) = Number(Out, q, Len(Out))
               /\ Ended(Out', q, Len(Out')) <=> Ended(Out, q, Len(Out))
    <3>1. /\ Len(Append(Out, m)) = Len(Out) + 1
          /\ Said(Append(Out, m), q, Len(Out) + 1) = Said(Out, q, Len(Out))
          /\ Number(Append(Out, m), q, Len(Out) + 1) = Number(Out, q, Len(Out))
          /\ Ended(Append(Out, m), q, Len(Out) + 1) <=> Ended(Out, q, Len(Out))
      BY <1>0, <2>2, SaidNext
    <3> QED BY <2>2, <3>1
  <2> QED BY <2>1, <2>2
<1>2. handler[q] = "send" => response[q].re = q
  BY DEF TypeOK, TasksType
<1>3. ASSUME handler[q] = "send", Legal(Out, Len(Out), response[q]) PROVE Legal(Out, Len(Out), response[q])'
  BY <1>1, <1>2, <1>3 DEF Legal, LegalWrite, LegalRead
<1>4. q \in Reads => \A n : Follows(q, n)' <=> Follows(q, n)
  BY DEF Follows
<1>5. q \in Reads => (Follows(q, Number(Out, q, Len(Out)))' <=> Follows(q, Number(Out, q, Len(Out))))
  BY <1>1 DEF Follows
<1>6. q \in Reads => (Follows(q, response[q].n)' <=> Follows(q, response[q].n))
  BY DEF Follows
<1>7. q \in Reads => (Follows(q, 0)' <=> Follows(q, 0))
  BY DEF Follows
<1> QED BY <1>1, <1>3, <1>5, <1>6, <1>7 DEF TaskOK, Early

\* What was said stays legal.
LEMMA SpeechSame ==
  ASSUME TypeOK, SpeechOK, Out' = Out, UNCHANGED acted
  PROVE  \A i \in 1..Len(Out') : Legal(Out, i - 1, Out[i])'
BY DEF SpeechOK, Legal, LegalWrite, LegalRead

\* The loops do not reorder responses.
LEMMA SpeechLoops ==
  ASSUME TypeOK, SpeechOK, LoopStep, peer' = "open"
  PROVE  SpeechOK'
<1>1. UNCHANGED <<acted, handler, response, source, rx, found>>
  BY DEF LoopStep, ClientSends, ReadRequest, PushRequest, ClientLeaves, StopReading, SignalFromReader,
     ProcessDone, TakeResponse, WriteResponse, SignalFromWriter, vars
<1>2. writer \in {"recv", "write"}
  BY DEF SpeechOK
<1>3. writer' \in {"recv", "write"}
  BY <1>2 DEF LoopStep, ClientSends, ReadRequest, PushRequest, ClientLeaves, StopReading, SignalFromReader,
     ProcessDone, TakeResponse, WriteResponse, SignalFromWriter, vars
<1>4. Out' = Out
  BY <1>2, OutSame
<1>5. ASSUME NEW q \in Requests PROVE TaskOK(q)'
  BY <1>1, <1>4, TaskElse DEF SpeechOK
<1> QED BY <1>1, <1>3, <1>4, <1>5, SpeechSame DEF SpeechOK

\* A task starts.
LEMMA SpeechStarts ==
  ASSUME TypeOK, \A q \in Requests : RequestOK(q), SpeechOK, Process
  PROVE  SpeechOK'
<1> DEFINE h == Head(requests)
<1>1. /\ handler' = [handler EXCEPT ![h] = "run"] /\ requests # <<>>
      /\ UNCHANGED <<acted, response, source, rx, found, line, responses, writer, writing>>
  BY DEF Process
<1>2. requests \in Seq(Requests) /\ handler = [x \in Requests |-> handler[x]]
  BY DEF TypeOK, TasksType
<1>3. h \in Requests /\ In(requests, h)
  BY <1>1, <1>2, InTail
<1>4. handler[h] = "none"
  BY <1>3 DEF RequestOK
<1>5. Out' = Out
  BY <1>1 DEF Front, Out
<1> HIDE DEF h
<1>6. handler'[h] = "run" /\ \A x \in Requests : x # h => handler'[x] = handler[x]
  BY <1>1, <1>2, <1>3
<1>7. ASSUME NEW q \in Requests PROVE TaskOK(q)'
  <2>0. TaskOK(q)
    BY DEF SpeechOK
  <2>1. CASE q = h
    <3>1. Said(Out, q, Len(Out)) = {} /\ (q \in Reads => source[q] = "none" /\ Follows(q, 0))
      BY <1>4, <2>0, <2>1 DEF TaskOK, Early
    <3>2. Said(Out, q, Len(Out))' = {} /\ (q \in Reads => source'[q] = "none" /\ Follows(q, 0)')
      BY <1>1, <1>5, <3>1 DEF Said, Follows
    <3>3. handler'[q] = "run"
      BY <1>6, <2>1
    <3> QED BY <3>2, <3>3 DEF TaskOK
  <2>2. CASE q # h
    BY <1>1, <1>5, <1>6, <2>0, <2>2, TaskElse
  <2> QED BY <2>1, <2>2
<1> QED BY <1>1, <1>5, <1>7, SpeechSame DEF SpeechOK

\* A task forms a response.
LEMMA SendsFacts ==
  ASSUME TypeOK, NEW x \in Requests, NEW what, NEW n, Sends(x, what, n)
  PROVE  /\ handler'[x] = "send" /\ response'[x].re = x /\ response'[x].what = what /\ response'[x].n = n
         /\ \A q \in Requests : q # x => handler'[q] = handler[q] /\ response'[q] = response[q]
<1>1. handler = [q \in Requests |-> handler[q]] /\ response = [q \in Requests |-> response[q]]
  BY DEF TypeOK, TasksType
<1>2. /\ handler' = [handler EXCEPT ![x] = "send"]
      /\ response' = [response EXCEPT ![x] = Response(x, what, n)]
  BY DEF Sends
<1>3. /\ Response(x, what, n).re = x /\ Response(x, what, n).what = what /\ Response(x, what, n).n = n
  BY SMT DEF Response
<1>4. response'[x] = Response(x, what, n) /\ handler'[x] = "send"
  BY <1>1, <1>2
<1> QED BY <1>1, <1>2, <1>3, <1>4

\* A task steps and says nothing yet; the others do not notice.
LEMMA SpeechOwn ==
  ASSUME TypeOK, SpeechOK, NEW x \in Requests, TaskOK(x)',
         UNCHANGED <<line, responses, writer, writing>>,
         \A q \in Requests : q # x =>
           /\ handler'[q] = handler[q] /\ response'[q] = response[q]
           /\ q \in Reads => source'[q] = source[q] /\ rx'[q] = rx[q] /\ found'[q] = found[q],
         acted' = acted \/ (acted' = acted \cup {x} /\ Early(x))
  PROVE  SpeechOK'
<1>1. Out' = Out
  BY DEF Out, Front
<1>2. ASSUME NEW q \in Requests PROVE TaskOK(q)'
  <2>1. CASE q # x
    <3>1. TaskOK(q) /\ (q \in acted' <=> q \in acted)
      BY <2>1 DEF SpeechOK
    <3> QED BY <1>1, <2>1, <3>1, TaskElse
  <2> QED BY <2>1
<1>3. ASSUME NEW i \in 1..Len(Out) PROVE Legal(Out, i - 1, Out[i])'
  <2>1. Legal(Out, i - 1, Out[i])
    BY DEF SpeechOK
  <2>2. Out[i].re \in acted' <=> Out[i].re \in acted
    <3>1. CASE Early(x)
      <4>1. Said(Out, x, Len(Out)) = {}
        BY <3>1 DEF SpeechOK, TaskOK
      <4>2. Out[i].re # x
        BY <4>1 DEF Said
      <4> QED BY <4>2
    <3> QED BY <3>1
  <2> QED BY <1>1, <2>1, <2>2 DEF Legal, LegalWrite, LegalRead
<1> QED BY <1>1, <1>2, <1>3 DEF SpeechOK

\* The write of a task is performed or refused.
LEMMA SpeechWrite ==
  ASSUME TypeOK, SpeechOK, NEW x \in Writes, LineOK(x), handle_write(x)
  PROVE  SpeechOK'
<1>1. /\ UNCHANGED <<line, responses, writer, writing, source, rx, found>> /\ handler[x] = "run"
      /\ x \in Requests /\ x \notin Reads
  BY ServerAssumption DEF handle_write, Requests
<1>2. Out' = Out /\ Early(x) /\ x \notin acted
  BY <1>1 DEF Out, Front, Early, LineOK
<1>3. PICK what \in {"done", "error"} :
        /\ Sends(x, what, 0)
        /\ what = "done" => acted' = acted \cup {x}
        /\ what = "error" => acted' = acted
  BY DEF handle_write
<1>4. /\ handler'[x] = "send" /\ response'[x].re = x /\ response'[x].what = what /\ response'[x].n = 0
      /\ \A q \in Requests : q # x => handler'[q] = handler[q] /\ response'[q] = response[q]
  BY <1>1, <1>3, SendsFacts
<1>5. Said(Out, x, Len(Out)) = {}
  BY <1>1, <1>2 DEF SpeechOK, TaskOK
<1>6. LegalWrite(Out, Len(Out), response[x])'
  <2>1. \/ what = "done" /\ x \in acted'
        \/ what = "error" /\ x \notin acted'
    BY <1>2, <1>3
  <2> QED BY <1>2, <1>4, <1>5, <2>1 DEF LegalWrite
<1>7. TaskOK(x)'
  BY <1>1, <1>4, <1>6 DEF TaskOK, Early, Legal
<1> QED BY <1>1, <1>2, <1>3, <1>4, <1>7, SpeechOwn

\* A read begins, goes on or ends.
LEMMA SpeechRead ==
  ASSUME TypeOK, SpeechOK, NEW x \in Reads, handle_read(x) \/ SendEntry(x) \/ EndStream(x)
  PROVE  SpeechOK'
<1>0. x \in Requests
  BY DEF Requests
<1>1. /\ UNCHANGED <<line, responses, writer, writing, source, found, acted>>
      /\ \A q \in Reads : q # x => rx'[q] = rx[q]
  <2>1. rx = [q \in Reads |-> rx[q]]
    BY DEF TypeOK
  <2>2. UNCHANGED <<line, responses, writer, writing, source, found, acted>>
    BY DEF handle_read, SendEntry, EndStream, Conclude
  <2>3. rx' = rx \/ rx' = [rx EXCEPT ![x] = Tail(rx[x])]
    BY DEF handle_read, SendEntry, EndStream, Conclude
  <2> QED BY <2>1, <2>2, <2>3
<1>2. Out' = Out /\ TaskOK(x) /\ Len(Out) \in Nat
  BY <1>0, <1>1, OutFacts DEF Out, Front, SpeechOK
<1> DEFINE k == Number(Out, x, Len(Out))
<1>3. ASSUME NEW what, NEW n, Sends(x, what, n),
             ~Ended(Out, x, Len(Out)), what # "entry" => n = 0,
             \/ what = "start" /\ Said(Out, x, Len(Out)) = {} /\ source'[x] = "none" /\ Follows(x, 0)'
             \/ what = "failed"
             \/ what = "end" /\ Said(Out, x, Len(Out)) # {}
             \/ /\ what = "entry" /\ Said(Out, x, Len(Out)) # {}
                /\ n = k + 1 /\ n <= MaxEntries /\ Follow(rx'[x], found'[x], n)
      PROVE  SpeechOK'
  <2>1. /\ handler'[x] = "send" /\ response'[x].re = x /\ response'[x].what = what /\ response'[x].n = n
        /\ \A q \in Requests : q # x => handler'[q] = handler[q] /\ response'[q] = response[q]
    BY <1>0, <1>3, SendsFacts
  <2>2. LegalRead(Out, Len(Out), response[x])'
    BY <1>2, <1>3, <2>1 DEF LegalRead
  <2>3. response'[x].what = "start" => source'[x] = "none" /\ Follows(x, 0)'
    BY <1>3, <2>1
  <2>4. response'[x].what = "entry" => Follows(x, response[x].n)'
    BY <1>3, <2>1 DEF Follows
  <2>5. TaskOK(x)'
    BY <2>1, <2>2, <2>3, <2>4 DEF TaskOK, Early, Legal
  <2> QED BY <1>0, <1>1, <2>1, <2>5, SpeechOwn
<1>4. CASE handle_read(x)
  <2>1. handler[x] = "run" /\ UNCHANGED rx
    BY <1>4 DEF handle_read
  <2>2. Said(Out, x, Len(Out)) = {} /\ source[x] = "none" /\ Follows(x, 0)
    BY <1>2, <2>1 DEF TaskOK, Early
  <2>3. ~Ended(Out, x, Len(Out)) /\ source'[x] = "none" /\ Follows(x, 0)'
    BY <1>1, <1>2, <2>1, <2>2, NumberType DEF Follows
  <2> QED BY <1>3, <1>4, <2>2, <2>3 DEF handle_read
<1>5. CASE SendEntry(x)
  <2>1. /\ handler[x] = "stream" /\ rx[x] # <<>> /\ Sends(x, "entry", Head(rx[x])) /\ rx'[x] = Tail(rx[x])
        /\ rx[x] \in Seq(Nat) /\ found[x] \in Nat
    BY <1>5 DEF SendEntry, TypeOK
  <2>2. Said(Out, x, Len(Out)) # {} /\ ~Ended(Out, x, Len(Out)) /\ Follow(rx[x], found[x], k) /\ k \in Nat
    BY <1>2, <2>1, NumberType DEF TaskOK, Follows
  <2> HIDE DEF k
  <2>3. Head(rx[x]) = k + 1 /\ k + 1 <= MaxEntries /\ Follow(Tail(rx[x]), found[x], k + 1)
    BY <2>1, <2>2, FollowTail
  <2>4. Follow(rx'[x], found'[x], Head(rx[x]))
    BY <1>1, <2>1, <2>3
  <2> QED BY <1>3, <2>1, <2>2, <2>3, <2>4
<1>6. CASE EndStream(x)
  <2>1. handler[x] = "stream"
    BY <1>6, EndFacts
  <2>2. Said(Out, x, Len(Out)) # {} /\ ~Ended(Out, x, Len(Out))
    BY <1>2, <2>1 DEF TaskOK
  <2>3. CASE \E what \in {"end", "failed"} : Sends(x, what, 0)
    BY <1>3, <2>2, <2>3
  <2>4. CASE handler' = [handler EXCEPT ![x] = "ended"] /\ UNCHANGED response
    <3>1. handler'[x] = "ended" /\ \A q \in Requests : q # x => handler'[q] = handler[q]
      BY <1>0, <2>4 DEF TypeOK, TasksType
    <3>2. TaskOK(x)'
      BY <3>1 DEF TaskOK, Early
    <3> QED BY <1>0, <1>1, <2>4, <3>1, <3>2, SpeechOwn
  <2> QED BY <1>6, <2>3, <2>4, EndFacts
<1> QED BY <1>4, <1>5, <1>6

\* reader_fsm.read finds an entry, or has its result.
LEMMA SpeechSource ==
  ASSUME TypeOK, SpeechOK, NEW x \in Reads, Find(x) \/ Result(x)
  PROVE  SpeechOK'
<1>0. x \in Requests /\ source[x] \in {"reading", "subscribed"}
  BY SMT DEF Requests, Find, Result, Results
<1>1. UNCHANGED <<line, responses, writer, writing, handler, response, acted>>
  BY DEF Find, Result
<1>2. Out' = Out /\ TaskOK(x) /\ Len(Out) \in Nat
  BY <1>0, <1>1, OutFacts DEF Out, Front, SpeechOK
<1>3. \A q \in Reads : q # x => source'[q] = source[q] /\ rx'[q] = rx[q] /\ found'[q] = found[q]
  BY DEF Find, Result, TypeOK
<1>4. ASSUME NEW n \in Nat, Follows(x, n) PROVE Follow(rx'[x], found'[x], n)
  <2>1. CASE Find(x)
    <3>1. /\ found'[x] = found[x] + 1 /\ rx'[x] = Append(rx[x], found[x] + 1) /\ found[x] < MaxEntries
          /\ rx[x] \in Seq(Nat) /\ found[x] \in Nat
      BY <2>1 DEF Find, TypeOK
    <3>2. Follow(Append(rx[x], found[x] + 1), found[x] + 1, n)
      BY <1>4, <3>1, FollowAppend DEF Follows
    <3> QED BY <3>1, <3>2
  <2>2. CASE Result(x)
    BY <1>4, <2>2 DEF Result, Follows
  <2> QED BY <2>1, <2>2
<1>5. ~Early(x) /\ ~(handler[x] = "send" /\ response[x].what = "start")
  BY <1>0, <1>2 DEF TaskOK
<1>6. handler[x] = "send" => Legal(Out, Len(Out), response[x])'
  BY <1>1, <1>2 DEF TaskOK, Legal, LegalWrite, LegalRead
<1>7. handler[x] = "stream" =>
        /\ Said(Out, x, Len(Out))' # {} /\ ~Ended(Out, x, Len(Out))'
        /\ Follows(x, Number(Out, x, Len(Out)))'
  <2>1. Number(Out, x, Len(Out)) \in Nat
    BY <1>2, NumberType
  <2> QED BY <1>2, <1>4, <2>1 DEF TaskOK, Follows
<1>8. handler[x] = "send" /\ response[x].what = "entry" => Follows(x, response[x].n)'
  <2>1. handler[x] = "send" => response[x].n \in Nat
    BY <1>0 DEF TypeOK, TasksType, Message
  <2> QED BY <1>1, <1>2, <1>4, <2>1 DEF TaskOK, Follows
<1>9. TaskOK(x)'
  BY <1>1, <1>5, <1>6, <1>7, <1>8 DEF TaskOK, Early
<1> QED BY <1>0, <1>1, <1>3, <1>9, SpeechOwn

\* A response is handed to the write loop.
LEMMA SpeechSend ==
  ASSUME TypeOK, SpeechOK, NEW x \in Requests, SendResponse(x)
  PROVE  SpeechOK'
<1> DEFINE m == response[x]
           n == Len(Out)
<1>1. /\ responses' = Append(responses, m) /\ handler[x] = "send"
      /\ response' = [response EXCEPT ![x] = Response(x, "none", 0)]
      /\ UNCHANGED <<line, writer, writing, rx, found, acted>>
  BY DEF SendResponse, SpeechOK
<1>2. /\ m.what \in {"start", "entry"} => handler' = [handler EXCEPT ![x] = "stream"]
      /\ m.what \notin {"start", "entry"} => handler' = [handler EXCEPT ![x] = "ended"]
      /\ source' = source \/ source' = [source EXCEPT ![x] = "reading"]
  <2>1. writer # "end"
    BY DEF SpeechOK
  <2> QED BY SMT, <2>1 DEF SendResponse
<1>3. m \in Message /\ m.re = x
  BY <1>1 DEF TypeOK, TasksType
<1>4. Out' = Append(Out, m) /\ Out \in Seq(Message) /\ n \in Nat
  BY <1>1, <1>3, OutGrows, OutFacts
<1>5. TaskOK(x) /\ Legal(Out, n, m)
  BY <1>1 DEF SpeechOK, TaskOK
<1>6. Len(Out') = n + 1 /\ Out'[n + 1] = m /\ \A j \in 1..n : Out'[j] = Out[j]
  BY SMT, <1>3, <1>4
<1> HIDE DEF m, n
<1>7. ASSUME NEW i \in 1..Len(Out') PROVE Legal(Out, i - 1, Out[i])'
  <2>1. i \in 1..n \/ (i = n + 1 /\ i - 1 = n)
    BY SMT, <1>4, <1>6
  <2>2. \A j \in 1..i - 1 : Out'[j] = Out[j]
    BY SMT, <1>4, <1>6
  <2>3. Legal(Out, i - 1, Out'[i])
    <3>1. CASE i \in 1..n
      BY <1>6, <3>1 DEF SpeechOK, n
    <3>2. CASE i = n + 1 /\ i - 1 = n
      BY <1>5, <1>6, <3>2
    <3> QED BY <2>1, <3>1, <3>2
  <2>4. Legal(Out', i - 1, Out'[i])
    BY <2>2, <2>3, LegalPrefix
  <2> QED BY <1>1, <2>4 DEF Legal, LegalWrite, LegalRead
<1>8. /\ \A q \in Requests : q # x => handler'[q] = handler[q] /\ response'[q] = response[q]
      /\ \A q \in Reads : q # x => source'[q] = source[q]
      /\ m.what \in {"start", "entry"} => handler'[x] = "stream"
      /\ m.what \notin {"start", "entry"} => handler'[x] = "ended"
  BY <1>1, <1>2 DEF TypeOK, TasksType
<1>9. ASSUME NEW q \in Requests PROVE TaskOK(q)'
  <2>1. CASE q # x
    BY <1>1, <1>3, <1>4, <1>8, <2>1, TaskElse DEF SpeechOK
  <2>2. CASE q = x /\ m.what \notin {"start", "entry"}
    BY <1>8, <2>2 DEF TaskOK, Early
  <2>3. CASE q = x /\ m.what \in {"start", "entry"}
    <3>1. x \in Reads => ~Ended(Out, x, n)
      BY <1>3, <1>5, ServerAssumption DEF Legal, LegalWrite, LegalRead
    <3>2. m.what \notin {"end", "failed"} /\ handler'[q] = "stream"
      BY <1>8, <2>3
    <3>3. x \in Reads => Said(Out', x, n + 1) # {} /\ ~Ended(Out', x, n + 1)
      BY <1>3, <1>4, <3>1, <3>2, SaidNext DEF n
    <3>4. x \in Reads => Follow(rx[x], found[x], Number(Out', x, n + 1))
      <4>1. CASE x \in Reads /\ m.what = "start"
        <5>1. Said(Out, x, n) = {} /\ Follow(rx[x], found[x], 0)
          BY <1>1, <1>3, <1>5, <4>1, ServerAssumption DEF Legal, LegalWrite, LegalRead, TaskOK, Follows, m
        <5>2. Number(Out, x, n) = 0
          BY <1>4, <5>1, NumberType
        <5>3. Number(Out', x, n + 1) = Number(Out, x, n)
          BY <1>3, <1>4, <4>1, SaidNext DEF n
        <5> QED BY <5>1, <5>2, <5>3
      <4>2. CASE x \in Reads /\ m.what = "entry"
        <5>1. m.n = Number(Out, x, n) + 1 /\ Follow(rx[x], found[x], m.n)
          BY <1>1, <1>3, <1>5, <4>2, ServerAssumption DEF Legal, LegalWrite, LegalRead, TaskOK, Follows, m
        <5>2. Number(Out', x, n + 1) = Number(Out, x, n) + 1
          BY <1>3, <1>4, <4>2, SaidNext DEF n
        <5> QED BY <5>1, <5>2
      <4> QED BY <2>3, <4>1, <4>2
    <3>5. q \in Reads =>
            /\ Said(Out, q, Len(Out))' # {} /\ ~Ended(Out, q, Len(Out))'
            /\ Follows(q, Number(Out, q, Len(Out)))'
      BY <1>1, <1>6, <2>3, <3>3, <3>4 DEF Follows
    <3> QED BY <3>2, <3>5 DEF TaskOK, Early
  <2> QED BY <2>1, <2>2, <2>3
<1> QED BY <1>1, <1>7, <1>9 DEF SpeechOK

\* The response that the write loop holds is legal for the client that reads it.
LEMMA NextIsLegal ==
  ASSUME TypeOK, SpeechOK, writer = "write"
  PROVE  /\ writing \in Message /\ Legal(line, Len(line), writing)
         /\ writing.re \in Requests /\ ~Early(writing.re)
<1>1. /\ Len(line) \in Nat /\ \A j \in 1..Len(line) : line[j] = Out[j]
      /\ Len(line) + 1 \in 1..Len(Out) /\ Out[Len(line) + 1] = writing
  BY OutFacts
<1>2. (Len(line) + 1) - 1 = Len(line)
  BY SMT, <1>1
<1>3. Legal(Out, Len(line), writing)
  BY <1>1, <1>2 DEF SpeechOK
<1>4. Legal(line, Len(line), writing)
  BY <1>1, <1>3, LegalPrefix
<1>5. writing \in Message /\ writing.re \in Requests
  BY DEF TypeOK, Message
<1>6. Said(Out, writing.re, Len(Out)) # {}
  BY <1>1 DEF Said
<1> QED BY <1>4, <1>5, <1>6 DEF SpeechOK, TaskOK

\* Nothing is done or said early, and nothing refused is done.
LEMMA LineKept ==
  ASSUME TypeOK, peer = "open" => SpeechOK, \A q \in Requests : RequestOK(q) /\ LineOK(q),
         [ServerNext]_vars, NEW q \in Requests
  PROVE  LineOK(q)'
<1>0. handler = [x \in Requests |-> handler[x]] /\ LineOK(q)
  BY DEF TypeOK, TasksType
<1>1. CASE WriteResponse /\ peer = "open"
  <2>1. /\ writer = "write" /\ line' = Append(line, writing) /\ UNCHANGED <<acted, handler>> /\ SpeechOK
    BY <1>1 DEF WriteResponse
  <2>2. writing \in Message /\ Legal(line, Len(line), writing) /\ ~Early(writing.re)
    BY <2>1, NextIsLegal
  <2>3. /\ \A i \in DOMAIN line' : i \in DOMAIN line \/ i = Len(line) + 1
        /\ \A i \in DOMAIN line : line'[i] = line[i]
        /\ line'[Len(line) + 1] = writing
    BY SMT, <2>1, <2>2 DEF TypeOK
  <2>4. ASSUME Early(q)' PROVE q \notin acted' /\ \A i \in DOMAIN line' : line'[i].re # q
    <3>1. Early(q) /\ writing.re # q
      BY <2>1, <2>2, <2>4 DEF Early
    <3> QED BY <1>0, <2>1, <2>3, <3>1 DEF LineOK
  <2>5. ASSUME Says(q, "error")' PROVE q \notin acted'
    <3>1. Says(q, "error") \/ (writing.re = q /\ writing.what = "error")
      BY <2>3, <2>5 DEF Says
    <3>2. writing.re = q /\ writing.what = "error" => q \notin acted
      BY <2>2 DEF Legal, LegalWrite, LegalRead
    <3> QED BY <1>0, <2>1, <3>1, <3>2 DEF LineOK
  <2> QED BY <2>4, <2>5 DEF LineOK
<1>2. ASSUME line' = line, Early(q)' => Early(q), q \in acted' => q \in acted \/ (Early(q) /\ ~Early(q)')
      PROVE  LineOK(q)'
  <2>1. Says(q, "error")' <=> Says(q, "error")
    BY <1>2 DEF Says
  <2>2. Early(q) => ~Says(q, "error")
    BY <1>0 DEF LineOK, Says
  <2> QED BY <1>0, <1>2, <2>1, <2>2 DEF LineOK
<1>3. CASE LoopStep /\ ~(WriteResponse /\ peer = "open")
  <2>1. UNCHANGED <<acted, handler>>
    BY <1>3 DEF LoopStep, ClientSends, ReadRequest, PushRequest, ClientLeaves, StopReading, SignalFromReader,
       ProcessDone, TakeResponse, WriteResponse, SignalFromWriter, vars
  <2>2. line' = line
    BY <1>3 DEF LoopStep, ClientSends, ReadRequest, PushRequest, ClientLeaves, StopReading, SignalFromReader,
       ProcessDone, TakeResponse, WriteResponse, SignalFromWriter, vars
  <2> QED BY <1>2, <2>1, <2>2 DEF Early
<1>4. CASE Process
  <2>1. /\ requests # <<>> /\ requests \in Seq(Requests) /\ UNCHANGED <<acted, line>>
        /\ handler' = [handler EXCEPT ![Head(requests)] = "run"]
    BY <1>4 DEF Process, TypeOK
  <2>2. Head(requests) \in Requests /\ In(requests, Head(requests))
    BY <2>1, InTail
  <2>3. handler[Head(requests)] = "none"
    BY <2>2 DEF RequestOK
  <2>4. q # Head(requests) => handler'[q] = handler[q]
    BY <1>0, <2>1
  <2>5. Early(q)' => Early(q)
    BY <2>3, <2>4 DEF Early
  <2> QED BY <1>2, <2>1, <2>5
<1>5. ASSUME NEW x \in Requests, TaskStep(x) PROVE LineOK(q)'
  <2>1. line' = line
    BY <1>5 DEF TaskStep, HandlerStep, SendResponse, handle_write, handle_read, SendEntry, EndStream, Conclude,
       Find, Result
  <2>2. \/ handler' = handler
        \/ \E at \in {"send", "stream", "ended"} : handler' = [handler EXCEPT ![x] = at]
    <3>1. CASE SendResponse(x)
      BY SMT, <3>1 DEF SendResponse
    <3>2. CASE EndStream(x)
      BY <3>2, EndFacts DEF Sends
    <3>3. CASE handle_write(x) \/ handle_read(x) \/ SendEntry(x) \/ Find(x) \/ Result(x)
      BY <3>3 DEF handle_write, handle_read, SendEntry, Find, Result, Sends
    <3> QED BY <1>5, <3>1, <3>2, <3>3 DEF TaskStep, HandlerStep
  <2>3. Early(q)' => Early(q)
    BY <1>0, <2>2 DEF Early
  <2>4. acted' = acted \/ (handle_write(x) /\ acted' = acted \cup {x})
    BY <1>5 DEF TaskStep, HandlerStep, SendResponse, handle_write, handle_read, SendEntry, EndStream, Conclude,
       Find, Result
  <2>5. handle_write(x) => Early(x) /\ ~Early(x)'
    BY <1>0 DEF handle_write, Sends, Early
  <2> QED BY <1>2, <2>1, <2>3, <2>4, <2>5
<1> QED BY <1>1, <1>3, <1>4, <1>5, Steps

\* The invariant holds when the connection is made.
LEMMA InvStarts == ServerInit => Inv
<1> SUFFICES ASSUME ServerInit PROVE Inv
  OBVIOUS
<1>0. /\ sent = {} /\ wire = <<>> /\ reader = "read" /\ requests = <<>> /\ acted = {} /\ line = <<>>
      /\ handler = [q \in Requests |-> "none"] /\ response = [q \in Requests |-> Response(q, "none", 0)]
      /\ source = [r \in Reads |-> "none"] /\ found = [r \in Reads |-> 0] /\ rx = [r \in Reads |-> <<>>]
      /\ responses = <<>> /\ writer = "recv"
  BY DEF ServerInit
<1>1. /\ \A S : <<>> \in Seq(S)
      /\ 0 \in Nat /\ Len(<<>>) = 0 /\ 1..0 = {} /\ DOMAIN <<>> = {} /\ <<>> \o <<>> = <<>>
  BY SMT
<1>2. TypeOK
  <2>1. handler \in [Requests -> {"none", "run", "send", "stream", "ended"}]
    BY <1>0
  <2>2. response = [q \in Requests |-> response[q]] /\ source = [r \in Reads |-> source[r]]
    BY <1>0
  <2>3. \A q \in Requests : handler[q] # "send"
    BY <1>0
  <2>4. rx \in [Reads -> Seq(Nat)] /\ found \in [Reads -> Nat]
    BY <1>0, <1>1
  <2>5. wire \in Seq(Requests) /\ requests \in Seq(Requests) /\ line \in Seq(Message) /\ responses \in Seq(Message)
    BY <1>0, <1>1
  <2> QED BY <1>0, <2>1, <2>2, <2>3, <2>4, <2>5 DEF TypeOK, TasksType
<1>3. ASSUME NEW q \in Requests PROVE RequestOK(q) /\ LineOK(q)
  BY <1>0, <1>1, <1>3 DEF RequestOK, LineOK, In, Once, InHand, Says
<1>4. Out = <<>> /\ Len(Out) = 0 /\ 1..Len(Out) = {}
  BY <1>0, <1>1 DEF Out, Front
<1>5. ASSUME NEW q \in Requests PROVE TaskOK(q)
  <2>1. handler[q] = "none" /\ Said(Out, q, Len(Out)) = {}
    BY <1>0, <1>4 DEF Said
  <2>2. Follow(<<>>, 0, 0)
    BY SMT, ServerAssumption DEF Follow
  <2>3. q \in Reads => source[q] = "none" /\ Follows(q, 0)
    BY <1>0, <2>2 DEF Follows
  <2> QED BY <2>1, <2>3 DEF TaskOK
<1>6. SpeechOK
  BY <1>0, <1>4, <1>5 DEF SpeechOK
<1> QED BY <1>2, <1>3, <1>6 DEF Inv

\* Every step keeps it.
LEMMA InvKept == Inv /\ [ServerNext]_vars => Inv'
<1> SUFFICES ASSUME Inv, [ServerNext]_vars PROVE Inv'
  OBVIOUS
<1>0. TypeOK /\ (\A q \in Requests : RequestOK(q) /\ LineOK(q)) /\ (peer = "open" => SpeechOK)
  BY DEF Inv
<1>1. TypeOK'
  BY <1>0, TypeKept
<1>2. ASSUME NEW q \in Requests PROVE RequestOK(q)' /\ LineOK(q)'
  BY <1>0, RequestKept, LineKept
<1>3. ASSUME peer' = "open" PROVE SpeechOK'
  <2>1. peer = "open"
    <3>1. peer' = peer \/ peer' = "gone"
      BY DEF ServerNext, ReaderStep, WriterStep, ClientSends, ReadRequest, PushRequest, ClientLeaves, StopReading,
         SignalFromReader, Process, ProcessDone, TakeResponse, WriteResponse, SignalFromWriter, vars,
         HandlerStep, SendResponse, handle_write, handle_read, SendEntry, EndStream, Conclude, Find, Result
    <3> QED BY <1>3, <3>1
  <2>2. SpeechOK
    BY <1>0, <2>1
  <2>3. ASSUME NEW x \in Requests, TaskStep(x) PROVE SpeechOK'
    <3>1. CASE SendResponse(x)
      BY <1>0, <2>2, <3>1, SpeechSend
    <3>2. CASE x \in Writes /\ handle_write(x)
      BY <1>0, <2>2, <3>2, SpeechWrite
    <3>3. CASE x \in Reads /\ (handle_read(x) \/ SendEntry(x) \/ EndStream(x))
      BY <1>0, <2>2, <3>3, SpeechRead
    <3>4. CASE x \in Reads /\ (Find(x) \/ Result(x))
      BY <1>0, <2>2, <3>4, SpeechSource
    <3> QED BY <2>3, <3>1, <3>2, <3>3, <3>4 DEF TaskStep, HandlerStep
  <2>4. CASE LoopStep
    BY <1>0, <1>3, <2>2, <2>4, SpeechLoops
  <2>5. CASE Process
    BY <1>0, <2>2, <2>5, SpeechStarts
  <2> QED BY <2>3, <2>4, <2>5, Steps
<1> QED BY <1>1, <1>2, <1>3 DEF Inv

-----------------------------------------------------------------------------
(* The promise                                                              *)

\* The requests that are asked for in Promise.
Asking == {s \in sent : ~Says(s, "error")}

\* One connection, its requests, and the writes performed for it.
LEMMA OneLine ==
  ASSUME NEW L, NEW M
  PROVE  /\ Len(<<L>>) = 1 /\ <<L>>[1] = L /\ [<<L>> EXCEPT ![1] = M] = <<M>> /\ 1 \in 1..1
BY SMT

LEMMA Pairs ==
  ASSUME NEW S, NEW q
  PROVE  /\ <<q, 1>> \in {<<s, 1>> : s \in S} <=> q \in S
         /\ {<<s, 1>> : s \in S} \cup {<<q, 1>>} = {<<s, 1>> : s \in S \cup {q}}
         /\ {<<s, 1>> : s \in S} \ {<<q, 1>>} = {<<s, 1>> : s \in S \ {q}}
BY SMT

\* A request that the client sends is asked for.
LEMMA StepAsks ==
  ASSUME Inv, NEW q \in Requests, ClientSends(q)
  PROVE  Promise!ProtocolNext
<1>1. q \notin sent /\ sent' = sent \cup {q} /\ UNCHANGED <<line, acted>>
  BY DEF ClientSends
<1>2. ~Says(q, "error")
  BY <1>1 DEF Inv, RequestOK, LineOK, Early, Says
<1>3. Asking' = Asking \cup {q}
  BY <1>1, <1>2 DEF Says, Asking
<1>4. {<<x, 1>> : x \in Asking'} = {<<x, 1>> : x \in Asking} \cup {<<q, 1>>}
  BY <1>3, Pairs
<1>5. Promise!epoch = 1
  BY OneLine DEF Promise!epoch
<1>6. Promise!Ask(q)
  BY <1>1, <1>4, <1>5 DEF Promise!Ask, Asking
<1> QED BY <1>6 DEF Promise!ProtocolNext, Promise!Requests, Requests

\* A write that is enqueued was asked for and is performed for the first time.
LEMMA StepPerforms ==
  ASSUME Inv, NEW w \in Writes, handle_write(w), acted' # acted
  PROVE  Promise!ProtocolNext
<1>1. handler[w] = "run" /\ acted' = acted \cup {w} /\ UNCHANGED <<line, sent>> /\ w \in Requests
  BY DEF handle_write, Requests
<1>2. w \in sent /\ ~Says(w, "error") /\ w \notin acted
  BY <1>1 DEF Inv, RequestOK, LineOK, Early, Says
<1>3. {s \in sent : ~Says(s, "error")}' = {s \in sent : ~Says(s, "error")}
  BY <1>1 DEF Says
<1>4. Promise!Perform(w, 1)
  <2>1. /\ <<w, 1>> \in {<<q, 1>> : q \in {s \in sent : ~Says(s, "error")}}
        /\ <<w, 1>> \notin {<<x, 1>> : x \in acted}
    BY <1>2, Pairs
  <2>2. {<<x, 1>> : x \in acted'} = {<<x, 1>> : x \in acted} \cup {<<w, 1>>}
    BY <1>1, Pairs
  <2> QED BY <1>1, <1>3, <2>1, <2>2 DEF Promise!Perform
<1>5. 1 \in 1..Promise!epoch
  BY OneLine DEF Promise!epoch
<1> QED BY <1>4, <1>5 DEF Promise!ProtocolNext, Promise!Serve

\* The protocol counts as this module does.
LEMMA SameCount ==
  ASSUME NEW S
  PROVE  Promise!Cardinality(S) = Cardinality(S)
  BY DEF Cardinality, Promise!Cardinality

\* What the client reads is an answer of the protocol.
LEMMA StepAnswers ==
  ASSUME Inv, WriteResponse, line' # line
  PROVE  Promise!ProtocolNext
<1>0. /\ writer = "write" /\ peer = "open" /\ line' = Append(line, writing) /\ UNCHANGED <<sent, acted>>
      /\ line \in Seq(Message) /\ TypeOK /\ SpeechOK
  BY DEF WriteResponse, Inv, TypeOK
<1>1. PICK m \in Message, q \in Requests, n \in Nat : m = writing /\ q = m.re /\ n = Len(line)
  BY <1>0, NextIsLegal, OutFacts
<1>2. Legal(line, n, m) /\ ~Early(q)
  <2>1. Legal(line, Len(line), writing) /\ ~Early(writing.re)
    BY <1>0, NextIsLegal
  <2> QED BY <1>1, <2>1
<1>3. q \in sent
  BY <1>2 DEF Inv, RequestOK, Early
<1>4. /\ DOMAIN line = 1..n /\ DOMAIN line' = 1..n + 1 /\ line'[n + 1] = m
      /\ \A i \in 1..n : line'[i] = line[i]
      /\ n + 1 \in 1..n + 1 /\ \A i : i \in 1..n + 1 <=> i \in 1..n \/ i = n + 1
  BY SMT, <1>0, <1>1
<1>5. m = [re |-> q, what |-> m.what, n |-> m.n]
  BY SMT, <1>1 DEF Message
<1>6. /\ Promise!epoch = 1
      /\ Promise!About(q, 1) = Said(line, q, n)
      /\ Promise!Entries(q, 1) = SaidEntry(line, q, n)
      /\ Promise!IsOver(q, 1) <=> Ended(line, q, n)
  BY <1>4, OneLine DEF Promise!epoch, Promise!About, Promise!Entries, Promise!IsOver, Said, SaidEntry, Ended
<1>7. Promise!Say(q, m.what, m.n)
  BY <1>0, <1>1, <1>5, <1>6, OneLine DEF Promise!Say
<1>8. \A x : Says(x, "error")' <=> Says(x, "error") \/ (x = q /\ m.what = "error")
  BY <1>1, <1>4 DEF Says
<1>9. ~Says(q, "error")
  <2>1. \A i \in 1..n : i \notin Said(line, q, n) => line[i].re # q
    BY DEF Said
  <2>2. CASE LegalWrite(line, n, m)
    BY <1>1, <1>4, <2>1, <2>2 DEF LegalWrite, Says
  <2>3. CASE LegalRead(line, n, m)
    <3>1. \A i \in 1..n : i \in 1..Len(Out) /\ line[i] = Out[i]
      BY <1>0, <1>1, OutFacts
    <3>2. \A i \in 1..Len(Out) : Out[i].what = "error" => Out[i].re \in Writes
      BY <1>0 DEF SpeechOK, Legal, LegalWrite, LegalRead
    <3>3. q \notin Writes
      BY <1>1, <2>3, ServerAssumption DEF LegalRead
    <3> QED BY <1>4, <3>1, <3>2, <3>3 DEF Says
  <2> QED BY <1>2, <2>2, <2>3 DEF Legal
<1>10. <<q, 1>> \in {<<x, 1>> : x \in Asking}
  <2>1. q \in Asking
    BY <1>3, <1>9 DEF Asking
  <2> QED BY <2>1, Pairs
<1>11. m.what # "error" => Asking' = Asking
  BY <1>0, <1>8 DEF Asking
<1>12. m.what = "error" => Asking' = Asking \ {q}
  BY <1>0, <1>8 DEF Asking
<1>13. CASE LegalWrite(line, n, m)
  <2>1. q \in Writes /\ m.n = 0 /\ Promise!About(q, 1) = {}
    BY <1>1, <1>6, <1>13 DEF LegalWrite
  <2>2. CASE m.what = "done" /\ q \in acted
    <3>1. <<q, 1>> \in {<<x, 1>> : x \in acted}
      BY <2>2, Pairs
    <3>2. Promise!AnswerDone(q)
      BY <1>0, <1>6, <1>7, <1>11, <2>1, <2>2, <3>1 DEF Promise!AnswerDone, Promise!Answered, Asking
    <3> QED BY <2>1, <3>2 DEF Promise!ProtocolNext, Promise!Serve
  <2>3. CASE m.what = "error" /\ q \notin acted
    <3>1. <<q, 1>> \notin {<<x, 1>> : x \in acted}
      BY <2>3, Pairs
    <3>2. {<<x, 1>> : x \in Asking'} = {<<x, 1>> : x \in Asking} \ {<<q, 1>>}
      <4>1. Asking' = Asking \ {q}
        BY <1>12, <2>3
      <4>2. {<<x, 1>> : x \in Asking} \ {<<q, 1>>} = {<<x, 1>> : x \in Asking \ {q}}
        BY Pairs
      <4> QED BY <4>1, <4>2
    <3>3. Promise!AnswerError(q)
      BY <1>0, <1>6, <1>7, <1>10, <2>1, <2>3, <3>1, <3>2 DEF Promise!AnswerError, Promise!Answered, Asking
    <3>4. Promise!Serve
      <4>1. \E w \in Writes : Promise!AnswerError(w)
        BY <2>1, <3>3
      <4> QED BY <4>1 DEF Promise!Serve
    <3> QED BY <3>4 DEF Promise!ProtocolNext
  <2> QED BY <1>1, <1>13, <2>2, <2>3 DEF LegalWrite
<1>14. CASE LegalRead(line, n, m)
  <2>1. /\ q \in Reads /\ ~Promise!IsOver(q, 1) /\ (m.what # "entry" => m.n = 0) /\ m.what # "error"
        /\ \/ m.what = "start" /\ Promise!About(q, 1) = {}
           \/ m.what = "failed"
           \/ m.what = "end" /\ Promise!About(q, 1) # {}
           \/ /\ m.what = "entry" /\ Promise!About(q, 1) # {}
              /\ m.n = Cardinality(Promise!Entries(q, 1)) + 1 /\ m.n <= MaxEntries
    BY <1>1, <1>6, <1>14 DEF LegalRead, Number
  <2>2. Cardinality(Promise!Entries(q, 1)) \in Nat
    BY <1>6, NumberType DEF Number
  <2>3. m.what = "entry" => Cardinality(Promise!Entries(q, 1)) < MaxEntries
    BY SMT, <2>1, <2>2, ServerAssumption
  <2>4. \/ ~Promise!Answered(q) /\ \E what \in {"start", "failed"} : Promise!Say(q, what, 0)
        \/ /\ Promise!Answered(q) /\ Cardinality(Promise!Entries(q, 1)) < MaxEntries
           /\ Promise!Say(q, "entry", Cardinality(Promise!Entries(q, 1)) + 1)
        \/ Promise!Answered(q) /\ \E what \in {"end", "failed"} : Promise!Say(q, what, 0)
    <3>1. Promise!Answered(q) <=> Promise!About(q, 1) # {}
      BY <1>6 DEF Promise!Answered
    <3>2. CASE m.what = "start"
      BY <1>7, <2>1, <3>1, <3>2
    <3>3. CASE m.what = "failed"
      BY <1>7, <2>1, <3>1, <3>3
    <3>4. CASE m.what = "end"
      BY <1>7, <2>1, <3>1, <3>4
    <3>5. CASE m.what = "entry"
      BY <1>7, <2>1, <2>3, <3>1, <3>5
    <3> QED BY <2>1, <3>2, <3>3, <3>4, <3>5
  <2>5. UNCHANGED {<<x, 1>> : x \in Asking} /\ UNCHANGED {<<x, 1>> : x \in acted}
    BY <1>0, <1>11, <2>1
  <2>6. Promise!Stream(q)
    <3> DEFINE e == Promise!epoch
    <3>1. <<q, e>> \in {<<x, 1>> : x \in Asking} /\ ~Promise!IsOver(q, e)
      BY <1>6, <1>10, <2>1
    <3>2. CASE ~Promise!Answered(q) /\ \E what \in {"start", "failed"} : Promise!Say(q, what, 0)
      BY <2>5, <3>1, <3>2 DEF Promise!Stream, Asking
    <3>3. CASE Promise!Answered(q) /\ \E what \in {"end", "failed"} : Promise!Say(q, what, 0)
      BY <2>5, <3>1, <3>3 DEF Promise!Stream, Asking
    <3>4. CASE /\ Promise!Answered(q) /\ Cardinality(Promise!Entries(q, 1)) < MaxEntries
               /\ Promise!Say(q, "entry", Cardinality(Promise!Entries(q, 1)) + 1)
      <4>1. Cardinality(Promise!Entries(q, 1)) = Promise!Cardinality(Promise!Entries(q, e))
        BY <1>6, SameCount
      <4>2. /\ Promise!Answered(q) /\ Promise!Cardinality(Promise!Entries(q, e)) < MaxEntries
            /\ Promise!Say(q, "entry", Promise!Cardinality(Promise!Entries(q, e)) + 1)
        BY <3>4, <4>1 DEF Promise!Say
      <4> QED BY <2>5, <3>1, <4>2 DEF Promise!Stream, Asking
    <3> QED BY <2>4, <3>2, <3>3, <3>4
  <2> QED BY <2>1, <2>6 DEF Promise!ProtocolNext, Promise!Serve
<1> QED BY <1>2, <1>13, <1>14 DEF Legal

\* The server keeps its promise, for any number of requests and entries, any
\* size of the channels and any interleaving of the three loops, the tasks and
\* the reads behind them: a write is performed at most once and before it is
\* answered with an id, a refused one never; and the responses to a read are a
\* start, its entries in order and at most one end.
THEOREM PromiseIsKept == ServerSpec => KeepsPromise
<1>1. ServerInit => Promise!ProtocolInit
  <2> SUFFICES ASSUME ServerInit PROVE Promise!ProtocolInit
    OBVIOUS
  <2>1. sent = {} /\ acted = {} /\ line = <<>>
    BY DEF ServerInit
  <2> QED BY <2>1 DEF Promise!ProtocolInit
<1>2. Inv /\ [ServerNext]_vars => [Promise!ProtocolNext]_(Promise!protocolVars)
  <2> SUFFICES ASSUME Inv, [ServerNext]_vars, ~UNCHANGED Promise!protocolVars PROVE Promise!ProtocolNext
    OBVIOUS
  <2>1. ~UNCHANGED <<sent, acted, line>>
    BY DEF Promise!protocolVars, Says
  <2>2. \/ \E q \in Requests : ClientSends(q)
        \/ \E w \in Writes : handle_write(w) /\ acted' # acted
        \/ WriteResponse /\ line' # line
    <3>1. CASE LoopStep
      BY <2>1, <3>1 DEF LoopStep, ReadRequest, PushRequest, ClientLeaves, StopReading, SignalFromReader,
         ProcessDone, TakeResponse, WriteResponse, SignalFromWriter, vars
    <3>2. ASSUME NEW q \in Requests, TaskStep(q)
          PROVE  q \in Writes /\ handle_write(q) /\ acted' # acted
      BY <2>1, <3>2 DEF TaskStep, HandlerStep, SendResponse, handle_write, handle_read, SendEntry, EndStream,
         Conclude, Find, Result
    <3>3. ~Process
      BY <2>1 DEF Process
    <3> QED BY <3>1, <3>2, <3>3, Steps
  <2> QED BY <2>2, StepAsks, StepPerforms, StepAnswers
<1> QED BY <1>1, <1>2, InvStarts, InvKept, PTL DEF ServerSpec, KeepsPromise, Promise!ProtocolSpec

=============================================================================
