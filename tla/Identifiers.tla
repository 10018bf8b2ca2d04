---------------------------- MODULE Identifiers -----------------------------
(***************************************************************************)
(* An identifier that the server (uintn-rs) and a Go client (uintn.go)     *)
(* count on with, each on its own, and hand to each other as bytes.        *)
(***************************************************************************)
EXTENDS UintNBytes, GoUintN

CONSTANTS
  Operands,        \* what is added or subtracted
  Steps,           \* steps of reads
  MaxNumber        \* bound: the largest identifier

VARIABLES
  id, client_id,   \* the identifier, here and there
  number           \* history: the number that it stands for

idVars == <<id, client_id, number>>

IdInit == id = zero /\ client_id = FromBigInt(0) /\ number = 0

Increment ==
  /\ number < MaxNumber
  /\ id' = increment(id) /\ client_id' = Inc(client_id) /\ number' = number + 1

Decrement ==
  /\ number > 0
  /\ id' = decrement(id) /\ client_id' = Dec(client_id) /\ number' = number - 1

AddOperand(k) ==
  /\ number + k <= MaxNumber
  /\ id' = add(id, from(k))
  /\ client_id' = Add(client_id, FromBigInt(k))
  /\ number' = number + k

SubOperand(k) ==
  /\ k <= number
  /\ id' = sub(id, from(k))
  /\ client_id' = Sub(client_id, FromBigInt(k))
  /\ number' = number - k

\* The id of an entry goes to the client.  Beyond u128 the client refuses it.
Send ==
  /\ LET received == FromLEBytes(write_value_to_buffer(id))
     IN  client_id' = IF received = Refused THEN client_id ELSE received
  /\ UNCHANGED <<id, number>>

\* The client asks for an id it has got.  Beyond 16 bytes it sends another one.
Ask ==
  /\ number < Cap[Len(Cap)]
  /\ id' = read_value_from_slice(ToLEBytes(client_id))
  /\ UNCHANGED <<client_id, number>>

\* An entry is written to a WAL file, whose header sets the size, and read back.
WriteAndRead(size) ==
  /\ can_fit(id, size)
  /\ id' = read_value_from_slice(write_value_to_buffer_with_size(id, size))
  /\ UNCHANGED <<client_id, number>>

IdNext ==
  \/ Increment \/ Decrement \/ Send \/ Ask
  \/ \E k \in Operands : AddOperand(k) \/ SubOperand(k)
  \/ \E size \in Sizes : WriteAndRead(size)

IdSpec == IdInit /\ [][IdNext]_idVars

-----------------------------------------------------------------------------
\* Whatever the server has done with an identifier, it is in the smallest type
\* and stands for the right number; what the search, the window and the reads
\* compute from it is exact.
ArithmeticIsExact ==
  /\ id = from(number) /\ shrink_to_fit(id) = id
  /\ \A step \in Steps : step_by(id, step) = from(number + step)
  /\ \A k \in Operands :
       /\ eq(id, from(k)) <=> number = k
       /\ sub(id, from(k)) = IF k <= number THEN from(number - k) ELSE Err
       /\ middle(id, from(k)) = from((number + k) \div 2)
       /\ \A step \in Steps :
            in_step(id, from(k), step) <=> step = 1 \/ (k <= number /\ (number - k) % step = 0)

\* The client has the same number, compares it right with every other one unless
\* the comparison panics, and resizes it without loss or not at all.
ClientAgrees ==
  /\ client_id = FromBigInt(number)
  /\ \A size \in Sizes :
       LET resized == Resize(client_id, size)
       IN  IF number < Radix^size \/ size = 2^(TypeBig - 1) THEN ShrinkToFit(resized) = client_id
           ELSE resized = Refused
  /\ \A k \in Operands :
       LET other == FromBigInt(k)
       IN  /\ Equal(client_id, other) <=> number = k
           /\ LessPanics(client_id, other) \/ (Less(client_id, other) <=> number < k)
           /\ Greater(client_id, other) <=> number > k
           /\ Middle(client_id, other).v = (number + k) \div 2
=============================================================================
