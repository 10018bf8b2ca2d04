---------------------------- MODULE LittleEndian ----------------------------
(* Numbers as little-endian bytes: to_le_bytes and from_le_bytes of Rust's   *)
(* integers, binary.LittleEndian in Go.                                      *)
EXTENDS Integers, Sequences

CONSTANT Radix     \* values of a byte: 256

to_le_bytes(v, size) == [i \in 1..size |-> (v \div Radix^(i - 1)) % Radix]

from_le_bytes(bytes) ==
  LET upTo[i \in 0..Len(bytes)] ==
        IF i = 0 THEN 0 ELSE upTo[i - 1] + bytes[i] * Radix^(i - 1)
  IN  upTo[Len(bytes)]
=============================================================================
