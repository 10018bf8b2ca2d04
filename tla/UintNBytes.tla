----------------------------- MODULE UintNBytes -----------------------------
(***************************************************************************)
(* Identifiers in files and in messages (uintn-rs/src/lib.rs): little-     *)
(* endian bytes, as many as the variant has, or as many as the header of a *)
(* WAL file says.                                                          *)
(***************************************************************************)
EXTENDS UintN, LittleEndian

\* The bytes of each variant double: 1, 2, 4, 8, 16.
Sizes == {2^(w - 1) : w \in DOMAIN Cap}

ASSUME RadixAssumption == \A w \in DOMAIN Cap : Cap[w] = Radix^(2^(w - 1))

is_valid_data_size(size) == size \in Sizes

\* A big integer takes as many bytes as it needs.
size_in_bytes(x) ==
  IF x.w # Big THEN 2^(x.w - 1)
  ELSE LET bytes[n \in Nat] == IF x.v < Radix^n THEN n ELSE bytes[n + 1] IN bytes[0]

can_fit(x, size) == size_in_bytes(x) <= size

write_value_to_buffer(x) == to_le_bytes(x.v, size_in_bytes(x))

\* Failed stands for Err(ValueTooLarge) and Err(InvalidUintNSize).
Failed == <<-1>>

\* Padded with zeros behind the value.  A value in a type wider than size is
\* written in full, even if it would fit.
write_value_to_buffer_with_size(x, size) ==
  IF ~can_fit(x, size) /\ (~is_valid_data_size(size) \/ x.v >= Radix^size) THEN Failed
  ELSE LET value == write_value_to_buffer(x)
       IN  value \o [i \in 1..size - Len(value) |-> 0]

read_value_from_slice(bytes) ==
  IF bytes = <<>> THEN zero
  ELSE IF is_valid_data_size(Len(bytes)) THEN from(from_le_bytes(bytes))
  ELSE [w |-> Big, v |-> from_le_bytes(bytes)]
=============================================================================
