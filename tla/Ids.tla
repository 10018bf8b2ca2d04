-------------------------------- MODULE Ids --------------------------------
(***************************************************************************)
(* Entry and file identifiers.  The code's UintN is an unsigned integer    *)
(* that widens on overflow (u8, u16, ... UBig), so an id is a natural      *)
(* number here; the width of an id matters only to the WAL header and is   *)
(* modelled there.  Option<UintN>::None is -1: "one after the last id, or  *)
(* zero when there is none" is then last + 1 in both cases.                *)
(***************************************************************************)
EXTENDS Integers

None == -1

\* UintN::increment applied to an optional last id, UintN::zero for None.
increment(last) == last + 1

\* UintN::in_step.  A step of one is in step with every id, also with the
\* ids below "from".
in_step(id, from, step) ==
  \/ step = 1
  \/ id >= from /\ (id - from) % step = 0

\* Mutant of MaxOpt: the later value replaces the earlier one.
MaxOpt_Latest(a, b) == b

\* The larger of two optional ids.
MaxOpt(a, b) == IF a > b THEN a ELSE b

\* last_id.sub(offset), zero when the offset reaches past the first id.
BackFrom(last, offset) == IF offset > last THEN 0 ELSE last - offset
=============================================================================
