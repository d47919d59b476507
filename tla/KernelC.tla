------------------------------- MODULE KernelC -------------------------------
(***************************************************************************)
(* The C integer conversions the xattr code relies on, at model widths,    *)
(* and the errno values it returns.  WordBits is the width of size_t and   *)
(* u64 (both 64 bits in the kernel), IntBits the width of int (32 bits).  *)
(* A model keeps IntBits < WordBits, as the kernel does, so the            *)
(* conversions between them lose bits the same way.                        *)
(***************************************************************************)
EXTENDS Integers

CONSTANTS IntBits, WordBits

ASSUME IntBits \in Nat /\ WordBits \in Nat /\ 1 < IntBits /\ IntBits < WordBits

SizeMod == 2^WordBits
IntMod == 2^IntBits
IntMax == 2^(IntBits - 1) - 1

\* Conversion to size_t or u64: reduction modulo 2^WordBits.
ToWord(x) == x % SizeMod

\* Conversion to int: gcc keeps the low IntBits bits as two's complement.
ToInt(x) == IF x % IntMod > IntMax THEN (x % IntMod) - IntMod ELSE x % IntMod

\* errno values, negated as the code returns them
EIO == -5
E2BIG == -7
ENOMEM == -12
EEXIST == -17
ENOSPC == -28
ERANGE == -34
ENODATA == -61
EFSCORRUPTED == -117
=============================================================================
