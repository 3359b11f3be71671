---------------------------- MODULE AddressSpace ----------------------------
(***************************************************************************)
(* The address space of hexy-core, scaled down: u32::MAX is the constant   *)
(* MaxAddr, and an overflow of u32 arithmetic is a value above MaxAddr.    *)
(***************************************************************************)
EXTENDS Integers

CONSTANT MaxAddr   \* the largest address, u32::MAX in the code

ASSUME MaxAddrAssumption == MaxAddr \in Nat \ {0}

Addr == 0..MaxAddr

=============================================================================
