---------------------------------- MODULE Bus ----------------------------------
(***************************************************************************)
(* The program's way to memory: bytes, words and longwords on a bus that   *)
(* is one word wide.  The memory is the host's, behind the read and write  *)
(* callbacks.                                                              *)
(***************************************************************************)
EXTENDS Integers, Sequences

CONSTANTS
  ByteValues,    \* how many values a byte has
  MemoryWords    \* how many words the bus tells apart

WordValues == ByteValues * ByteValues
LongValues == WordValues * WordValues

ASSUME BusAssumption ==
  /\ ByteValues \in Nat /\ ByteValues > 1 /\ ByteValues % 2 = 0
  /\ MemoryWords \in Nat /\ MemoryWords > 1 /\ LongValues % (2 * MemoryWords) = 0

(* How many values so many bytes have. *)
Values(size) ==
  CASE size = 1 -> ByteValues [] size = 2 -> WordValues [] size = 4 -> LongValues

ByteRange == 0 .. ByteValues - 1
WordRange == 0 .. WordValues - 1
LongRange == 0 .. LongValues - 1

Memories == [0 .. MemoryWords - 1 -> WordRange]

Odd(address) == address % 2 = 1

(* An address in the range of registers. *)
Wrap(address) == address % LongValues

(* The word of the bus that an address is in: 2 ^ 23 of them. *)
WordIndex(address) == (address \div 2) % MemoryWords

(***************************************************************************)
(* The callbacks, with the halves of a word that they are to touch.        *)
(***************************************************************************)

write_callback(memory, index, high, low, value) ==
  [memory EXCEPT ![index] =
     (IF high THEN value \div ByteValues ELSE @ \div ByteValues) * ByteValues
       + (IF low THEN value % ByteValues ELSE @ % ByteValues)]

(***************************************************************************)
(* Bytes, words, longwords.  Words at odd addresses raise a group 0        *)
(* exception, which the modules that use these definitions test for first. *)
(***************************************************************************)

ReadByte(memory, address) ==
  LET word == memory[WordIndex(address)]
  IN  IF Odd(address) THEN word % ByteValues ELSE word \div ByteValues

ReadWord(memory, address) == memory[WordIndex(address)]

ReadLongWord(memory, address) ==
  ReadWord(memory, address) * WordValues + ReadWord(memory, address + 2)

(* The byte is on both halves of the bus. *)
WriteByte(memory, address, byte) ==
  write_callback(memory, WordIndex(address), ~Odd(address), Odd(address),
                 byte * ByteValues + byte)

WriteWord(memory, address, value) ==
  write_callback(memory, WordIndex(address), TRUE, TRUE, value % WordValues)

WriteLongWord(memory, address, value) ==
  WriteWord(WriteWord(memory, address, value \div WordValues), address + 2, value)

(* The low word is written first, which only a word that is refused could  *)
(* tell: both words of a longword are, or neither is.                      *)
WriteLongWordBackwards(memory, address, value) ==
  WriteWord(WriteWord(memory, address + 2, value), address, value \div WordValues)

(* Sign extension, from a byte or a word to a longword. *)
SignExtendByte(v) == IF 2 * v >= ByteValues THEN v + LongValues - ByteValues ELSE v

SignExtendWord(v) == IF 2 * v >= WordValues THEN v + LongValues - WordValues ELSE v
================================================================================
