----------------------------- MODULE Bootloader -----------------------------
(***************************************************************************)
(* The node's bootloader (bootloader/src/main.c): which slot a start jumps *)
(* to, as a function of the metadata and the flash.  It runs alone, from   *)
(* the reset to the jump, so that a start is one step of Device.           *)
(*                                                                         *)
(* The metadata is read in place, in the flash, which the bootloader never *)
(* unlocks: what it stores there does not land.  A store through the       *)
(* pointer is ignored or raises a bus fault (StoresFault).                 *)
(***************************************************************************)
EXTENDS FlashDriver

CONSTANTS
  SlotA,        \* APP_SLOT_A_START, as a cell
  SlotB,        \* APP_SLOT_B_START, as a cell
  InRam,        \* upper half-words of stack pointers that point to RAM
  StoresFault,  \* does a store to the locked flash raise a fault?
  ReadMetadata(_)  \* get_metadata(): what the cells below slot A say

ASSUME BootAssumption ==
  /\ SlotA \in Nat /\ SlotB \in Nat
  /\ SlotA + 1 < SlotB
  /\ SlotB < FlashCells
  /\ InRam \subseteq Values
  /\ Erased \notin InRam
  /\ StoresFault \in BOOLEAN

Slots == {"A", "B"}

\* boot_metadata_t.  Its magic, pending_slot and crc32 decide nothing, and
\* boot_attempts neither: the rollback of a pending slot is not written yet.
\*   m.active            active_slot: BOOT_FLAG_SLOT_A, or anything else for B
\*   m.pending           BOOT_FLAG_PENDING
\*   m.security_counter
\*   m.manifest          the manifest of each slot: is it valid, and its version
Metadata ==
  [active: Slots, pending: BOOLEAN, security_counter: Nat,
   manifest: [Slots -> [valid: BOOLEAN, security_version: Nat]]]

BootCells == 0 .. SlotA - 1

ASSUME MetadataAssumption ==
  \A cells \in [BootCells -> Values] : ReadMetadata(cells) \in Metadata

MetadataOf(f) == ReadMetadata([c \in BootCells |-> f[c]])

SlotStart(slot) == IF slot = "A" THEN SlotA ELSE SlotB

SlotCells(slot) == IF slot = "A" THEN SlotA .. SlotB - 1 ELSE SlotB .. FlashCells - 1

Other(slot) == IF slot = "A" THEN "B" ELSE "A"

\* Neither the signature nor the hash of the image is checked.
VerifyFirmware(m, slot) ==
  /\ m.manifest[slot].valid
  /\ m.manifest[slot].security_version >= m.security_counter

\* The active slot if its manifest passes, or else the other one; none if both fail.
SelectSlot(m) ==
  IF VerifyFirmware(m, m.active) THEN {m.active}
  ELSE {slot \in {Other(m.active)} : VerifyFirmware(m, slot)}

\* The stack pointer, the first word of the image, is in RAM: its upper
\* half-word decides.
StackInRam(f, slot) == ReadCell(f, SlotStart(slot) + 1) \in InRam

\* The slots a start may jump to; none when it halts, stops in a fault, or
\* returns from the jump to the endless loop behind it.
JumpsTo(m, f) ==
  IF m.pending /\ StoresFault THEN {}
  ELSE {slot \in SelectSlot(m) : StackInRam(f, slot)}
============================================================================
