---------------------------- MODULE DeviceProofs ----------------------------
(***************************************************************************)
(* An update cannot cost the node its application: for every flash layout, *)
(* firmware, metadata and sequence of packets, faults and resets.          *)
(***************************************************************************)
EXTENDS Device, OtaHandlerProofs

\* The part of the flash that the programmer wrote and no update touches.
Kept(f) == \A c \in Cells : c < InactiveSlot => f[c] = factory[c]

DeviceInv ==
  /\ TypeOK /\ Bound
  /\ DeviceTypeOK
  /\ Kept(flash)
  /\ ApplicationSurvives

----------------------------------------------------------------------------
(* What a start reads *)

\* The metadata and slot A lie below the inactive slot.
LEMMA Layout ==
  /\ BootCells \subseteq Cells
  /\ \A c \in BootCells : c < InactiveSlot
  /\ SlotCells("A") \subseteq Cells
  /\ \A c \in SlotCells("A") : c < InactiveSlot
  /\ SlotStart("A") + 1 \in SlotCells("A")
BY BootAssumption, FlashAssumption, DeviceAssumption
   DEF BootCells, Cells, SlotCells, SlotStart

\* A start from a flash of which that part is kept reads the same metadata and
\* the same stack pointer of slot A.
LEMMA SameStart ==
  ASSUME Kept(flash), factory \in FlashContents, flash \in FlashContents
  PROVE  /\ MetadataOf(flash) = MetadataOf(factory)
         /\ StackInRam(flash, "A") <=> StackInRam(factory, "A")
         /\ IsFactory("A")
<1>1. [c \in BootCells |-> flash[c]] = [c \in BootCells |-> factory[c]]
  BY Layout DEF Kept
<1>2. MetadataOf(flash) = MetadataOf(factory)
  BY <1>1 DEF MetadataOf
<1>3. \A c \in SlotCells("A") : c \in Cells /\ flash[c] = factory[c]
  BY Layout DEF Kept
<1>4. ReadCell(flash, SlotStart("A") + 1) = ReadCell(factory, SlotStart("A") + 1)
  BY <1>3, Layout DEF ReadCell
<1>5. QED
  BY <1>2, <1>3, <1>4 DEF StackInRam, IsFactory

\* At most one slot is selected.
LEMMA OneSlot ==
  ASSUME NEW m, NEW x \in SelectSlot(m), NEW y \in SelectSlot(m)
  PROVE  x = y
BY DEF SelectSlot

\* A node provisioned for slot A jumps to slot A.
LEMMA SameJump ==
  ASSUME Kept(flash), factory \in FlashContents, flash \in FlashContents, ProvisionedA
  PROVE  JumpsTo(MetadataOf(flash), flash) = {"A"}
<1> DEFINE m == MetadataOf(factory)
<1>1. /\ "A" \in SelectSlot(m)
      /\ StackInRam(factory, "A")
      /\ ~(m.pending /\ StoresFault)
  BY DEF ProvisionedA, JumpsTo
<1>2. SelectSlot(m) = {"A"}
  BY <1>1, OneSlot
<1>3. MetadataOf(flash) = m /\ StackInRam(flash, "A")
  BY <1>1, SameStart
<1> HIDE DEF m
<1>4. JumpsTo(m, flash) = {"A"}
  BY <1>1, <1>2, <1>3 DEF JumpsTo
<1>5. QED
  BY <1>3, <1>4

----------------------------------------------------------------------------
(* The steps of the device *)

\* Every step of the device is a step of the handler, or leaves it alone.
LEMMA HandlerStep == [DeviceNext]_deviceVars => [Next]_vars
BY DEF DeviceNext, deviceVars, Boot, RunHandler, RunCommit, LosePower, Next, PowerFailure

LEMMA DeviceInitInv == DeviceInit => DeviceInv
<1> SUFFICES ASSUME DeviceInit PROVE DeviceInv
  OBVIOUS
<1>1. TypeOK /\ Bound
  BY InitTyped DEF DeviceInit
<1>2. DeviceTypeOK
  BY <1>1 DEF DeviceInit, DeviceTypeOK, Modes, TypeOK
<1>3. Kept(flash)
  BY DEF DeviceInit, Kept
<1>4. ApplicationSurvives
  BY DEF DeviceInit, ApplicationSurvives
<1>5. QED
  BY <1>1, <1>2, <1>3, <1>4 DEF DeviceInv

LEMMA DeviceStepInv ==
  ASSUME DeviceInv, [DeviceNext]_deviceVars
  PROVE  DeviceInv'
<1>1. /\ TypeOK /\ Bound /\ DeviceTypeOK /\ Kept(flash) /\ ApplicationSurvives
      /\ flash \in FlashContents /\ factory \in FlashContents
  BY DEF DeviceInv, TypeOK, DeviceTypeOK
<1>2. [Next]_vars
  BY HandlerStep
<1>3. TypeOK' /\ Bound'
  BY <1>1, <1>2, NextTyped
<1>4. factory' = factory
  BY DEF DeviceNext, deviceVars, Boot, RunHandler, RunCommit, LosePower
<1>5. /\ flash' \in FlashContents
      /\ \A c \in Cells : c < InactiveSlot => flash'[c] = flash[c]
  BY <1>1, <1>2, NextKeepsRunningSlot DEF KeepsRunningSlot
<1>6. Kept(flash)'
  BY <1>1, <1>4, <1>5 DEF Kept
<1>7. DeviceTypeOK'
  <2>1. CASE Boot
    <3>1. [c \in BootCells |-> flash[c]] \in [BootCells -> Values]
      BY <1>1, Layout DEF FlashContents
    <3>2. MetadataOf(flash) \in Metadata
      BY <3>1, MetadataAssumption DEF MetadataOf
    <3>3. MetadataOf(flash).active \in Slots
      BY <3>2 DEF Metadata
    <3>4. JumpsTo(MetadataOf(flash), flash) \subseteq Slots
      BY <3>3 DEF JumpsTo, SelectSlot, Slots, Other
    <3>5. QED
      BY <1>1, <2>1, <3>4 DEF Boot, DeviceTypeOK, Modes
  <2>2. CASE RunHandler
    BY <1>1, <2>2 DEF RunHandler, DeviceTypeOK, Modes
  <2>3. CASE RunCommit
    <3>1. state = "VERIFYING" => current_manifest \in Firmwares
      BY <1>1 DEF Bound, Active
    <3>2. QED
      BY <1>1, <2>3, <3>1 DEF RunCommit, DeviceTypeOK, Modes
  <2>4. CASE LosePower
    BY <1>1, <2>4 DEF LosePower, DeviceTypeOK, Modes
  <2>5. CASE UNCHANGED deviceVars
    BY <1>1, <2>5 DEF deviceVars, DeviceTypeOK
  <2>6. QED
    BY <2>1, <2>2, <2>3, <2>4, <2>5 DEF DeviceNext
<1>8. ApplicationSurvives'
  <2>1. ProvisionedA' = ProvisionedA
    BY <1>4 DEF ProvisionedA
  <2>2. IsFactory("A")'
    BY <1>4, <1>5, <1>6, Layout DEF IsFactory, Kept
  <2> SUFFICES ASSUME ProvisionedA
               PROVE  /\ mode' \in {"bootloader", "application"}
                      /\ mode' = "application" => running' = "A"
    BY <2>1, <2>2 DEF ApplicationSurvives
  <2>3. /\ mode \in {"bootloader", "application"}
        /\ mode = "application" => running = "A"
    BY <1>1 DEF ApplicationSurvives
  <2>4. CASE Boot
    <3>1. JumpsTo(MetadataOf(flash), flash) = {"A"}
      BY <1>1, SameJump
    <3>2. Runs("A")
      BY <1>1, SameStart DEF Runs
    <3>3. QED
      BY <2>4, <3>1, <3>2 DEF Boot
  <2>5. CASE RunHandler
    <3>1. \A c \in SlotCells("A") \cap Cells : flash'[c] = flash[c]
      BY <1>5, Layout
    <3>2. QED
      BY <2>3, <2>5, <3>1 DEF RunHandler
  <2>6. CASE RunCommit
    BY <2>3, <2>6 DEF RunCommit
  <2>7. CASE LosePower
    BY <2>7 DEF LosePower
  <2>8. CASE UNCHANGED deviceVars
    BY <2>3, <2>8 DEF deviceVars
  <2>9. QED
    BY <2>4, <2>5, <2>6, <2>7, <2>8 DEF DeviceNext
<1>9. QED
  BY <1>3, <1>6, <1>7, <1>8 DEF DeviceInv

\* Whatever a peer sends, wherever the power fails and however the flash fails, a
\* node provisioned to start from slot A always starts its application from there.
THEOREM UpdatesNeverBrick == DeviceSpec => []ApplicationSurvives
<1>1. DeviceInit => DeviceInv
  BY DeviceInitInv
<1>2. DeviceInv /\ [DeviceNext]_deviceVars => DeviceInv'
  BY DeviceStepInv
<1>3. DeviceInv => ApplicationSurvives
  BY DEF DeviceInv
<1>4. QED
  BY <1>1, <1>2, <1>3, PTL DEF DeviceSpec
============================================================================
