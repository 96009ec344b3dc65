------------------------------- MODULE Device -------------------------------
(***************************************************************************)
(* The node as a whole: the bootloader and the application with its OTA    *)
(* handler share one flash.  A reset starts the bootloader, which jumps to *)
(* a slot or stays in a loop; the application in the slot runs the handler *)
(* until it commits, the power fails, or the code under it is erased.      *)
(*                                                                         *)
(* An image runs when its cells are the ones that were put there with a    *)
(* programmer, or those of a published firmware; started with anything     *)
(* else, the node crashes.  The application of each slot is taken to be    *)
(* built for that slot.                                                    *)
(***************************************************************************)
EXTENDS OtaHandler, Bootloader

VARIABLES
  mode,       \* what the processor does
  running,    \* the slot the application was started from
  factory     \* history: the flash at the first power-on

deviceVars == <<vars, mode, running, factory>>

ASSUME DeviceAssumption == InactiveSlot = SlotB

Modes == {"bootloader", "application", "stopped", "crashed"}

\* The cells of a slot are the ones the programmer left there.
IsFactory(slot) == \A c \in SlotCells(slot) \cap Cells : flash[c] = factory[c]

\* The image of a firmware is in a slot.
Holds(slot, fw) ==
  \A o \in 0 .. fw.fw_size - 1 : ReadCell(flash, SlotStart(slot) + o) = fw.image[o]

Runs(slot) == IsFactory(slot) \/ \E fw \in Firmwares : Holds(slot, fw)

DeviceInit ==
  /\ Init
  /\ mode = "bootloader"
  /\ running \in Slots
  /\ factory = flash

\* A start: jump to a slot, or stay in one of the bootloader's loops.
Boot ==
  /\ mode = "bootloader"
  /\ \/ \E slot \in JumpsTo(MetadataOf(flash), flash) :
          /\ running' = slot
          /\ mode' = IF Runs(slot) THEN "application" ELSE "crashed"
     \/ /\ JumpsTo(MetadataOf(flash), flash) = {}
        /\ mode' = "stopped"
        /\ UNCHANGED running
  /\ UNCHANGED <<vars, factory>>

\* A call of the handler.  The processor fetches its code from the slot the
\* handler may be writing to.
RunHandler ==
  /\ mode = "application"
  /\ Handlers
  /\ mode' = IF \A c \in SlotCells(running) \cap Cells : flash'[c] = flash[c]
             THEN mode ELSE "crashed"
  /\ UNCHANGED <<running, factory>>

RunCommit ==
  /\ mode = "application"
  /\ HandleCommit
  /\ mode' = IF state = "VERIFYING" THEN "bootloader" ELSE mode
  /\ UNCHANGED <<running, factory>>

\* The power fails, in the middle of a call if one is under way.
LosePower ==
  /\ IF mode = "application" THEN PowerFailure ELSE Reset
  /\ mode' = "bootloader"
  /\ UNCHANGED <<running, factory>>

DeviceNext == Boot \/ RunHandler \/ RunCommit \/ LosePower

DeviceSpec == DeviceInit /\ [][DeviceNext]_deviceVars

----------------------------------------------------------------------------
(* Properties *)

DeviceTypeOK ==
  /\ mode \in Modes
  /\ running \in Slots
  /\ factory \in FlashContents

\* The programmer left metadata and images with which a start jumps to slot A.
ProvisionedA == JumpsTo(MetadataOf(factory), factory) = {"A"}

\* A node that was provisioned to start from slot A always does: no update,
\* whatever it wrote and wherever it was cut short, makes the bootloader choose
\* another slot, stop, or start code that is not the application
\* (get_inactive_slot_address, main of the bootloader, verify_firmware).
ApplicationSurvives ==
  ProvisionedA =>
    /\ mode \in {"bootloader", "application"}
    /\ mode = "application" => running = "A" /\ IsFactory("A")

----------------------------------------------------------------------------
(* What the documentation and the comments say, and the code does not do *)

\* "Verification failed - try other slot": the bootloader gives up only when
\* neither slot holds an image it could start.
GivesUpLast ==
  mode = "stopped" =>
    \A slot \in Slots :
      ~(VerifyFirmware(MetadataOf(flash), slot) /\ StackInRam(flash, slot))
============================================================================
