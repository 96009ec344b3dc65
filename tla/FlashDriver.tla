---------------------------- MODULE FlashDriver ----------------------------
(***************************************************************************)
(* The node's flash driver (flash_driver.c) over the STM32F1 HAL.          *)
(*                                                                         *)
(* The flash is a function from half-word cells to values, because the     *)
(* F1 controller programs half-words: a 32-bit HAL program is two of them. *)
(* A cell can be programmed when it is erased, or with 0x0000 whatever it  *)
(* holds; anything else raises PGERR and changes nothing.  Addresses and   *)
(* sizes are counted in cells.                                             *)
(*                                                                         *)
(* The driver's loops are stated by where they stop: an erase by the       *)
(* number of pages the HAL finished, a write by the number of cells it     *)
(* programmed.  A call that returns an error, and a call cut short by a    *)
(* power failure, are the same loop stopped early.                         *)
(***************************************************************************)
EXTENDS Integers

CONSTANTS
  FlashCells,   \* number of cells in the modelled part of the flash
  PageCells,    \* cells in an erase page (512 on the device)
  Values,       \* what a cell can hold
  Erased,       \* 0xFFFF, the value an erase leaves
  Zero,         \* 0x0000, which can be programmed over anything
  FlashFaults   \* may a HAL call fail for a reason of its own?

ASSUME FlashAssumption ==
  /\ FlashCells \in Nat
  /\ PageCells \in Nat \ {0}
  /\ Erased \in Values
  /\ Zero \in Values
  /\ Erased # Zero
  /\ FlashFaults \in BOOLEAN

Cells == 0 .. FlashCells - 1
FlashContents == [Cells -> Values]
Blank == {Erased, Zero}

----------------------------------------------------------------------------
(* flash_erase_region *)

\* Slip: pages rounded down.
NbPages_RoundedDown(size) == size \div PageCells

NbPages(size) == (size + PageCells - 1) \div PageCells

Aligned(start) == start % PageCells = 0

\* The flash f after the HAL erased n pages from start.
PagesErased(f, start, n) ==
  [c \in Cells |-> IF start <= c /\ c < start + n * PageCells THEN Erased ELSE f[c]]

\* The erase loop may stop after n pages: at the end, or at a page that fails.
EraseStops(start, size, n) ==
  IF Aligned(start)
  THEN n = NbPages(size) \/ (FlashFaults /\ n \in 0 .. NbPages(size) - 1)
  ELSE n = 0

EraseResult(start, size, n) ==
  CASE ~Aligned(start)                        -> "FLASH_WRITE"
    [] Aligned(start) /\ n = NbPages(size)    -> "OK"
    [] Aligned(start) /\ n # NbPages(size)    -> "FLASH_ERASE"

----------------------------------------------------------------------------
(* flash_write: len cells of data, in 32-bit words *)

\* A data length rounded up to whole words of two cells.
PaddedLen(len) == len + (len % 2)

\* The cell the driver programs at offset j: a partial last word is filled
\* with zeros, the initial value of its local variable word.
PaddedData(data, len, j) == IF j < len THEN data[j] ELSE Zero

Programmable(f, c, v) == c \in Cells /\ (f[c] = Erased \/ v = Zero)

\* The flash f after the first n cells of the data were programmed at addr.
CellsWritten(f, addr, data, len, n) ==
  [c \in Cells |-> IF addr <= c /\ c < addr + n
                   THEN PaddedData(data, len, c - addr) ELSE f[c]]

\* n cells can be programmed before anything fails.
CanProgram(f, addr, data, len, n) ==
  \A j \in 0 .. n - 1 : Programmable(f, addr + j, PaddedData(data, len, j))

\* The write loop may stop after n cells: at the end, at the first cell the
\* controller refuses, or at a fault.
WriteStops(f, addr, data, len, n) ==
  /\ CanProgram(f, addr, data, len, n)
  /\ \/ n = PaddedLen(len)
     \/ FlashFaults
     \/ ~Programmable(f, addr + n, PaddedData(data, len, n))

WriteResult(len, n) == IF n = PaddedLen(len) THEN "OK" ELSE "FLASH_WRITE"

\* What a read finds: outside the modelled cells, erased flash.
ReadCell(f, c) == IF c \in Cells THEN f[c] ELSE Erased
============================================================================
