------------------------------ MODULE MCDevice ------------------------------
(***************************************************************************)
(* Small instances of the device: the cells 0 and 1 are the metadata, of   *)
(* which the first decides, 2 and 3 slot A, 4 to 9 slot B.                 *)
(***************************************************************************)
EXTENDS Device, MCOtaHandler

Accepted == [valid |-> TRUE, security_version |-> 1]
Invalid == [valid |-> FALSE, security_version |-> 0]
Outdated == [valid |-> TRUE, security_version |-> 0]

\* Four metadata contents: slot A; slot B, whose manifest is too old; slot B;
\* and what an erased page reads as.
MCReadMetadata(cells) ==
  CASE cells[0] = a -> [active |-> "A", pending |-> FALSE, security_counter |-> 1,
                        manifest |-> [A |-> Accepted, B |-> Accepted]]
    [] cells[0] = b -> [active |-> "B", pending |-> TRUE, security_counter |-> 1,
                        manifest |-> [A |-> Accepted, B |-> Outdated]]
    [] cells[0] = zz -> [active |-> "B", pending |-> FALSE, security_counter |-> 1,
                         manifest |-> [A |-> Accepted, B |-> Accepted]]
    [] cells[0] = ff -> [active |-> "B", pending |-> TRUE, security_counter |-> 2,
                         manifest |-> [A |-> Invalid, B |-> Invalid]]

StackTop == {b}

\* An application in slot A; slot B blank or with an older one.
Programmed(metas) ==
  {[c \in Cells |-> CASE c < SlotA -> first
                      [] c = SlotA -> a
                      [] c = SlotA + 1 -> b
                      [] c >= SlotB -> old] : first \in metas, old \in {ff, b}}

AllProvisions == Programmed(MCValues)
\* Both slots hold an application, and slot B is the active one.
ActiveB == {f \in Programmed({zz}) : f[SlotB] = b}

Candidates == {ThreeChunks, BlankChunk, OldVersion}
OnlyThreeChunks == {ThreeChunks}
============================================================================
