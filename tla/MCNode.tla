------------------------------- MODULE MCNode -------------------------------
(***************************************************************************)
(* The small instances of the OTA handler and of the cryptographic port it *)
(* calls: words of two bytes of two bits, so that a block is four bytes    *)
(* and both of its words can be full, begun or empty.                      *)
(*                                                                         *)
(* The port keeps nothing from one call to the next, so its answers do not *)
(* depend on the handler: they are looked at before the handler starts,    *)
(* over a blank slot, and the handler runs with nothing in the port.       *)
(***************************************************************************)
EXTENDS MCOtaHandler, CryptoPort, TLC

\* One session key is as good as another.
MCSymmetry == Permutations(Keys)

MCIV == {<<0, 0>>, <<1, 1>>}

\* n bytes of which neighbours differ.
Ramp(n, step) == [p \in 1 .. n |-> LowByte(p * step + p \div 3)]

MCKeys == {Ramp(Rate, 1), Ramp(Rate, 3)}
MCAeadNonces == {Ramp(Rate, 2)}

\* None, and a block and part of a word; a chunk's fills a block.
MCAssociatedData == {<<>>, Ramp(5, 1)}

\* Up to two blocks; a block and a tag are more than a length can tell.
MCPlaintexts == {Ramp(n, 1) : n \in {0, 1, 2, 3, 4, 5, 8}}

NodeInit == Init /\ PortInit

NodeNext ==
  \/ packet = NoPacket /\ Next /\ UNCHANGED portVars
  \/ /\ Init /\ (\A c \in Cells : c >= InactiveSlot => flash[c] = Erased)
     /\ PortNext /\ UNCHANGED vars

NodeSpec == NodeInit /\ [][NodeNext]_<<vars, portVars>>
=============================================================================
