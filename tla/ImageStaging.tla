---------------------------- MODULE ImageStaging ----------------------------
(***************************************************************************)
(* What a firmware download promises, whatever the packets, the flash and  *)
(* the resets do: the chunks of one firmware are collected, each counted   *)
(* once; the image is staged exactly when all of them are there; and the   *)
(* verdict on it is the comparison of the published image with its own     *)
(* manifest.                                                               *)
(***************************************************************************)
EXTENDS Integers

CONSTANTS
  Firmwares,      \* the firmwares that can be staged
  None,           \* no firmware
  Chunks(_),      \* the chunk indexes of a firmware
  Matches(_)      \* does the image of a firmware match its manifest's hash?

VARIABLES phase, firmware, have, verdict

staging == <<phase, firmware, have, verdict>>

Init ==
  /\ phase = "none"
  /\ firmware = None
  /\ have = {}
  /\ verdict = "none"

Begin(fw) ==
  /\ phase = "none"
  /\ phase' = "collecting"
  /\ firmware' = fw
  /\ have' = {}
  /\ verdict' = "none"

Collect ==
  /\ phase = "collecting"
  /\ \E i \in Chunks(firmware) \ have : have' = have \cup {i}
  /\ IF have' = Chunks(firmware)
     THEN /\ phase' = "staged"
          /\ verdict' = IF Matches(firmware) THEN "match" ELSE "mismatch"
     ELSE UNCHANGED <<phase, verdict>>
  /\ UNCHANGED firmware

Abandon ==
  /\ phase' = "none"
  /\ firmware' = None
  /\ have' = {}
  /\ verdict' = "none"

Next ==
  \/ \E fw \in Firmwares : Begin(fw)
  \/ Collect
  \/ Abandon

Spec == Init /\ [][Next]_staging
============================================================================
