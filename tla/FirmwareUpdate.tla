--------------------------- MODULE FirmwareUpdate ---------------------------
(***************************************************************************)
(* What the firmware update promises for one processor, without sectors,   *)
(* partitions and flags: the image in use changes only during a boot, when *)
(* no processor runs yet, and only to an image that was installed          *)
(* completely; a failed or interrupted installation leaves the old one.    *)
(*                                                                         *)
(* The promise ends with `trusted': once power was lost in a moment that   *)
(* the two-sector scheme does not cover, nothing is said any more.         *)
(***************************************************************************)
EXTENDS Naturals

VARIABLES
  current,   \* the version a boot would use
  pending,   \* the complete version to be used from the next boot on, or 0
  running,   \* the version the processor was started with, or 0
  trusted    \* no such moment so far

updateVars == <<current, pending, running, trusted>>

TypeOK == current \in Nat /\ pending \in Nat /\ running \in Nat /\ trusted \in BOOLEAN

Init == current = 1 /\ pending = 0 /\ running = 0 /\ trusted = TRUE

(* An installation is complete; it replaces one that never started.        *)
Install ==
  /\ pending' \in Nat /\ pending' > current /\ pending' > pending
  /\ UNCHANGED <<current, running, trusted>>

(* A new installation begins over the pending one.                         *)
Withdraw == pending' = 0 /\ UNCHANGED <<current, running, trusted>>

(* During a boot the pending version becomes the current one ...           *)
Confirm ==
  /\ running = 0 /\ pending # 0
  /\ current' = pending /\ pending' = 0
  /\ UNCHANGED <<running, trusted>>

(* ... and the current version is started when none is pending.            *)
Start ==
  /\ running = 0 /\ pending = 0
  /\ running' = current
  /\ UNCHANGED <<current, pending, trusted>>

PowerDown == running' = 0 /\ UNCHANGED <<current, pending, trusted>>

Anything == trusted' = FALSE

Next == (trusted /\ (Install \/ Withdraw \/ Confirm \/ Start \/ PowerDown)) \/ Anything

Spec == Init /\ [][Next]_updateVars

=============================================================================
