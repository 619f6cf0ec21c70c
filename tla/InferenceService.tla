-------------------------- MODULE InferenceService --------------------------
(***************************************************************************)
(* What the inference path promises the host when nothing is reset,        *)
(* dropped or unplugged: it is a queue.  Every inference is answered, one  *)
(* result per crop box, in the order asked, none lost, none twice.         *)
(***************************************************************************)
EXTENDS Integers, Sequences

CONSTANTS Crops, MaxReq

VARIABLES
  asked,       \* asked[r] is the number of crop boxes of the r-th inference
  delivered    \* the results so far: <<inference, crop box>>

Init == asked = <<>> /\ delivered = <<>>

(* The host begins an inference.                                           *)
Ask ==
  /\ Len(asked) < MaxReq
  /\ \E c \in Crops : asked' = Append(asked, c)
  /\ UNCHANGED delivered

(* The result after <<r, k>> is the next crop box of r, or the first of    *)
(* the next inference.                                                     *)
Successor(r, k) == IF r > 0 /\ k < asked[r] THEN <<r, k + 1>> ELSE <<r + 1, 1>>
Due == IF delivered = <<>> THEN <<1, 1>>
       ELSE LET last == delivered[Len(delivered)] IN Successor(last[1], last[2])

(* The next result reaches the host.                                       *)
Answer ==
  /\ Due[1] <= Len(asked)
  /\ delivered' = Append(delivered, Due)
  /\ UNCHANGED asked

Next == Ask \/ Answer

Spec == Init /\ [][Next]_<<asked, delivered>>

(* ... and every result that is due comes.                                 *)
FairSpec == Spec /\ WF_<<asked, delivered>>(Answer)

=============================================================================
