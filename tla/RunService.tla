----------------------------- MODULE RunService -----------------------------
(***************************************************************************)
(* What running models promises: every run handed in is answered at most   *)
(* once, with its own output and only once that output is complete, and    *)
(* the runs in parallel are answered in the order they were handed in.     *)
(* `trusted' ends when a run is answered with an error, a wait ends early  *)
(* or a run takes the place of one that is not answered yet.               *)
(***************************************************************************)
EXTENDS Integers, Sequences

VARIABLES
  runs,      \* the runs handed in, as a sequence: in parallel or not
  done,      \* the runs whose output is complete
  answers,   \* the runs answered, in order
  trusted    \* no run failed or took another's place, no wait ended early

serviceVars == <<runs, done, answers, trusted>>

Answered == {answers[i] : i \in DOMAIN answers}

Init == runs = <<>> /\ done = {} /\ answers = <<>> /\ trusted = TRUE

HandIn ==
  /\ \E parallel \in BOOLEAN : runs' = Append(runs, parallel)
  /\ UNCHANGED <<done, answers, trusted>>

Complete ==
  /\ \E r \in DOMAIN runs \ done : done' = done \cup {r}
  /\ UNCHANGED <<runs, answers, trusted>>

Answer ==
  /\ \E r \in done \ Answered :
       /\ runs[r] => \A q \in 1 .. r - 1 : runs[q] => q \in Answered
       /\ answers' = Append(answers, r)
  /\ UNCHANGED <<runs, done, trusted>>

Fail == trusted' = FALSE

Next == (trusted /\ (HandIn \/ Complete \/ Answer)) \/ Fail

Spec == Init /\ [][Next]_serviceVars

=============================================================================
