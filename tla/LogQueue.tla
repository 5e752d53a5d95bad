------------------------------ MODULE LogQueue ------------------------------
(***************************************************************************)
(* What the asynchronous log promises: every accepted line is written      *)
(* once, in the order of acceptance, and no line of a thread overtakes an  *)
(* earlier one of the same thread.  A line is <<thread, number>>.          *)
(***************************************************************************)
EXTENDS Naturals, Sequences

CONSTANT Lines

VARIABLES
  queue,      \* accepted, not yet written
  written     \* written, in order
vars == <<queue, written>>

Init == queue = <<>> /\ written = <<>>

Accept(l) == queue' = Append(queue, l) /\ UNCHANGED written

(* The oldest lines are written, one or several at a time.                 *)
Write(k) ==
  /\ written' = written \o SubSeq(queue, 1, k)
  /\ queue' = SubSeq(queue, k + 1, Len(queue))

(* A line written by its own thread, past the queue                        *)
Direct(l) ==
  /\ \A i \in 1 .. Len(queue) : queue[i][1] # l[1]
  /\ written' = Append(written, l) /\ UNCHANGED queue

Next ==
  \/ \E l \in Lines : Accept(l) \/ Direct(l)
  \/ \E k \in 1 .. Len(queue) : Write(k)

Spec == Init /\ [][Next]_vars
=============================================================================
