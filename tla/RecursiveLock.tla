---------------------------- MODULE RecursiveLock ----------------------------
(***************************************************************************)
(* What a Win32 critical section promises the guest program: a thread may  *)
(* enter while no other thread is inside, again as often as the depth      *)
(* counter can count, and leaves once for every time it entered.           *)
(***************************************************************************)
EXTENDS Naturals

CONSTANTS Threads, DepthMax

VARIABLE holds      \* how often each thread entered and has not left

Init == holds = [t \in Threads |-> 0]

Enter(t) ==
  /\ \A u \in Threads \ {t} : holds[u] = 0
  /\ holds[t] < DepthMax
  /\ holds' = [holds EXCEPT ![t] = holds[t] + 1]

Leave(t) ==
  /\ holds[t] > 0
  /\ holds' = [holds EXCEPT ![t] = holds[t] - 1]

Next == \E t \in Threads : Enter(t) \/ Leave(t)

Spec == Init /\ [][Next]_holds
=============================================================================
