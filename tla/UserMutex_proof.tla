--------------------------- MODULE UserMutex_proof ---------------------------
(***************************************************************************)
(* UserMutex is a recursive lock, for every set of threads and every       *)
(* largest depth.                                                          *)
(***************************************************************************)
EXTENDS UserMutex, TLAPS

-----------------------------------------------------------------------------
(* The inductive invariant.                                                *)

(* The owner word names the thread inside.                                 *)
OwnerHolds == \A t \in Threads : owner = t <=> holds[t] > 0

(* What a thread knows of the words at each of its locations.  A thread    *)
(* between the loads and the store of its own mutex still owns it; one     *)
(* that claimed it is alone, as is one on the inline path.                 *)
Knows(t) ==
  /\ pc[t] \in {"fastDepth", "recur", "bump", "mine", "drop", "zero", "release"} => owner = t
  /\ pc[t] \in {"claimed", "set", "publish"} => owner = Claiming
  /\ pc[t] \in {"fastFree", "fastSet", "fastPublish"} => owner = Free
  /\ pc[t] \in {"publish", "fastPublish"} => depth = 1
  /\ pc[t] = "release" => depth = 0 /\ holds[t] = 1
  /\ owner = t /\ pc[t] # "release" => depth = holds[t]
  /\ pc[t] = "bump" => seen[t] = holds[t] /\ holds[t] < DepthMax
  /\ pc[t] = "drop" => seen[t] = holds[t] /\ holds[t] > 1
  /\ pc[t] = "zero" => holds[t] = 1
  /\ pc[t] \in {"check", "unowned"} => call[t] = "leave"
  /\ pc[t] = "unowned" => holds[t] = 0
  /\ pc[t] # "idle" => t \in started
  /\ pc[t] \in Fast => started = {t}
  /\ pc[t] \notin {"idle", "fault", "inline", "endpoint"} => valid = 1
  /\ fault[t] # "none" => pc[t] = "fault"

OneClaims == \A t, u \in Threads :
  pc[t] \in {"claimed", "set", "publish"} /\ pc[u] \in {"claimed", "set", "publish"} => t = u

NobodyInside ==
  owner \notin Threads /\ (\A t \in Threads : pc[t] \notin {"publish", "fastPublish"})
    => depth = 0

IInv ==
  /\ TypeOK /\ OwnerHolds /\ OneClaims /\ NobodyInside /\ FaultsAreEarned
  /\ \A t \in Threads : Knows(t)
  /\ valid = 0 => owner = Free
  /\ latch # Disabled => started = {Main}

-----------------------------------------------------------------------------
LEMMA Initially == Init => IInv
BY UserMutexAssumption DEF Init, IInv, TypeOK, OwnerHolds, OneClaims, NobodyInside,
   FaultsAreEarned, Knows, Fast, Locations, Reasons

(* Every action of a thread keeps the invariant.                           *)
LEMMA ThreadKeeps ==
  ASSUME IInv, NEW t \in Threads, Guest(t) \/ Continue(t)
  PROVE  IInv'
<1> USE UserMutexAssumption DEF IInv, TypeOK, OwnerHolds, OneClaims, NobodyInside,
      FaultsAreEarned, Knows, Fast, Locations, Reasons, words, Goto
<1>1. CASE Bind(t)
  BY <1>1, SMT DEF Bind, NoteBound
<1>2. CASE \E u \in Threads : Spawn(t, u)
  BY <1>2, SMT DEF Spawn
<1>3. CASE Initialize(t)
  BY <1>3, SMT DEF Initialize, Quiescent, Fault
<1>4. CASE Delete(t)
  BY <1>4, SMT DEF Delete, Quiescent, Fault, NoteEndpoint, Id
<1>5. CASE \E k \in {"enter", "try", "leave"} : Call(t, k)
  BY <1>5, SMT DEF Call
<1>6. CASE InlineCheck(t)
  BY <1>6, SMT DEF InlineCheck, Id
<1>7. CASE FastOwner(t)
  BY <1>7, SMT DEF FastOwner
<1>8. CASE FastDepth(t)
  BY <1>8, SMT DEF FastDepth
<1>9. CASE FastFree(t)
  BY <1>9, SMT DEF FastFree
<1>10. CASE Endpoint(t)
  BY <1>10, SMT DEF Endpoint, NoteEndpoint, Id, Fault
<1>11. CASE LoadOwner(t)
  BY <1>11, SMT DEF LoadOwner
<1>12. CASE TryFails(t)
  BY <1>12, SMT DEF TryFails, Return
<1>13. CASE Wait(t)
  BY <1>13, SMT DEF Wait, Fault
<1>14. CASE Recur(t)
  BY <1>14, SMT DEF Recur, Fault
<1>15. CASE Bump(t)
  BY <1>15, SMT DEF Bump, Return
<1>16. CASE Claim(t)
  BY <1>16, SMT DEF Claim
<1>17. CASE Claimed(t)
  BY <1>17, SMT DEF Claimed, Fault
<1>18. CASE SetDepth(t)
  BY <1>18, SMT DEF SetDepth
<1>19. CASE Publish(t)
  BY <1>19, SMT DEF Publish, Return
<1>20. CASE CheckOwner(t)
  BY <1>20, SMT DEF CheckOwner, Fault
<1>21. CASE Unowned(t)
  BY <1>21, SMT DEF Unowned, Fault
<1>22. CASE Mine(t)
  BY <1>22, SMT DEF Mine, Fault
<1>23. CASE Drop(t)
  BY <1>23, SMT DEF Drop, Return
<1>24. CASE Zero(t)
  BY <1>24, SMT DEF Zero
<1>25. CASE Release(t)
  BY <1>25, SMT DEF Release, Return
<1>26. QED
  BY <1>1, <1>2, <1>3, <1>4, <1>5, <1>6, <1>7, <1>8, <1>9, <1>10, <1>11, <1>12, <1>13,
     <1>14, <1>15, <1>16, <1>17, <1>18, <1>19, <1>20, <1>21, <1>22, <1>23, <1>24, <1>25, Zenon
     DEF Guest, Continue

LEMMA Stutter == ASSUME IInv, UNCHANGED vars PROVE IInv'
BY SMT DEF vars, IInv, TypeOK, OwnerHolds, OneClaims, NobodyInside, FaultsAreEarned, Knows,
   Fast, Locations, Reasons

(* The words and the threads' locations agree in every reachable state.    *)
THEOREM Invariant == Spec => []IInv
<1>1. IInv /\ [Next]_vars => IInv'
  BY ThreadKeeps, Stutter DEF Next
<1>2. QED
  BY Initially, <1>1, PTL DEF Spec

-----------------------------------------------------------------------------
(* Every variable keeps its type; the depth word never overflows.          *)
THEOREM TypeCorrect == Spec => []TypeOK
<1>1. IInv => TypeOK
  BY DEF IInv
<1>2. QED
  BY Invariant, <1>1, PTL

(* Two threads are never inside the critical section: the owner word names *)
(* whoever is, and it is one word.                                         *)
THEOREM Exclusion == Spec => []MutualExclusion
<1>1. IInv => MutualExclusion
  <2> SUFFICES ASSUME IInv, NEW t \in Threads, NEW u \in Threads, holds[t] > 0, holds[u] > 0
               PROVE  t = u
    BY DEF MutualExclusion
  <2>1. owner = t /\ owner = u
    BY DEF IInv, OwnerHolds
  <2>2. QED
    BY <2>1
<1>2. QED
  BY Invariant, <1>1, PTL

(* The owner and the depth word agree with the enters of the threads.      *)
THEOREM WordsAreTrue == Spec => []WordsAgree
<1>1. IInv => WordsAgree
  <2> SUFFICES ASSUME IInv PROVE WordsAgree
    OBVIOUS
  <2>1. \A t \in Threads : owner = t <=> holds[t] > 0
    BY DEF IInv, OwnerHolds
  <2>2. ~InTransit /\ owner \in Threads => depth = holds[owner]
    BY DEF IInv, Knows, InTransit
  <2>3. ~InTransit /\ owner \notin Threads => depth = 0
    BY DEF IInv, NobodyInside, InTransit
  <2>4. QED
    BY <2>1, <2>2, <2>3 DEF WordsAgree
<1>2. QED
  BY Invariant, <1>1, PTL

(* The plain loads and stores of the inline path are never shared.         *)
THEOREM InlineAlone == Spec => []InlineIsAlone
<1>1. IInv => InlineIsAlone
  BY DEF IInv, Knows, InlineIsAlone
<1>2. QED
  BY Invariant, <1>1, PTL

(* No interleaving faults a thread that leaves what it entered.            *)
THEOREM FaultsEarned == Spec => []FaultsAreEarned
<1>1. IInv => FaultsAreEarned
  BY DEF IInv
<1>2. QED
  BY Invariant, <1>1, PTL

-----------------------------------------------------------------------------
(* The stores that end an enter or a leave are the steps of the recursive  *)
(* lock; every other step leaves it alone.                                 *)

LEMMA Enters ==
  ASSUME IInv, NEW t \in Threads, Bump(t) \/ Publish(t)
  PROVE  Lock!Enter(t)
<1>1. owner \in {t, Free, Claiming}
  BY SMT DEF IInv, Knows, Bump, Publish
<1>2. \A u \in Threads \ {t} : holds[u] = 0
  BY <1>1, UserMutexAssumption, SMT DEF IInv, OwnerHolds, TypeOK
<1>3. holds[t] < DepthMax /\ holds' = [holds EXCEPT ![t] = holds[t] + 1]
  <2>1. CASE Bump(t)
    BY <2>1 DEF IInv, Knows, Bump
  <2>2. CASE Publish(t)
    <3>1. owner \notin Threads
      BY <2>2, UserMutexAssumption, SMT DEF IInv, Knows, Publish
    <3>2. holds[t] = 0
      BY <3>1, SMT DEF IInv, OwnerHolds, TypeOK
    <3>3. QED
      BY <2>2, <3>2, UserMutexAssumption, SMT DEF Publish
  <2>3. QED
    BY <2>1, <2>2
<1>4. QED
  BY <1>2, <1>3 DEF Lock!Enter

LEMMA Leaves ==
  ASSUME IInv, NEW t \in Threads, Drop(t) \/ Release(t)
  PROVE  Lock!Leave(t)
BY SMT DEF IInv, Knows, TypeOK, Drop, Release, Lock!Leave

LEMMA LockStep ==
  ASSUME IInv, NEW t \in Threads, Guest(t) \/ Continue(t)
  PROVE  Lock!Next \/ UNCHANGED holds
<1>1. CASE Bump(t) \/ Publish(t)
  BY <1>1, Enters DEF Lock!Next
<1>2. CASE Drop(t) \/ Release(t)
  BY <1>2, Leaves DEF Lock!Next
<1>3. CASE Guest(t)
  BY <1>3, Zenon DEF Guest, Bind, Spawn, Initialize, Delete, Call
<1>4. CASE Continue(t) /\ ~(Bump(t) \/ Publish(t)) /\ ~(Drop(t) \/ Release(t))
  BY <1>4, Zenon DEF Continue, InlineCheck, FastOwner, FastDepth, FastFree, Endpoint, LoadOwner,
     TryFails, Wait, Recur, Claim, Claimed, SetDepth, CheckOwner, Unowned, Mine, Zero
<1>5. QED
  BY <1>1, <1>2, <1>3, <1>4

(* The two words, with the inline path in front of them, implement the     *)
(* recursive lock the guest expects of a critical section.                 *)
THEOREM Implements == Spec => RecursiveLockSpec
<1>1. Init => Lock!Init
  BY DEF Init, Lock!Init
<1>2. IInv /\ [Next]_vars => [Lock!Next]_holds
  BY LockStep DEF Next, vars
<1>3. QED
  BY Invariant, <1>1, <1>2, PTL DEF Spec, RecursiveLockSpec, Lock!Spec
=============================================================================
