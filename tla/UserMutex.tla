------------------------------ MODULE UserMutex ------------------------------
(***************************************************************************)
(* A guest critical section: the recursive user-space mutex kept in two    *)
(* words of the 24-byte guest object (vita_sync_services.c), the           *)
(* registered endpoints around it (host_vita_sync.c) and the inline        *)
(* single-owner path in front of them (host_vita_sync_fastpath.h).         *)
(*                                                                         *)
(* Every load, store and compare-and-swap of the owner word and of the     *)
(* depth word is a step.  A thread that guest_fault stops takes no more    *)
(* steps and keeps what it held.                                           *)
(***************************************************************************)
EXTENDS Naturals

CONSTANTS
  Threads,        \* threads that may ever run guest code; their positive UIDs
  Main,           \* the thread the program starts on
  DepthMax,       \* UINT32_MAX, the largest recursion depth
  DelayMayFail,   \* TRUE: sceKernelDelayThread may return an error
  Free, Claiming, \* 0 and UINT32_MAX in the owner word
  None, Disabled  \* the two sentinels of the inline owner latch

ASSUME UserMutexAssumption ==
  /\ Main \in Threads /\ DepthMax \in Nat \ {0}
  /\ Free \notin Threads /\ Claiming \notin Threads /\ Free # Claiming
  /\ None \notin Threads /\ Disabled \notin Threads /\ None # Disabled
  /\ Free \notin {None, Disabled}

VARIABLES
  valid,    \* 1 while the object carries the magic word
  owner,    \* its owner word
  depth,    \* its depth word
  latch,    \* g_isaac_vita_sync_inline_owner
  bound,    \* threads whose CPU has its thread UID
  started,  \* threads that run guest code
  pc,       \* where each thread is
  call,     \* the import it is in: "enter", "try" or "leave"
  seen,     \* the depth it loaded
  fault,    \* why guest_fault stopped it
  holds     \* history: enters not yet left, counted when the words say so

words == <<valid, owner, depth>>
vars  == <<valid, owner, depth, latch, bound, started, pc, call, seen, fault, holds>>

Init ==
  /\ valid = 0 /\ owner = Free /\ depth = 0
  /\ latch = None /\ bound = {} /\ started = {Main}
  /\ pc = [t \in Threads |-> "idle"] /\ call = [t \in Threads |-> "none"]
  /\ seen = [t \in Threads |-> 0]
  /\ fault = [t \in Threads |-> "none"]
  /\ holds = [t \in Threads |-> 0]

Goto(t, l) == pc' = [pc EXCEPT ![t] = l]

(* The import returns to the guest, or faults.                             *)
Return(t)   == Goto(t, "idle")
Fault(t, r) == Goto(t, "fault") /\ fault' = [fault EXCEPT ![t] = r]

(* c->vita_sync_thread_id; Free stands for the 0 of an unbound CPU         *)
Id(t) == IF t \in bound THEN t ELSE Free

(* The guest does not initialize or delete an object that is in use.       *)
Quiescent == \A t \in Threads : pc[t] \in {"idle", "fault"}

-----------------------------------------------------------------------------
(* Threads and the latch                                                   *)

NoteBound_Rearms(t) == IF latch # t THEN t ELSE latch

(* isaac_vita_sync_inline_note_bound: the first bind arms                  *)
NoteBound(t) ==
  IF latch = None THEN t ELSE IF latch # t THEN Disabled ELSE latch

Bind(t) ==
  /\ t \in started \ bound /\ pc[t] = "idle"
  /\ bound' = bound \cup {t} /\ latch' = NoteBound(t)
  /\ UNCHANGED <<words, started, pc, call, seen, fault, holds>>

Spawn_KeepsLatch(t, u) ==
  /\ t \in started /\ pc[t] = "idle" /\ u \notin started
  /\ started' = started \cup {u} /\ UNCHANGED latch
  /\ UNCHANGED <<words, bound, pc, call, seen, fault, holds>>

(* A second guest thread, started as the header requires: the creating     *)
(* thread calls isaac_vita_sync_inline_disable first.                      *)
Spawn(t, u) ==
  /\ t \in started /\ pc[t] = "idle" /\ u \notin started
  /\ started' = started \cup {u} /\ latch' = Disabled
  /\ UNCHANGED <<words, bound, pc, call, seen, fault, holds>>

-----------------------------------------------------------------------------
(* The object                                                              *)

Initialize(t) ==
  /\ t \in started /\ pc[t] = "idle" /\ Quiescent
  /\ IF valid = 1
       THEN Fault(t, "twice") /\ UNCHANGED words
       ELSE /\ valid' = 1 /\ owner' = Free /\ depth' = 0
            /\ UNCHANGED <<pc, fault>>
  /\ UNCHANGED <<latch, bound, started, call, seen, holds>>

(* note_endpoint: an operation by another identity disables the latch      *)
NoteEndpoint(t) == IF latch \in Threads /\ Id(t) # latch THEN Disabled ELSE latch

(* cs_delete: refused while owned; invalidates, then clears the words      *)
Delete(t) ==
  /\ t \in started /\ pc[t] = "idle" /\ Quiescent
  /\ latch' = NoteEndpoint(t)
  /\ IF valid = 1 /\ owner = Free /\ depth = 0
       THEN valid' = 0 /\ owner' = Free /\ depth' = 0 /\ UNCHANGED <<pc, fault>>
       ELSE /\ Fault(t, IF valid = 0 THEN "uninitialized"
                        ELSE IF owner # Free THEN "owned" ELSE "state")
            /\ UNCHANGED words
  /\ UNCHANGED <<bound, started, call, seen, holds>>

-----------------------------------------------------------------------------
(* EnterCriticalSection, TryEnterCriticalSection, LeaveCriticalSection     *)

(* TryEnter has no inline path.                                            *)
Call(t, k) ==
  /\ t \in started /\ pc[t] = "idle"
  /\ call' = [call EXCEPT ![t] = k]
  /\ Goto(t, IF k = "try" THEN "endpoint" ELSE "inline")
  /\ UNCHANGED <<words, latch, bound, started, seen, fault, holds>>

(* inline_cs_address: only the armed thread, only a valid object           *)
InlineCheck(t) ==
  /\ pc[t] = "inline"
  /\ Goto(t, IF Id(t) = latch /\ valid = 1 THEN "fastOwner" ELSE "endpoint")
  /\ UNCHANGED <<words, latch, bound, started, call, seen, fault, holds>>

FastOwner(t) ==
  /\ pc[t] = "fastOwner"
  /\ Goto(t, IF owner = t THEN "fastDepth"
             ELSE IF owner = Free /\ call[t] = "enter" THEN "fastFree" ELSE "endpoint")
  /\ UNCHANGED <<words, latch, bound, started, call, seen, fault, holds>>

FastDepth_Restarts(t) ==
  /\ pc[t] = "fastDepth"
  /\ seen' = [seen EXCEPT ![t] = IF call[t] = "enter" THEN 0 ELSE depth]
  /\ Goto(t, IF depth = 0 \/ (call[t] = "enter" /\ depth = DepthMax) THEN "endpoint"
             ELSE IF call[t] = "enter" THEN "bump" ELSE IF depth > 1 THEN "drop" ELSE "zero")
  /\ UNCHANGED <<words, latch, bound, started, call, fault, holds>>

(* What the thread stores next once it loaded the depth of its own mutex   *)
FastDepth(t) ==
  /\ pc[t] = "fastDepth"
  /\ seen' = [seen EXCEPT ![t] = depth]
  /\ Goto(t, IF depth = 0 \/ (call[t] = "enter" /\ depth = DepthMax) THEN "endpoint"
             ELSE IF call[t] = "enter" THEN "bump" ELSE IF depth > 1 THEN "drop" ELSE "zero")
  /\ UNCHANGED <<words, latch, bound, started, call, fault, holds>>

FastFree(t) ==
  /\ pc[t] = "fastFree"
  /\ Goto(t, IF depth = 0 THEN "fastSet" ELSE "endpoint")
  /\ UNCHANGED <<words, latch, bound, started, call, seen, fault, holds>>

(* cs_validate                                                             *)
Endpoint(t) ==
  /\ pc[t] = "endpoint"
  /\ latch' = NoteEndpoint(t)
  /\ IF valid = 0 THEN Fault(t, "uninitialized")
     ELSE Goto(t, IF call[t] = "leave" THEN "check" ELSE "load") /\ UNCHANGED fault
  /\ UNCHANGED <<words, bound, started, call, seen, holds>>

-----------------------------------------------------------------------------
(* lock_userspace_mutex_for_thread and try_lock                            *)

LoadOwner(t) ==
  /\ pc[t] = "load" /\ owner \in {t, Free}
  /\ Goto(t, IF owner = t THEN "recur" ELSE "claim")
  /\ UNCHANGED <<words, latch, bound, started, call, seen, fault, holds>>

(* Another owner, or one being published: try-lock gives up ...            *)
TryFails(t) ==
  /\ pc[t] = "load" /\ owner \notin {t, Free} /\ call[t] = "try"
  /\ Return(t)
  /\ UNCHANGED <<words, latch, bound, started, call, seen, fault, holds>>

(* ... and lock sleeps for a microsecond and looks again.                  *)
Wait(t) ==
  /\ pc[t] = "load" /\ owner \notin {t, Free} /\ call[t] = "enter"
  /\ DelayMayFail /\ Fault(t, "delay")
  /\ UNCHANGED <<words, latch, bound, started, call, seen, holds>>

Recur(t) ==
  /\ pc[t] = "recur"
  /\ seen' = [seen EXCEPT ![t] = depth]
  /\ IF depth \in {0, DepthMax}
       THEN Fault(t, IF depth = 0 THEN "state" ELSE "overflow")
       ELSE Goto(t, "bump") /\ UNCHANGED fault
  /\ UNCHANGED <<words, latch, bound, started, call, holds>>

Bump(t) ==
  /\ pc[t] = "bump"
  /\ depth' = seen[t] + 1 /\ holds' = [holds EXCEPT ![t] = @ + 1]
  /\ Return(t)
  /\ UNCHANGED <<valid, owner, latch, bound, started, call, seen, fault>>

Claim_Blind(t) ==
  /\ pc[t] = "claim"
  /\ owner' = Claiming /\ Goto(t, "claimed")
  /\ UNCHANGED <<valid, depth, latch, bound, started, call, seen, fault, holds>>

Claim(t) ==        \* compare-and-swap of 0 to CLAIMING
  /\ pc[t] = "claim"
  /\ IF owner = Free THEN owner' = Claiming /\ Goto(t, "claimed")
                     ELSE UNCHANGED owner /\ Goto(t, "load")
  /\ UNCHANGED <<valid, depth, latch, bound, started, call, seen, fault, holds>>

Claimed(t) ==
  /\ pc[t] = "claimed"
  /\ IF depth = 0 THEN Goto(t, "set") /\ UNCHANGED <<owner, fault>>
                  ELSE owner' = Free /\ Fault(t, "state")
  /\ UNCHANGED <<valid, depth, latch, bound, started, call, seen, holds>>

SetDepth(t) ==
  /\ pc[t] \in {"set", "fastSet"}
  /\ depth' = 1 /\ Goto(t, IF pc[t] = "set" THEN "publish" ELSE "fastPublish")
  /\ UNCHANGED <<valid, owner, latch, bound, started, call, seen, fault, holds>>

Publish(t) ==
  /\ pc[t] \in {"publish", "fastPublish"}
  /\ owner' = t /\ holds' = [holds EXCEPT ![t] = @ + 1]
  /\ Return(t)
  /\ UNCHANGED <<valid, depth, latch, bound, started, call, seen, fault>>

-----------------------------------------------------------------------------
(* unlock_userspace_mutex_for_thread                                       *)

CheckOwner(t) ==
  /\ pc[t] = "check"
  /\ IF owner \in {t, Free}
       THEN Goto(t, IF owner = t THEN "mine" ELSE "unowned") /\ UNCHANGED fault
       ELSE Fault(t, "notOwned")
  /\ UNCHANGED <<words, latch, bound, started, call, seen, holds>>

(* The owner word was free; the depth word is loaded a moment later.       *)
Unowned(t) ==
  /\ pc[t] = "unowned"
  /\ Fault(t, IF depth = 0 THEN "underflow" ELSE "state")
  /\ UNCHANGED <<words, latch, bound, started, call, seen, holds>>

Mine(t) ==
  /\ pc[t] = "mine"
  /\ seen' = [seen EXCEPT ![t] = depth]
  /\ IF depth = 0 THEN Fault(t, "state")
     ELSE Goto(t, IF depth > 1 THEN "drop" ELSE "zero") /\ UNCHANGED fault
  /\ UNCHANGED <<words, latch, bound, started, call, holds>>

Drop(t) ==
  /\ pc[t] = "drop"
  /\ depth' = seen[t] - 1 /\ holds' = [holds EXCEPT ![t] = @ - 1]
  /\ Return(t)
  /\ UNCHANGED <<valid, owner, latch, bound, started, call, seen, fault>>

Zero_Skipped(t) ==
  /\ pc[t] = "zero" /\ Goto(t, "release")
  /\ UNCHANGED <<words, latch, bound, started, call, seen, fault, holds>>

Zero(t) ==
  /\ pc[t] = "zero"
  /\ depth' = 0 /\ Goto(t, "release")
  /\ UNCHANGED <<valid, owner, latch, bound, started, call, seen, fault, holds>>

Release_Skipped(t) ==
  /\ pc[t] = "release"
  /\ holds' = [holds EXCEPT ![t] = @ - 1] /\ Return(t)
  /\ UNCHANGED <<words, latch, bound, started, call, seen, fault>>

Release(t) ==
  /\ pc[t] = "release"
  /\ owner' = Free /\ holds' = [holds EXCEPT ![t] = @ - 1]
  /\ Return(t)
  /\ UNCHANGED <<valid, depth, latch, bound, started, call, seen, fault>>

-----------------------------------------------------------------------------
(* What the guest program does next, and what its import does.             *)
Guest(t) ==
  \/ Bind(t) \/ (\E u \in Threads : Spawn(t, u))
  \/ Initialize(t) \/ Delete(t)
  \/ \E k \in {"enter", "try", "leave"} : Call(t, k)

Continue(t) ==
  \/ InlineCheck(t) \/ FastOwner(t) \/ FastDepth(t) \/ FastFree(t) \/ Endpoint(t)
  \/ LoadOwner(t) \/ TryFails(t) \/ Wait(t) \/ Recur(t) \/ Bump(t)
  \/ Claim(t) \/ Claimed(t) \/ SetDepth(t) \/ Publish(t)
  \/ CheckOwner(t) \/ Unowned(t) \/ Mine(t) \/ Drop(t) \/ Zero(t) \/ Release(t)

Next == \E t \in Threads : Guest(t) \/ Continue(t)

Spec == Init /\ [][Next]_vars

(* The kernel runs every ready thread; the guest calls when it likes, and  *)
(* a delay need not fail.                                                  *)
FairSpec == Spec /\ \A t \in Threads : WF_vars(Continue(t) /\ fault'[t] # "delay")

-----------------------------------------------------------------------------
(* Properties                                                              *)

Locations == {"idle", "inline", "fastOwner", "fastDepth", "fastFree", "fastSet",
              "fastPublish", "endpoint", "load", "recur", "bump", "claim", "claimed",
              "set", "publish", "check", "unowned", "mine", "drop", "zero", "release",
              "fault"}
Reasons   == {"none", "twice", "uninitialized", "owned", "state", "overflow", "delay",
              "notOwned", "underflow"}

TypeOK ==
  /\ valid \in 0 .. 1 /\ depth \in 0 .. DepthMax
  /\ owner \in Threads \cup {Free, Claiming}
  /\ latch \in Threads \cup {None, Disabled}
  /\ bound \subseteq Threads /\ started \subseteq Threads
  /\ pc \in [Threads -> Locations]
  /\ call \in [Threads -> {"none", "enter", "try", "leave"}]
  /\ seen \in [Threads -> 0 .. DepthMax]
  /\ fault \in [Threads -> Reasons]
  /\ holds \in [Threads -> 0 .. DepthMax]

(* Two threads are never inside the critical section.                      *)
MutualExclusion ==
  \A t, u \in Threads : holds[t] > 0 /\ holds[u] > 0 => t = u

(* The two words tell the truth: the owner word names the thread inside,   *)
(* and the depth word counts its enters, except for the moment between the *)
(* two stores of the last leave and of a first enter.                      *)
InTransit == \E t \in Threads : pc[t] \in {"publish", "fastPublish", "release"}
WordsAgree ==
  /\ \A t \in Threads : owner = t <=> holds[t] > 0
  /\ ~InTransit /\ owner \in Threads => depth = holds[owner]
  /\ ~InTransit /\ owner \notin Threads => depth = 0

(* While a thread is on the inline path, which uses plain loads and stores,*)
(* no other thread runs guest code.                                        *)
Fast == {"fastOwner", "fastDepth", "fastFree", "fastSet", "fastPublish"}
InlineIsAlone ==
  \A t \in Threads : pc[t] \in Fast => started = {t}

(* A correct caller is never faulted by the interleaving of others: the    *)
(* "state" verdict falls only on a leave without an enter, overflow only   *)
(* at the largest depth.                                                   *)
FaultsAreEarned ==
  \A t \in Threads :
    /\ fault[t] \in {"state", "notOwned", "underflow"} => holds[t] = 0 /\ call[t] = "leave"
    /\ fault[t] = "overflow" => holds[t] = DepthMax

(* No deadlock and no lost release: if a thread waits for ever although    *)
(* the threads inside keep coming out, others acquire it over and over.    *)
Waiting(t) == call[t] = "enter" /\ pc[t] \in {"load", "claim"}
Progress ==
  \A t \in Threads :
    <>[]Waiting(t) /\ []<>(\A u \in Threads : holds[u] = 0)
      => []<>(\E u \in Threads : pc[u] = "publish")

(* The promise: a recursive lock whose enters and leaves are atomic.       *)
Lock == INSTANCE RecursiveLock
RecursiveLockSpec == Lock!Spec
=============================================================================
