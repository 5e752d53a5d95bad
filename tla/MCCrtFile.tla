----------------------------- MODULE MCCrtFile -----------------------------
EXTENDS CrtFile

CONSTANTS arc, loose
FirstSizes == [p \in Paths |-> IF p \in Archives THEN 2 ELSE 1]
Back == {-1}
Ends == {0, -2}

(* States are told apart by what a later call can read: not by the answer, *)
(* which none does, nor by a recorded size or offset that is out of use,   *)
(* nor by the cursor of the idle stream, which is rewound before it is     *)
(* used, nor by the addresses of streams, but by which of them agree, nor  *)
(* by which of two slots holds a file.                                     *)
InUse(s) ==
  [s EXCEPT !.off   = IF s.pend THEN s.off ELSE 0,
            !.seen  = IF s.pend \/ (s.valid /\ s.fresh) THEN s.seen ELSE 0,
            !.fresh = s.valid /\ s.fresh,
            !.valid = s.valid /\ (s.pend \/ s.fresh)]
Holders(a, i) ==
  {who \in {"mine", "idle", "stream", "token", "open"} :
     CASE who = "mine"   -> slots[i].st.addr = a
       [] who = "idle"   -> idle # None /\ idle.st.addr = a
       [] who = "stream" -> \E j \in Slots \ {i} : slots[j].st.addr = a
       [] who = "token"  -> \E j \in Slots \ {i} : slots[j].token = a
       [] who = "open"   -> a \in files}
Look(i) ==
  [InUse(slots[i]) EXCEPT !.token = Holders(@, i), !.st.addr = Holders(@, i)]
Rewinds(i) ==
  IF i = None THEN None
  ELSE [i EXCEPT !.st.cur = 0, !.st.eof = FALSE, !.st.addr = i.st.addr \in files]
Later ==
  LET look == [i \in Slots |-> Look(i)]
  IN <<size, [x \in {look[i] : i \in Slots} |-> Cardinality({i \in Slots : look[i] = x})],
       Rewinds(idle), Cardinality(files), suspends, failures>>
=============================================================================
