------------------------- MODULE VorbisMirror_proof -------------------------
(***************************************************************************)
(* For any number of mirrors, any states and rings, and any interleaving   *)
(* of the game thread and the worker: a mirror has one decoder at a time,  *)
(* a state has one mirror, and the worker decodes only the stream that it  *)
(* looked at.  When the guest decodes what it has opened or moved before   *)
(* the mirror may be evicted, the read-ahead in a stream is undone by the  *)
(* time the translated decoder goes on with it, the frames are heard in    *)
(* the order of the file, each once, and a call returns without a frame    *)
(* only when every one has been heard.                                     *)
(***************************************************************************)
EXTENDS VorbisMirror, FiniteSetTheorems, WellFoundedInduction, TLAPS

-----------------------------------------------------------------------------
(* The inductive invariant.                                                *)

(* The worker's places with a mirror, those where it works on it, the game *)
(* thread's with one, and what a retire may be part of.                    *)
Held   == {"validate", "fill", "decode", "publish", "end", "yield"}
AtWork == {"fill", "decode", "publish", "end"}
Holds  == {"inert", "release", "clone", "ready", "reject", "frame", "unbusy", "sample",
           "unsample"}
Rets   == {"close", "reopen", "reclone", "evict", "zero"}

(* A mirror's slot is a record, and a call is about a state.               *)
Fields == {"gf", "mode", "dirty", "stale", "logical", "head", "physOK", "physPos"}
SlotShape(t) == DOMAIN t = Mirrors /\ \A m \in Mirrors : Fields \subseteq DOMAIN t[m]
Shape ==
  /\ SlotShape(slot) /\ DOMAIN active = Mirrors /\ DOMAIN busy = Mirrors
  /\ cm \in Mirrors /\ wm \in Mirrors
  /\ pc # "idle" => cur \in States

(* `busy` tells which thread holds a mirror; what the worker works on is   *)
(* the stream it has looked at.                                            *)
HoldInv ==
  \A m \in Mirrors :
    /\ busy[m] = "worker" <=> wm = m /\ wpc \in Held
    /\ busy[m] = "game" <=> cm = m /\ pc \in Holds
WorkInv == wpc \in AtWork => same /\ slot[wm].mode = "stream"

(* An active mirror serves a state, and no other mirror serves it.         *)
SlotInv ==
  /\ \A m \in Mirrors : active[m] => slot[m].gf \in States
  /\ \A m, n \in Mirrors : active[m] /\ active[n] /\ slot[m].gf = slot[n].gf => m = n

(* A state that is about to be cloned has no other mirror than the one it  *)
(* will be cloned into.                                                    *)
PlaceInv ==
  /\ pc \in {"quiesce", "inert", "release", "clear"} => ret \in Rets
  /\ pc = "clone" \/ (pc \in {"quiesce", "inert"} /\ ret # "zero") => Lookup(cur) \subseteq {cm}
  /\ pc \in {"start", "claim"} \/ (pc \in {"release", "clear"} /\ ret # "zero") => Lookup(cur) = {}

IInv == Shape /\ HoldInv /\ WorkInv /\ SlotInv /\ PlaceInv

-----------------------------------------------------------------------------
(* Before the first open no mirror serves a state and nobody has one.      *)
LEMMA InitInv == Init => IInv
  <1> SUFFICES ASSUME Init PROVE IInv OBVIOUS
  <1>1. Shape
    BY VorbisMirrorAssumption DEF Init, Shape, SlotShape, Fields, Inert, Mirrors
  <1>2. HoldInv /\ WorkInv /\ PlaceInv
    BY DEF Init, HoldInv, WorkInv, PlaceInv, Held, AtWork, Holds
  <1>3. SlotInv
    BY DEF Init, SlotInv
  <1> QED BY <1>1, <1>2, <1>3 DEF IInv

(* A set of numbers that is not empty has a least one, so the first of a   *)
(* set of mirrors is one of them.                                          *)
LEMMA FirstOf ==
  ASSUME NEW S \in SUBSET Mirrors, S # {} PROVE First(S) \in S
  <1>1. S \in SUBSET Nat
    BY VorbisMirrorAssumption DEF Mirrors
  <1>2. \E R : IsWellFoundedOn(R, Nat) /\ \A x, y \in Nat : <<y, x>> \in R <=> y < x
    <2>1. \A x, y \in Nat : <<y, x>> \in OpToRel(<, Nat) <=> y < x
      BY DEF OpToRel
    <2> QED BY <2>1, NatLessThanWellFounded
  <1>3. PICK R : IsWellFoundedOn(R, Nat) /\ \A x, y \in Nat : <<y, x>> \in R <=> y < x
    BY <1>2
  <1>4. PICK x \in S : \A y \in S : ~(<<y, x>> \in R)
    BY <1>1, <1>3, WFMin
  <1>5. \A y \in S : x <= y
    <2> TAKE y \in S
    <2>1. x \in Nat /\ y \in Nat
      BY <1>1
    <2>2. ~(y < x)
      BY <1>3, <1>4, <2>1
    <2> QED BY <2>1, <2>2
  <1> QED BY <1>5 DEF First

-----------------------------------------------------------------------------
(* What a step does to the mirrors and their holders.                      *)

(* The mirrors serve what they served                                      *)
Serves ==
  /\ UNCHANGED active /\ SlotShape(slot')
  /\ \A m \in Mirrors : slot'[m].gf = slot[m].gf /\ slot'[m].mode = slot[m].mode

Moves == /\ Serves /\ UNCHANGED <<busy, worker>>
         /\ pc \in Holds <=> pc' \in Holds
         /\ pc \in Holds => cm' = cm
Takes == /\ Serves /\ UNCHANGED <<worker, cm>> /\ busy[cm] = "none" /\ Set(busy, cm, "game")
         /\ pc \notin Holds /\ pc' \in Holds
Gives == /\ Serves /\ UNCHANGED <<worker, cm>> /\ Set(busy, cm, "none")
         /\ pc \in Holds /\ pc' \notin Holds
(* A mirror ends, and one begins to serve the state of the call            *)
Ends == /\ pc \in Holds /\ UNCHANGED cm /\ pc' \in Holds /\ UNCHANGED busy
        /\ Set(active, cm, FALSE) /\ Changes(cm)
        /\ SlotShape(slot') /\ \A m \in Mirrors \ {cm} : slot'[m] = slot[m]
Fails == /\ pc \notin Holds /\ UNCHANGED cm /\ pc' \notin Holds /\ UNCHANGED <<busy, worker>>
         /\ Set(active, cm, FALSE)
         /\ SlotShape(slot') /\ \A m \in Mirrors \ {cm} : slot'[m] = slot[m]
         /\ slot'[cm].mode = slot[cm].mode
Begins == /\ pc = "clone" /\ pc' = "ready" /\ UNCHANGED <<busy, cm, cur>>
          /\ Set(active, cm, TRUE) /\ Changes(cm)
          /\ SlotShape(slot') /\ \A m \in Mirrors \ {cm} : slot'[m] = slot[m]
          /\ slot'[cm].gf = cur
(* The worker works, takes a mirror or leaves it                           *)
Proceeds ==
          /\ Serves /\ UNCHANGED <<busy, game, wm>>
          /\ wpc \in Held <=> wpc' \in Held
          /\ wpc' \in AtWork =>
               (same => same') /\ (wpc \in AtWork \/ (same /\ slot[wm].mode = "stream"))
Grabs  == /\ Serves /\ UNCHANGED <<game, wm>> /\ busy[wm] = "none" /\ Set(busy, wm, "worker")
          /\ wpc' = "validate"
Passes == /\ Serves /\ UNCHANGED <<busy, game>> /\ wpc \notin Held /\ NextMirror
Drops  == /\ UNCHANGED <<game, active>> /\ wpc \in Held /\ Set(busy, wm, "none") /\ NextMirror
          /\ SlotShape(slot') /\ \A m \in Mirrors : active[m] => slot'[m] = slot[m]

Kind == \/ Moves \/ Takes \/ Gives \/ Ends \/ Fails \/ Begins
        \/ Proceeds \/ Grabs \/ Passes \/ Drops

(* Where the game thread goes on                                           *)
Plain == /\ pc' \notin {"quiesce", "inert", "clone", "start", "claim", "release", "clear"}
         /\ cm' \in Mirrors /\ (pc' # "idle" => cur' \in States)

(* No kind of step breaks what is said of the holders                      *)
LEMMA HoldKinds == ASSUME IInv, Kind PROVE HoldInv' /\ WorkInv'
  <1> USE DEF IInv, Shape, HoldInv, WorkInv, Held, AtWork, Holds
  <1>1. CASE Moves
    BY <1>1 DEF Moves, Serves, worker
  <1>2. CASE Takes
    BY <1>2 DEF Takes, Serves, worker, Set
  <1>3. CASE Gives
    BY <1>3 DEF Gives, Serves, worker, Set
  <1>4. CASE Ends
    BY <1>4 DEF Ends, Changes
  <1>5. CASE Fails
    BY <1>5 DEF Fails, worker
  <1>6. CASE Begins
    BY <1>6 DEF Begins, Changes
  <1>7. CASE Proceeds
    BY <1>7 DEF Proceeds, Serves, game
  <1>8. CASE Grabs
    BY <1>8 DEF Grabs, Serves, game, Set
  <1>9. CASE Passes
    BY <1>9 DEF Passes, Serves, game, NextMirror
  <1>10. CASE Drops
    BY <1>10 DEF Drops, game, Set, NextMirror
  <1> QED BY <1>1, <1>2, <1>3, <1>4, <1>5, <1>6, <1>7, <1>8, <1>9, <1>10 DEF Kind

(* No kind of step gives a state a second mirror                           *)
LEMMA SlotKinds == ASSUME IInv, Kind PROVE SlotInv' /\ SlotShape(slot)'
  <1> USE DEF IInv, Shape, SlotInv
  <1>1. CASE Moves \/ Takes \/ Gives \/ Proceeds \/ Grabs \/ Passes
    BY <1>1 DEF Moves, Takes, Gives, Proceeds, Grabs, Passes, Serves, SlotShape, Fields
  <1>2. CASE Ends \/ Fails
    BY <1>2 DEF Ends, Fails, Set, SlotShape, Fields
  <1>3. CASE Begins
    <2>1. Lookup(cur) \subseteq {cm} /\ cur \in States
      BY <1>3 DEF Begins, PlaceInv
    <2>2. \A m \in Mirrors : active[m] /\ slot[m].gf = cur => m = cm
      BY <2>1 DEF Lookup
    <2> QED BY <1>3, <2>1, <2>2 DEF Begins, Set, SlotShape, Fields
  <1>4. CASE Drops
    BY <1>4 DEF Drops, SlotShape, Fields
  <1> QED BY <1>1, <1>2, <1>3, <1>4 DEF Kind

(* Nor a mirror to a state that is about to have one                       *)
LEMMA LookupKinds ==
  ASSUME IInv, Kind, ~Begins, NEW f PROVE Lookup(f)' \subseteq Lookup(f)
  <1> USE DEF IInv, Shape, Lookup
  <1>1. CASE Moves \/ Takes \/ Gives \/ Proceeds \/ Grabs \/ Passes
    BY <1>1 DEF Moves, Takes, Gives, Proceeds, Grabs, Passes, Serves
  <1>2. CASE Ends \/ Fails
    BY <1>2 DEF Ends, Fails, Set
  <1>3. CASE Drops
    BY <1>3 DEF Drops
  <1> QED BY <1>1, <1>2, <1>3 DEF Kind
(* A state whose only mirror ends has none.                                *)
LEMMA LookupEnds ==
  ASSUME IInv, Ends \/ Fails, NEW f, Lookup(f) \subseteq {cm} PROVE Lookup(f)' = {}
  BY DEF IInv, Shape, Ends, Fails, Set, Lookup

-----------------------------------------------------------------------------
(* The guest's and the game thread's steps                                 *)

(* A kind of step keeps what is said of holders and slots.                 *)
LEMMA Kept ==
  ASSUME Kind, IInv, Shape', PlaceInv' PROVE IInv'
  BY HoldKinds, SlotKinds DEF IInv

(* A call that goes on, or ends, away from the places where a mirror is    *)
(* ended or begun.                                                         *)
LEMMA PlainStep ==
  ASSUME IInv, Kind, Plain, UNCHANGED <<active, wm>>, DOMAIN busy' = Mirrors PROVE IInv'
  <1>1. Shape'
    BY SlotKinds DEF IInv, Shape, Plain
  <1>2. PlaceInv'
    BY DEF Plain, PlaceInv
  <1> QED BY <1>1, <1>2, Kept

(* Such a step that leaves the mirrors to those who have them.             *)
LEMMA PlainMove ==
  ASSUME IInv, Moves, Plain PROVE IInv'
  BY PlainStep DEF Kind, Moves, Serves, worker, IInv, Shape

(* What changes of a slot without its state and its mode                   *)
LEMMA Same ==
  ASSUME IInv, UNCHANGED <<active, slot>> PROVE Serves
  BY DEF IInv, Shape, Serves

(* Putting the stream back does not change whose mirror it is,             *)
LEMMA SyncServes ==
  ASSUME IInv, NEW m \in Mirrors, Sync(m), UNCHANGED active PROVE Serves
  BY DEF IInv, Shape, SlotShape, Fields, Serves, Sync, SyncedSlot

(* nor does a move of the guest's state,                                   *)
LEMMA DirtyServes ==
  ASSUME IInv, NEW f, slot' = Dirty(f, slot), UNCHANGED active PROVE Serves
  BY DEF IInv, Shape, SlotShape, Fields, Serves, Dirty

(* nor the read-ahead.                                                     *)
LEMMA TopUpServes ==
  ASSUME IInv, TopUpMoves(cm), UNCHANGED active PROVE Serves
  BY DEF IInv, Shape, SlotShape, Fields, Serves, TopUpMoves

(* An open of a state that has no mirror begins to look for one.           *)
LEMMA OpenStep == ASSUME IInv, NEW f \in States, Open(f) PROVE IInv'
  <1>1. Serves
    BY DEF Open, IInv, Shape, SlotShape, Fields, Serves, flags
  <1>2. Moves /\ UNCHANGED <<active, busy, wm, cm, ret>>
    BY <1>1 DEF Open, Moves, Holds, game, flags, worker
  <1>3. CASE UNCHANGED game
    BY <1>2, <1>3, PlainMove DEF Open, Plain, game, IInv, Shape
  <1>4. CASE pc' = "start" /\ cur' = f /\ Lookup(f) = {}
    <2>1. Lookup(f)' = {}
      BY <1>2, <1>4, LookupKinds DEF Kind, Moves, Begins, Holds
    <2>2. Lookup(cur)' = {}
      BY <2>1, <1>4 DEF Lookup
    <2>3. Shape' /\ PlaceInv'
      BY <1>1, <1>2, <1>4, <2>2 DEF Serves, IInv, Shape, PlaceInv
    <2> QED BY <1>2, <2>3, Kept DEF Kind
  <1> QED BY <1>3, <1>4 DEF Open

(* The state moves, and its mirror stays where it is.                      *)
LEMMA SeekStep == ASSUME IInv, NEW f \in States, Seek(f) PROVE IInv'
  <1>1. Serves
    BY DirtyServes DEF Seek, flags
  <1>2. Moves /\ Plain
    BY <1>1 DEF Seek, Moves, Plain, Holds, flags, worker, IInv, Shape
  <1> QED BY <1>2, PlainMove

(* The pump puts the stream back, and spoils the mirror.                   *)
LEMMA PumpStep == ASSUME IInv, NEW f \in States, Pump(f) PROVE IInv'
  <1>1. Serves
    BY DirtyServes DEF Pump, flags
  <1>2. 1 \in Mirrors
    BY VorbisMirrorAssumption DEF Mirrors
  <1>3. Moves /\ Plain
    BY <1>1, <1>2 DEF Pump, Back, Moves, Plain, Holds, flags, worker
  <1> QED BY <1>3, PlainMove

(* A close retires the only mirror of its state.                           *)
LEMMA CloseStep == ASSUME IInv, NEW f \in States, Close(f) PROVE IInv'
  <1>1. Serves
    BY Same DEF Close, mirror
  <1>2. CASE Lookup(f) = {}
    <2>1. Moves /\ Plain
      BY <1>1, <1>2 DEF Close, Moves, Plain, Holds, worker, IInv, Shape
    <2> QED BY <2>1, PlainMove
  <1>3. CASE Lookup(f) # {}
    <2>1. /\ pc = "idle" /\ pc' = "quiesce" /\ ret' = "close" /\ cur' = f
          /\ cm' = First(Lookup(f)) /\ UNCHANGED <<busy, active, worker, slot>>
      BY <1>3 DEF Close, mirror
    <2>2. cm' \in Lookup(f) /\ cm' \in Mirrors
      BY <1>3, <2>1, FirstOf DEF Lookup
    <2>3. Lookup(f) \subseteq {cm'}
      BY <2>2 DEF Lookup, IInv, SlotInv
    <2>4. Lookup(cur)' \subseteq {cm'}
      BY <2>1, <2>3 DEF Lookup
    <2>5. Moves
      BY <1>1, <2>1 DEF Moves, Holds
    <2>6. Shape' /\ PlaceInv'
      BY <2>1, <2>2, <2>4 DEF IInv, Shape, PlaceInv, Rets, worker
    <2> QED BY <2>5, <2>6, Kept DEF Kind
  <1> QED BY <1>2, <1>3

(* The guest's state is closed.                                            *)
LEMMA CloseStateStep == ASSUME IInv, CloseState PROVE IInv'
  <1>1. Serves
    BY Same DEF CloseState, flags, mirror
  <1>2. 1 \in Mirrors
    BY VorbisMirrorAssumption DEF Mirrors
  <1>3. Moves /\ Plain
    BY <1>1, <1>2 DEF CloseState, Back, Moves, Plain, Holds, flags, worker
  <1> QED BY <1>3, PlainMove

(* A decode finds the only mirror of its state, or looks for one.          *)
LEMMA DecodeStep == ASSUME IInv, NEW f \in States, Decode(f) PROVE IInv'
  <1>1. pc = "idle" /\ cur' = f /\ UNCHANGED <<busy, active, worker>>
    BY DEF Decode
  <1>2. CASE Lookup(f) = {} /\ pc' = "start" /\ UNCHANGED <<phys, slot, retiring, cm, ret>>
    <2>1. Lookup(cur)' = {}
      BY <1>1, <1>2 DEF Lookup
    <2>2. Moves
      BY <1>1, <1>2, Same DEF Moves, Holds
    <2>3. Shape' /\ PlaceInv'
      BY <1>1, <1>2, <2>1 DEF IInv, Shape, PlaceInv, worker
    <2> QED BY <2>2, <2>3, Kept DEF Kind
  <1>3. ASSUME NEW m \in Lookup(f), NEW channels \in BOOLEAN, cm' = m,
               IF slot[m].dirty \/ slot[m].stale \/ channels
               THEN /\ pc' = "quiesce" /\ ret' = IF slot[m].stale THEN "reopen" ELSE "reclone"
                    /\ Set(retiring, m, TRUE)
                    /\ IF Current(m) THEN Sync(m) ELSE UNCHANGED <<phys, slot>>
               ELSE /\ pc' = IF slot[m].mode = "stream" THEN "topup" ELSE "memory"
                    /\ UNCHANGED <<phys, slot, retiring, ret>>
        PROVE  IInv'
    <2>1. m \in Mirrors
      BY DEF Lookup
    <2>2. Serves
      BY <1>1, <1>3, <2>1, Same, SyncServes
    <2>3. pc' \notin Holds
      BY <1>3 DEF Holds
    <2>4. Moves
      BY <1>1, <2>2, <2>3 DEF Moves, Holds
    <2>5. CASE pc' = "quiesce"
      <3>1. Lookup(f) \subseteq {m}
        BY DEF Lookup, IInv, SlotInv
      <3>2. Lookup(f)' \subseteq {m}
        BY <2>4, <3>1, <1>1, LookupKinds DEF Kind, Begins
      <3>3. Lookup(cur)' \subseteq {cm'}
        BY <1>1, <1>3, <3>2 DEF Lookup
      <3>4. ret' \in Rets
        BY <1>3, <2>5 DEF Rets
      <3>5. Shape' /\ PlaceInv'
        BY <1>1, <1>3, <2>1, <2>2, <2>5, <3>3, <3>4 DEF IInv, Shape, Serves, PlaceInv, worker
      <3> QED BY <2>4, <3>5, Kept DEF Kind
    <2>6. CASE pc' # "quiesce"
      <3>1. Plain
        BY <1>1, <1>3, <2>1, <2>6 DEF Plain
      <3> QED BY <2>4, <3>1, PlainMove
    <2> QED BY <2>5, <2>6
  <1> QED BY <1>2, <1>3 DEF Decode

(* The game thread has the mirror it has waited for.                       *)
LEMMA QuiescedStep == ASSUME IInv, Quiesced PROVE IInv'
  <1>1. /\ pc = "quiesce" /\ pc' = (IF ret = "reclone" THEN "clone" ELSE "inert")
        /\ UNCHANGED <<active, slot, worker, cur, cm, ret>>
        /\ busy[cm] = "none" /\ Set(busy, cm, "game")
    BY DEF Quiesced, Goto, mirror
  <1>2. Takes
    BY <1>1, Same DEF Takes, Holds
  <1>3. ret # "zero" => Lookup(cur)' \subseteq {cm'}
    BY <1>1 DEF IInv, PlaceInv, Lookup
  <1>4. Shape' /\ PlaceInv'
    BY <1>1, <1>3 DEF IInv, Shape, PlaceInv, Set, worker
  <1> QED BY <1>2, <1>4, Kept DEF Kind

(* Where a retire goes on.                                                 *)
LEMMA AfterGoes ==
  ASSUME After, ret \in Rets
  PROVE  /\ UNCHANGED <<cur, cm, ret>>
         /\ pc' \in {"close", "start", "claim", "translated"}
         /\ pc' \in {"start", "claim"} => ret \in {"reopen", "evict"}
  BY DEF After, Rets, Goto

(* A mirror that is given up serves no state, and may stay with the worker. *)
LEMMA QuiesceFailsStep == ASSUME IInv, QuiesceFails PROVE IInv'
  <1>1. /\ pc = "quiesce" /\ ret \in Rets /\ Set(active, cm, FALSE) /\ UNCHANGED <<busy, worker>>
        /\ slot' = [slot EXCEPT ![cm] = [Inert EXCEPT !.poisoned = TRUE, !.mode = slot[cm].mode]]
    BY DEF QuiesceFails, IInv, PlaceInv
  <1>2. /\ UNCHANGED <<cur, cm, ret>>
        /\ pc' \in {"close", "start", "claim", "translated"}
        /\ pc' \in {"start", "claim"} => ret \in {"reopen", "evict"}
    BY <1>1, AfterGoes DEF QuiesceFails, Goto
  <1>3. Fails
    <2>1. SlotShape(slot') /\ slot'[cm].mode = slot[cm].mode
      BY <1>1 DEF IInv, Shape, SlotShape, Fields, Inert
    <2>2. \A m \in Mirrors \ {cm} : slot'[m] = slot[m]
      BY <1>1 DEF IInv, Shape, SlotShape, Fields
    <2> QED BY <1>1, <1>2, <2>1, <2>2 DEF Fails, Holds
  <1>4. pc' \in {"start", "claim"} => Lookup(cur)' = {}
    <2> SUFFICES ASSUME pc' \in {"start", "claim"} PROVE Lookup(cur)' = {} OBVIOUS
    <2>1. Lookup(cur) \subseteq {cm}
      BY <1>1, <1>2 DEF IInv, PlaceInv
    <2> QED BY <1>2, <1>3, <2>1, LookupEnds DEF Lookup
  <1>5. Shape' /\ PlaceInv'
    BY <1>1, <1>2, <1>3, <1>4 DEF IInv, Shape, PlaceInv, Fails, Set, worker
  <1> QED BY <1>3, <1>5, Kept DEF Kind

(* Of a mirror that is emptied only its name is left                       *)
LEMMA EmptiesShape ==
  ASSUME IInv, NEW m \in Mirrors, Empties(m)
  PROVE  SlotShape(slot') /\ \A n \in Mirrors \ {m} : slot'[n] = slot[n]
  BY DEF IInv, Shape, SlotShape, Fields, Empties, Emptied, Inert

(* A retired mirror serves no state.                                       *)
LEMMA RetireStep == ASSUME IInv, Retire PROVE IInv'
  <1>1. /\ pc = "inert" /\ pc' = "release" /\ UNCHANGED <<busy, cur, cm, ret>>
        /\ Set(active, cm, FALSE) /\ Empties(cm) /\ Changes(cm) /\ UNCHANGED wm
    BY DEF Retire, Goto, Changes
  <1>2. Ends
    BY <1>1, EmptiesShape DEF Ends, Holds, IInv, Shape
  <1>3. ret # "zero" => Lookup(cur)' = {}
    <2> SUFFICES ASSUME ret # "zero" PROVE Lookup(cur)' = {} OBVIOUS
    <2>1. Lookup(cur) \subseteq {cm}
      BY <1>1 DEF IInv, PlaceInv
    <2> QED BY <1>1, <1>2, <2>1, LookupEnds DEF Lookup
  <1>4. Shape' /\ PlaceInv'
    BY <1>1, <1>2, <1>3 DEF IInv, Shape, PlaceInv, Ends, Set
  <1> QED BY <1>2, <1>4, Kept DEF Kind

(* It is given back,                                                       *)
LEMMA RetireReleasesStep == ASSUME IInv, RetireReleases PROVE IInv'
  <1>1. /\ pc = "release" /\ pc' = "clear" /\ UNCHANGED <<active, slot, worker, cur, cm, ret>>
        /\ Set(busy, cm, "none")
    BY DEF RetireReleases, Goto, mirror
  <1>2. Gives
    BY <1>1, Same DEF Gives, Holds
  <1>3. Lookup(cur)' = Lookup(cur)
    BY <1>1 DEF Lookup
  <1>4. Shape' /\ PlaceInv'
    BY <1>1, <1>3 DEF IInv, Shape, PlaceInv, Set, worker
  <1> QED BY <1>2, <1>4, Kept DEF Kind

(* and may be taken again.                                                 *)
LEMMA RetireClearsStep == ASSUME IInv, RetireClears PROVE IInv'
  <1>1. /\ pc = "clear" /\ ret \in Rets /\ UNCHANGED <<busy, active, slot, worker>>
    BY DEF RetireClears, mirror, IInv, PlaceInv
  <1>2. /\ UNCHANGED <<cur, cm, ret>>
        /\ pc' \in {"close", "start", "claim", "translated"}
        /\ pc' \in {"start", "claim"} => ret \in {"reopen", "evict"}
    BY <1>1, AfterGoes DEF RetireClears
  <1>3. Moves
    BY <1>1, <1>2, Same DEF Moves, Holds
  <1>4. Lookup(cur)' = Lookup(cur)
    BY <1>1, <1>2 DEF Lookup
  <1>5. Shape' /\ PlaceInv'
    BY <1>1, <1>2, <1>4 DEF IInv, Shape, PlaceInv, worker
  <1> QED BY <1>3, <1>5, Kept DEF Kind

(* A mirror that serves no state is chosen,                                *)
LEMMA TakeStep == ASSUME IInv, Take PROVE IInv'
  <1>1. /\ pc = "start" /\ pc' = "claim" /\ UNCHANGED <<busy, active, slot, worker, cur, ret>>
        /\ cm' = First(Free) /\ Free # {}
    BY DEF Take, flags, mirror
  <1>2. cm' \in Mirrors
    BY <1>1, FirstOf DEF Free, Usable
  <1>3. Moves
    BY <1>1, Same DEF Moves, Holds
  <1>4. Lookup(cur)' = Lookup(cur)
    BY <1>1 DEF Lookup
  <1>5. Shape' /\ PlaceInv'
    BY <1>1, <1>2, <1>4 DEF IInv, Shape, PlaceInv, worker
  <1> QED BY <1>3, <1>5, Kept DEF Kind

(* or one that serves another state.                                       *)
LEMMA EvictStep == ASSUME IInv, Evict PROVE IInv'
  <1>1. PICK m \in Idle : Sync(m) /\ Set(retiring, m, TRUE) /\ cm' = m
    BY DEF Evict
  <1>2. /\ pc = "start" /\ pc' = "quiesce" /\ ret' = "evict"
        /\ UNCHANGED <<busy, active, worker, cur>>
    BY DEF Evict
  <1>3. m \in Mirrors
    BY DEF Idle, Usable
  <1>4. Serves /\ Moves
    BY <1>1, <1>2, <1>3, SyncServes DEF Moves, Holds
  <1>5. Lookup(cur)' = {}
    <2>1. Lookup(cur) = {}
      BY <1>2 DEF IInv, PlaceInv
    <2>2. \A f : Lookup(f)' \subseteq Lookup(f)
      BY <1>2, <1>4, LookupKinds DEF Kind, Begins
    <2> QED BY <1>2, <2>1, <2>2 DEF Lookup
  <1>6. Shape' /\ PlaceInv'
    BY <1>1, <1>2, <1>3, <1>4, <1>5 DEF IInv, Shape, PlaceInv, Serves, Rets, worker
  <1> QED BY <1>4, <1>6, Kept DEF Kind

(* A decode that gets no mirror, or an open, goes on without               *)
LEMMA WithoutStep ==
  ASSUME IInv, Without, UNCHANGED <<busy, active, slot, worker>>,
         pc \in {"start", "claim", "rejected"}
  PROVE  IInv'
  <1>1. 1 \in Mirrors
    BY VorbisMirrorAssumption DEF Mirrors
  <1>2. Moves /\ Plain
    BY <1>1, Same DEF Without, Back, Goto, Moves, Plain, Holds, IInv, Shape
  <1> QED BY <1>2, PlainMove

(* There is no mirror to be had.                                           *)
LEMMA PoolStep == ASSUME IInv, PoolFull \/ PoolBusy \/ Rejected PROVE IInv'
  BY WithoutStep DEF PoolFull, PoolBusy, Rejected, flags, mirror

(* The chosen mirror is taken.                                             *)
LEMMA ClaimStep == ASSUME IInv, Claim PROVE IInv'
  <1>1. /\ pc = "claim" /\ pc' = "clone" /\ UNCHANGED <<active, slot, worker, cur, cm, ret>>
        /\ busy[cm] = "none" /\ Set(busy, cm, "game")
    BY DEF Claim, Goto, mirror
  <1>2. Takes
    BY <1>1, Same DEF Takes, Holds
  <1>3. Lookup(cur)' = Lookup(cur)
    BY <1>1 DEF Lookup
  <1>4. Shape' /\ PlaceInv'
    BY <1>1, <1>3 DEF IInv, Shape, PlaceInv, Set, worker
  <1> QED BY <1>2, <1>4, Kept DEF Kind

(* It serves the state of the call, which has no other.                    *)
LEMMA CloneStep == ASSUME IInv, Clone PROVE IInv'
  <1>1. /\ pc = "clone" /\ pc' = "ready" /\ UNCHANGED <<busy, cur, cm, wm>>
        /\ Set(active, cm, TRUE) /\ Changes(cm)
    BY DEF Clone, Goto, Changes
  <1>2. SlotShape(slot') /\ slot'[cm].gf = cur
    BY DEF Clone, IInv, Shape, SlotShape, Fields
  <1>3. \A m \in Mirrors \ {cm} : slot'[m] = slot[m]
    BY DEF Clone, IInv, Shape, SlotShape, Fields
  <1>4. Begins
    BY <1>1, <1>2, <1>3 DEF Begins
  <1>5. Shape' /\ PlaceInv'
    BY <1>1, <1>2 DEF IInv, Shape, PlaceInv, Set
  <1> QED BY <1>4, <1>5, Kept DEF Kind

(* The clone was rejected.                                                 *)
LEMMA RejectStep == ASSUME IInv, Reject PROVE IInv'
  <1>1. /\ pc = "clone" /\ pc' = "reject" /\ UNCHANGED <<busy, cur, cm, wm>>
        /\ Set(active, cm, FALSE) /\ Empties(cm) /\ Changes(cm)
    BY DEF Reject, Goto, Changes
  <1>2. Ends
    BY <1>1, EmptiesShape DEF Ends, Holds, IInv, Shape
  <1>3. Shape' /\ PlaceInv'
    BY <1>1, <1>2 DEF IInv, Shape, PlaceInv, Ends, Set
  <1> QED BY <1>2, <1>3, Kept DEF Kind

(* The game thread gives the mirror back and goes on                       *)
LEMMA ReleaseStep ==
  ASSUME IInv, RejectReleases \/ Ready \/ Unbusy \/ MemoryReleases PROVE IInv'
  <1>1. /\ pc \in Holds \ {"release"} /\ pc' \in {"rejected", "topup", "memory", "unwait", "post"}
        /\ UNCHANGED <<active, slot, worker, cur, cm>> /\ Set(busy, cm, "none")
    BY DEF RejectReleases, Ready, Unbusy, MemoryReleases, Goto, mirror, Holds
  <1>2. Gives
    BY <1>1, Same DEF Gives, Holds
  <1>3. Plain /\ UNCHANGED <<active, wm>> /\ DOMAIN busy' = Mirrors
    BY <1>1 DEF Plain, IInv, Shape, Set, Holds, worker
  <1> QED BY <1>2, <1>3, PlainStep DEF Kind

(* Or takes it to decode                                                   *)
LEMMA AcquireStep == ASSUME IInv, TryAcquire \/ MemoryAcquire PROVE IInv'
  <1>1. /\ pc \in {"try", "memory"} /\ pc' \in {"frame", "sample"}
        /\ UNCHANGED <<active, slot, worker, cur, cm>>
        /\ busy[cm] = "none" /\ Set(busy, cm, "game")
    BY DEF TryAcquire, MemoryAcquire, Call, Goto, mirror
  <1>2. Takes
    BY <1>1, Same DEF Takes, Holds
  <1>3. Plain /\ UNCHANGED <<active, wm>> /\ DOMAIN busy' = Mirrors
    BY <1>1 DEF Plain, IInv, Shape, Set, worker
  <1> QED BY <1>2, <1>3, PlainStep DEF Kind

(* Where a top-up goes on.                                                 *)
LEMMA ToppedUpGoes ==
  ASSUME IInv, ToppedUpTo
  PROVE  /\ pc' \in {"take", "idle", "topup"} /\ cm' \in Mirrors
         /\ pc' # "idle" => UNCHANGED <<cur, cm>>
  <1>1. 1 \in Mirrors
    BY VorbisMirrorAssumption DEF Mirrors
  <1> QED BY <1>1 DEF ToppedUpTo, Goto, Back, IInv, Shape

(* The read-ahead runs without the mirror: the worker only reads its ring. *)
LEMMA TopUpStep == ASSUME IInv, TopUp \/ TopUpEnd PROVE IInv'
  <1>1. UNCHANGED <<busy, active, worker>> /\ pc \in {"topup", "topupEnd"}
    BY DEF TopUp, TopUpEnd, flags
  <1>2. Serves
    BY <1>1, Same, TopUpServes DEF TopUp, TopUpEnd
  <1>3. /\ pc' \in {"take", "idle", "topup", "topupEnd"} /\ cm' \in Mirrors
        /\ pc' # "idle" => UNCHANGED <<cur, cm>>
    BY ToppedUpGoes DEF TopUp, TopUpEnd, Goto, IInv, Shape
  <1>4. Moves /\ Plain
    BY <1>1, <1>2, <1>3 DEF Moves, Plain, Holds, IInv, Shape
  <1> QED BY <1>4, PlainMove

(* The call goes on, and `busy` is as it was                               *)
LEMMA ServeStep ==
  ASSUME IInv,
         \/ TakeReady \/ AtEnd \/ BudgetSpent \/ (\E late \in BOOLEAN : Look(late))
         \/ TryAgain \/ GiveUp \/ Unwait \/ AfterFrame \/ Leave \/ MemoryTimesOut
  PROVE  IInv'
  <1>1. /\ pc \in {"take", "look", "try", "unwait", "after", "leave", "memory"}
        /\ pc' \in {"take", "look", "try", "after", "leave", "post"}
        /\ UNCHANGED <<busy, active, worker, cur, cm>>
    BY DEF TakeReady, AtEnd, BudgetSpent, Look, TryAgain, GiveUp, Unwait, AfterFrame, Leave,
           MemoryTimesOut, Call, Goto, flags
  <1>2. UNCHANGED slot \/ slot' = [slot EXCEPT ![cm].timedout = TRUE]
    BY DEF TakeReady, AtEnd, BudgetSpent, Look, TryAgain, GiveUp, Unwait, AfterFrame, Leave,
           MemoryTimesOut, mirror
  <1>3. Serves
    BY <1>1, <1>2 DEF IInv, Shape, SlotShape, Fields, Serves
  <1>4. Moves /\ Plain
    BY <1>1, <1>3 DEF Moves, Plain, Holds, IInv, Shape
  <1> QED BY <1>4, PlainMove

(* The game thread decodes with the mirror in its hand.                    *)
LEMMA FrameStep == ASSUME IInv, FrameHere \/ NoFrameHere \/ MemoryDecodes PROVE IInv'
  <1>1. /\ pc \in {"frame", "sample"} /\ pc' \in {"unbusy", "unsample"}
        /\ UNCHANGED <<busy, active, worker, cur, cm>>
    BY DEF FrameHere, NoFrameHere, MemoryDecodes, Call, flags
  <1>2. UNCHANGED slot \/ TopUpMoves(cm)
    BY DEF FrameHere, NoFrameHere, MemoryDecodes, mirror
  <1>3. Serves
    BY <1>1, <1>2, Same, TopUpServes
  <1>4. Moves /\ Plain
    BY <1>1, <1>3 DEF Moves, Plain, Holds, IInv, Shape
  <1> QED BY <1>4, PlainMove

(* A mirror that has failed is dropped.                                    *)
LEMMA DropMirrorStep == ASSUME IInv, DropMirror PROVE IInv'
  <1>1. /\ pc = "post" /\ pc' = "quiesce" /\ ret' = "zero" /\ Sync(cm)
        /\ UNCHANGED <<busy, active, worker, cur, cm>>
    BY DEF DropMirror
  <1>2. Serves
    BY <1>1, SyncServes DEF IInv, Shape
  <1>3. Moves
    BY <1>1, <1>2 DEF Moves, Holds
  <1>4. Shape' /\ PlaceInv'
    BY <1>1, <1>2 DEF IInv, Shape, PlaceInv, Serves, Rets, worker
  <1> QED BY <1>3, <1>4, Kept DEF Kind

(* The call returns.                                                       *)
LEMMA ReturnStep == ASSUME IInv, Return \/ Translated PROVE IInv'
  <1>1. 1 \in Mirrors
    BY VorbisMirrorAssumption DEF Mirrors
  <1>2. pc \in {"post", "translated"} /\ Back /\ UNCHANGED <<busy, active, worker, slot>>
    BY DEF Return, Translated, flags, mirror
  <1>3. Moves /\ Plain
    BY <1>1, <1>2, Same DEF Back, Moves, Plain, Holds
  <1> QED BY <1>3, PlainMove

-----------------------------------------------------------------------------
(* The worker's steps                                                      *)

(* A step of the worker changes nothing of the call.                       *)
LEMMA WorkerKept ==
  ASSUME IInv, Kind, UNCHANGED <<game, active>>, DOMAIN busy' = Mirrors, wm' \in Mirrors,
         ~Begins
  PROVE  IInv'
  <1>1. Shape'
    BY SlotKinds DEF IInv, Shape, game
  <1>2. \A f : Lookup(f)' \subseteq Lookup(f)
    BY LookupKinds
  <1>3. Lookup(cur)' \subseteq Lookup(cur)
    BY <1>2 DEF Lookup, game
  <1>4. PlaceInv'
    BY <1>3 DEF IInv, PlaceInv, game
  <1> QED BY <1>1, <1>4, Kept

(* The worker goes on with the mirror it has, or without one.              *)
LEMMA WorkStep ==
  ASSUME IInv,
         \/ Sample \/ Validate \/ Fill \/ WorkerDecodes \/ WorkerEnds \/ Publish \/ PublishEnd
         \/ PreCheck /\ wpc' = "acquire"
  PROVE  IInv'
  <1>1. UNCHANGED <<busy, active, slot, game, wm>>
    BY DEF Sample, PreCheck, Validate, Fill, WorkerDecodes, WorkerEnds, Publish, PublishEnd, Work,
           NextMirror, flags, mirror
  <1>2. /\ wpc \in Held <=> wpc' \in Held
        /\ wpc' \in AtWork =>
             (same => same') /\ (wpc \in AtWork \/ (same /\ slot[wm].mode = "stream"))
    <2>1. CASE Sample \/ (PreCheck /\ wpc' = "acquire")
      <3>1. wpc \in {"sample", "check"} /\ wpc' \in {"check", "acquire"}
        BY <2>1 DEF Sample, PreCheck, Work
      <3> QED BY <3>1 DEF Held, AtWork
    <2>2. CASE Validate
      BY <2>2 DEF Validate, Work, Serviceable, Held, AtWork
    <2>3. CASE Fill \/ WorkerDecodes \/ WorkerEnds \/ Publish \/ PublishEnd
      <3>1. wpc \in AtWork /\ (same => same')
        BY <2>3 DEF Fill, WorkerDecodes, WorkerEnds, Publish, PublishEnd, Work, AtWork
      <3>2. wpc' \in Held
        BY <2>3 DEF Fill, WorkerDecodes, WorkerEnds, Publish, PublishEnd, Work, Held
      <3> QED BY <3>1, <3>2 DEF Held, AtWork
    <2> QED BY <2>1, <2>2, <2>3
  <1>4. Proceeds
    BY <1>1, <1>2, Same DEF Proceeds
  <1>3. ~Begins
    BY <1>1 DEF Begins, game
  <1> QED BY <1>1, <1>3, <1>4, WorkerKept DEF Kind, IInv, Shape

(* The mirrors are visited in turn.                                        *)
LEMMA NextMirrorIs ==
  ASSUME IInv, NextMirror PROVE wm' \in Mirrors /\ wpc' = "sample"
  <1>1. MirrorCount \in Nat \ {0}
    BY VorbisMirrorAssumption
  <1> QED BY <1>1 DEF IInv, Shape, NextMirror, Mirrors

(* The worker passes a mirror by,                                          *)
LEMMA PassStep == ASSUME IInv, PreCheck \/ Acquire, NextMirror, UNCHANGED busy PROVE IInv'
  <1>1. UNCHANGED <<active, slot, game>> /\ wpc \in {"check", "acquire"}
    BY DEF PreCheck, Acquire, flags, mirror
  <1>2. Passes
    BY <1>1, Same DEF Passes, Held
  <1>3. ~Begins
    BY <1>1 DEF Begins, game
  <1> QED BY <1>1, <1>2, <1>3, WorkerKept, NextMirrorIs DEF Kind, IInv, Shape

(* takes one that nobody has,                                              *)
LEMMA GrabStep ==
  ASSUME IInv, Acquire, busy[wm] = "none" PROVE IInv'
  <1>1. /\ UNCHANGED <<active, slot, game, wm>> /\ Set(busy, wm, "worker")
        /\ wpc' = "validate"
    BY DEF Acquire, Work, mirror
  <1>2. Grabs
    BY <1>1, Same DEF Grabs
  <1>3. ~Begins
    BY <1>1 DEF Begins, game
  <1> QED BY <1>1, <1>2, <1>3, WorkerKept DEF Kind, IInv, Shape, Set

(* and gives it back; one that was given up is emptied.                    *)
LEMMA YieldStep == ASSUME IInv, Yield PROVE IInv'
  <1>1. UNCHANGED <<active, game>> /\ wpc = "yield" /\ Set(busy, wm, "none") /\ NextMirror
    BY DEF Yield
  <1>2. SlotShape(slot') /\ \A m \in Mirrors : active[m] => slot'[m] = slot[m]
    <2>1. CASE slot[wm].poisoned /\ ~active[wm]
      BY <2>1, EmptiesShape DEF Yield, IInv, Shape
    <2>2. CASE ~(slot[wm].poisoned /\ ~active[wm])
      BY <2>2 DEF Yield, IInv, Shape, mirror
    <2> QED BY <2>1, <2>2
  <1>3. Drops
    BY <1>1, <1>2 DEF Drops, Held
  <1>4. ~Begins
    BY <1>1 DEF Begins, game
  <1> QED BY <1>1, <1>3, <1>4, WorkerKept, NextMirrorIs DEF Kind, IInv, Shape, Set

(* Every step of the worker keeps the invariant.                           *)
LEMMA WorkerStep == ASSUME IInv, Worker PROVE IInv'
  <1>1. CASE PreCheck
    <2>1. CASE wpc' = "acquire"
      BY <1>1, <2>1, WorkStep
    <2>2. CASE wpc' # "acquire"
      BY <1>1, <2>2, PassStep DEF PreCheck, Work, flags
    <2> QED BY <2>1, <2>2
  <1>2. CASE Acquire
    <2>1. CASE busy[wm] = "none"
      BY <1>2, <2>1, GrabStep
    <2>2. CASE busy[wm] # "none"
      BY <1>2, <2>2, PassStep DEF Acquire
    <2> QED BY <2>1, <2>2
  <1>3. CASE Yield
    BY <1>3, YieldStep
  <1> QED BY <1>1, <1>2, <1>3, WorkStep DEF Worker

-----------------------------------------------------------------------------
(* Every step of a call keeps the invariant.                               *)
LEMMA InCallStep == ASSUME IInv, InCall PROVE IInv'
  <1>1. CASE \/ (\E f \in States : pc = "pump" /\ Pump(f)) \/ CloseState
             \/ Quiesced \/ QuiesceFails \/ Retire \/ RetireReleases \/ RetireClears
    BY <1>1, PumpStep, CloseStateStep, QuiescedStep, QuiesceFailsStep, RetireStep,
       RetireReleasesStep, RetireClearsStep
  <1>2. CASE \/ Take \/ Evict \/ PoolFull \/ Claim \/ PoolBusy \/ Clone \/ Ready
             \/ Reject \/ RejectReleases \/ Rejected
    BY <1>2, TakeStep, EvictStep, PoolStep, ClaimStep, CloneStep, ReleaseStep, RejectStep
  <1>3. CASE \/ TopUp \/ TopUpEnd \/ TakeReady \/ AtEnd \/ BudgetSpent
             \/ (\E late \in BOOLEAN : Look(late))
             \/ TryAcquire \/ TryAgain \/ GiveUp \/ FrameHere \/ NoFrameHere
    BY <1>3, TopUpStep, ServeStep, AcquireStep, FrameStep
  <1>4. CASE \/ Unbusy \/ Unwait \/ AfterFrame \/ Leave
             \/ MemoryAcquire \/ MemoryTimesOut \/ MemoryDecodes \/ MemoryReleases
             \/ DropMirror \/ Return \/ Translated
    BY <1>4, ReleaseStep, ServeStep, AcquireStep, FrameStep, DropMirrorStep, ReturnStep
  <1> QED BY <1>1, <1>2, <1>3, <1>4 DEF InCall

(* The invariant is inductive                                              *)
LEMMA NextInv == IInv /\ [Next]_vars => IInv'
  <1> SUFFICES ASSUME IInv, [Next]_vars PROVE IInv' OBVIOUS
  <1>1. CASE Guest
    BY <1>1, OpenStep, SeekStep, CloseStep, DecodeStep DEF Guest
  <1>2. CASE LonePump
    BY <1>2, PumpStep DEF LonePump
  <1>3. CASE UNCHANGED vars
    BY <1>3 DEF vars, flags, mirror, game, worker, IInv, Shape, HoldInv, WorkInv, SlotInv,
                PlaceInv, Lookup
  <1> QED BY <1>1, <1>2, <1>3, InCallStep, WorkerStep DEF Next

(* In every behaviour, game thread and worker interleaved in any way.      *)
THEOREM Invariance == Spec => []IInv
  BY InitInv, NextInv, PTL DEF Spec

(* "The decoder role is exclusive" (host_vita_native_vorbis.c): a mirror   *)
(* is decoded by the thread that has it, the worker decodes only a stream  *)
(* that has not changed hands since it looked, and a state has one mirror. *)
THEOREM DecoderIsExclusive == Spec => []OneDecoder
  <1>1. ASSUME IInv PROVE OneDecoder
    <2> SUFFICES ASSUME NEW m \in Mirrors
                 PROVE  /\ Decoding(m) =>
                             busy[m] = "worker" /\ same /\ slot[m].mode = "stream" /\ ~GameHas(m)
                        /\ GameHas(m) => busy[m] = "game"
                        /\ Cardinality(Lookup(slot[m].gf)) <= 1
      BY DEF OneDecoder
    <2> USE <1>1 DEF IInv
    <2>1. Decoding(m) => busy[m] = "worker" /\ same /\ slot[m].mode = "stream" /\ ~GameHas(m)
      BY DEF Decoding, GameHas, HoldInv, WorkInv, Held, AtWork, Holds
    <2>2. GameHas(m) => busy[m] = "game"
      BY DEF GameHas, HoldInv, Holds
    <2>3. Cardinality(Lookup(slot[m].gf)) <= 1
      <3>1. CASE Lookup(slot[m].gf) = {}
        BY <3>1, FS_EmptySet
      <3>2. CASE Lookup(slot[m].gf) # {}
        <4>1. PICK n \in Lookup(slot[m].gf) : TRUE
          BY <3>2
        <4>2. Lookup(slot[m].gf) = {n}
          BY <4>1 DEF Lookup, SlotInv
        <4> QED BY <4>2, FS_Singleton
      <3> QED BY <3>1, <3>2
    <2> QED BY <2>1, <2>2, <2>3
  <1> QED BY <1>1, Invariance, PTL

-----------------------------------------------------------------------------
(* The read-ahead is undone: the invariant beyond IInv.                    *)

Serving == {"ready", "topup", "topupEnd", "take", "look", "try", "frame", "unbusy", "unwait",
            "after", "leave", "memory", "sample", "unsample", "post"}
Gone    == {"release", "clear", "reject", "rejected", "translated", "close", "start", "claim"}

GuestState == [open : BOOLEAN, pos : Int, held : BOOLEAN, eof : BOOLEAN]
GuestShape ==
  /\ gs \in [States -> GuestState]
  /\ DOMAIN phys = States

(* A call decodes with the mirror of its state, which has not moved; it    *)
(* retires that mirror, or takes one that serves nothing.                  *)
CallInv ==
  /\ pc \in Serving => cm \in Lookup(cur) /\ Current(cm)
  /\ pc \in Gone => Lookup(cur) = {}
  /\ pc \in {"quiesce", "inert", "clone"} => Lookup(cur) \subseteq {cm}
  /\ pc \in {"quiesce", "inert"} /\ ret # "evict" => cm \in Lookup(cur)
  /\ pc \in {"release", "clear", "claim"} => ~active[cm]
  /\ pc = "pump" => \A m \in Lookup(cur) : slot[m].dirty

ModeInv ==
  \A m \in Mirrors : active[m] =>
    slot[m].mode = IF slot[m].gf \in Streams THEN "stream" ELSE "memory"

(* A mirror knows where its state is, and where it left the stream         *)
ServedInv ==
  \A m \in Mirrors : active[m] /\ slot[m].gf \in Streams /\ Current(m) =>
    /\ slot[m].logical = gs[slot[m].gf].pos
    /\ slot[m].physOK => phys[slot[m].gf] = slot[m].physPos

(* A stream stands where its state is, unless a mirror reads ahead in it   *)
(* or its state is being closed.                                           *)
Synced(m)  == cm = m /\ (pc = "clone" \/ (pc \in {"quiesce", "inert"} /\ ret # "close"))
Closing(f) == cur = f /\ (pc = "close" \/ (pc \in {"quiesce", "inert", "release", "clear"}
                                             /\ ret = "close"))
ReadAhead(f) == \E m \in Lookup(f) : Current(m) /\ ~Synced(m)
BackInv == \A f \in Streams : ~ReadAhead(f) /\ ~Closing(f) => phys[f] = gs[f].pos

JInv == GuestShape /\ CallInv /\ ModeInv /\ ServedInv /\ BackInv

(* A guest's state, changed in a field                                     *)
LEMMA GuestFields ==
  ASSUME NEW x \in GuestState
  PROVE  /\ \A p \in Int : [x EXCEPT !.pos = p] \in GuestState
         /\ [x EXCEPT !.open = TRUE] \in GuestState
         /\ \A b \in BOOLEAN : /\ [x EXCEPT !.held = b] \in GuestState
                               /\ [x EXCEPT !.eof = b] \in GuestState
  BY DEF GuestState

(* A closed state is a state.                                              *)
LEMMA ClosedState == Closed \in GuestState
  BY DEF Closed, GuestState

(* Before the first open no mirror knows a stream.                         *)
LEMMA InitBack == Init => JInv
  <1> SUFFICES ASSUME Init PROVE JInv OBVIOUS
  <1>1. GuestShape
    BY ClosedState DEF Init, GuestShape
  <1>2. CallInv /\ ModeInv /\ ServedInv
    BY DEF Init, CallInv, ModeInv, ServedInv, Serving, Gone
  <1>3. BackInv
    BY VorbisMirrorAssumption DEF Init, BackInv, Closed
  <1> QED BY <1>1, <1>2, <1>3 DEF JInv

-----------------------------------------------------------------------------
(* What a step does to the streams and to those that serve.                *)

Fixed(m) ==
  /\ slot'[m].gf = slot[m].gf /\ slot'[m].mode = slot[m].mode
  /\ slot'[m].dirty = slot[m].dirty /\ slot'[m].stale = slot[m].stale
  /\ slot'[m].logical = slot[m].logical
  /\ slot'[m].physOK = slot[m].physOK /\ slot'[m].physPos = slot[m].physPos
GuestStays ==
  /\ GuestShape' /\ \A f \in States : gs'[f].pos = gs[f].pos
Calm == /\ UNCHANGED <<active, phys>> /\ GuestStays
        /\ \A m \in Mirrors : active[m] => Fixed(m)
(* The stream is put back under the state of a mirror                      *)
Syncing(m) == /\ UNCHANGED <<active, gs>> /\ active[m] /\ Current(m) /\ Sync(m)
(* A mirror serves no longer                                               *)
Leaving == /\ UNCHANGED <<gs, phys, cm, cur, ret>> /\ Set(active, cm, FALSE)
           /\ \A m \in Mirrors \ {cm} : slot'[m] = slot[m]
           /\ pc \in {"quiesce", "inert", "clone"}
           /\ pc' \in Gone
           /\ pc \in {"quiesce", "inert"} /\ ret = "close" => pc' \in {"release", "close"}
(* The mirror of the call reads ahead                                      *)
Reading == /\ UNCHANGED <<active, gs>> /\ TopUpMoves(cm) /\ pc \in Serving

(* After a calm step the mirrors know what they knew.                      *)
LEMMA CalmServes ==
  ASSUME IInv, JInv, Calm
  PROVE  /\ GuestShape' /\ ModeInv' /\ ServedInv'
         /\ \A f : Lookup(f)' = Lookup(f)
         /\ \A m \in Mirrors : active[m] => (Current(m)' <=> Current(m))
  <1>1. \A f : Lookup(f)' = Lookup(f)
    BY DEF Calm, Fixed, Lookup
  <1>2. \A m \in Mirrors : active[m] => (Current(m)' <=> Current(m))
    BY DEF Calm, Fixed, Current
  <1>3. ModeInv'
    BY DEF JInv, ModeInv, Calm, Fixed
  <1>4. ServedInv'
    <2> SUFFICES ASSUME NEW m \in Mirrors, active'[m], slot'[m].gf \in Streams, Current(m)'
                 PROVE  /\ slot'[m].logical = gs'[slot'[m].gf].pos
                        /\ slot'[m].physOK => phys'[slot'[m].gf] = slot'[m].physPos
      BY DEF ServedInv
    <2>1. active[m] /\ Fixed(m) /\ slot[m].gf \in Streams /\ Current(m) /\ slot[m].gf \in States
      BY <1>2, VorbisMirrorAssumption DEF Calm, Fixed
    <2>2. /\ slot[m].logical = gs[slot[m].gf].pos
          /\ slot[m].physOK => phys[slot[m].gf] = slot[m].physPos
      BY <2>1 DEF JInv, ServedInv
    <2> QED BY <2>1, <2>2 DEF Calm, GuestStays, Fixed
  <1> QED BY <1>1, <1>2, <1>3, <1>4 DEF Calm, GuestStays

(* Nobody begins to read ahead, and no place to say that nobody does       *)
LEMMA CalmBack ==
  ASSUME IInv, JInv, Calm,
         \A m \in Mirrors : active[m] /\ Current(m) /\ Synced(m)' => Synced(m),
         \A f \in Streams : Closing(f) => Closing(f)'
  PROVE  BackInv'
  <1> SUFFICES ASSUME NEW f \in Streams, ~ReadAhead(f)', ~Closing(f)'
               PROVE  phys'[f] = gs'[f].pos
    BY DEF BackInv
  <1>1. f \in States
    BY VorbisMirrorAssumption
  <1>2. \A m \in Lookup(f) : Current(m) => Synced(m)
    <2> SUFFICES ASSUME NEW m \in Lookup(f), Current(m) PROVE Synced(m) OBVIOUS
    <2>1. m \in Mirrors /\ active[m] /\ m \in Lookup(f)' /\ Current(m)'
      BY CalmServes DEF Lookup
    <2>2. Synced(m)'
      BY <2>1 DEF ReadAhead
    <2> QED BY <2>1, <2>2
  <1>3. ~ReadAhead(f) /\ ~Closing(f)
    BY <1>2 DEF ReadAhead
  <1>4. phys[f] = gs[f].pos
    BY <1>3 DEF JInv, BackInv
  <1> QED BY <1>1, <1>4 DEF Calm, GuestStays

(* A stream that is put back stands where its mirror's state is.           *)
LEMMA SyncServed ==
  ASSUME IInv, JInv, NEW m \in Mirrors, Syncing(m)
  PROVE  /\ GuestShape' /\ ModeInv' /\ ServedInv'
         /\ \A f : Lookup(f)' = Lookup(f)
         /\ \A n \in Mirrors : Current(n)' <=> Current(n)
         /\ \A n \in Mirrors : slot'[n].gf = slot[n].gf /\ slot'[n].dirty = slot[n].dirty
         /\ \A f \in Streams : f # slot[m].gf => phys'[f] = phys[f]
         /\ slot[m].gf \in Streams => phys'[slot[m].gf] = gs[slot[m].gf].pos
  <1> DEFINE h == slot[m].gf
  <1>1. h \in States /\ Streams \subseteq States
    BY VorbisMirrorAssumption DEF IInv, SlotInv, Syncing
  <1>2. DOMAIN slot = Mirrors /\ \A n \in Mirrors : Fields \subseteq DOMAIN slot[n]
    BY DEF IInv, Shape, SlotShape
  <1>3. slot[m].mode = "stream" <=> h \in Streams
    BY DEF Syncing, JInv, ModeInv
  <1>4. DOMAIN phys = States /\ GuestShape
    BY DEF JInv, GuestShape
  <1>5. \A n \in Mirrors : n # m => slot'[n] = slot[n]
    BY <1>2 DEF Syncing, Sync, SyncedSlot
  <1>6. /\ slot'[m].gf = h /\ slot'[m].mode = slot[m].mode
        /\ slot'[m].dirty = slot[m].dirty /\ slot'[m].stale = slot[m].stale
        /\ slot'[m].logical = slot[m].logical
        /\ h \in Streams => slot'[m].physOK /\ slot'[m].physPos = slot[m].logical
    BY <1>2, <1>3 DEF Syncing, Sync, SyncedSlot, Fields
  <1>7. h \in Streams => /\ slot[m].logical = gs[h].pos
                         /\ slot[m].physOK => phys[h] = slot[m].physPos
    BY DEF Syncing, JInv, ServedInv
  <1>8. DOMAIN phys' = States /\ \A f \in States : f # h => phys'[f] = phys[f]
    BY <1>1, <1>4 DEF Syncing, Sync, SyncedPhys
  <1>9. h \in Streams => phys'[h] = gs[h].pos
    BY <1>1, <1>3, <1>4, <1>7 DEF Syncing, Sync, SyncedPhys, Stands
  <1>10. \A n \in Mirrors : /\ slot'[n].gf = slot[n].gf /\ slot'[n].mode = slot[n].mode
                            /\ slot'[n].dirty = slot[n].dirty /\ slot'[n].stale = slot[n].stale
    BY <1>5, <1>6
  <1>11. /\ \A f : Lookup(f)' = Lookup(f)
         /\ \A n \in Mirrors : Current(n)' <=> Current(n)
    BY <1>10 DEF Lookup, Current, Syncing
  <1>12. ModeInv'
    BY <1>10 DEF JInv, ModeInv, Syncing
  <1>13. ServedInv'
    <2> SUFFICES ASSUME NEW n \in Mirrors, active'[n], slot'[n].gf \in Streams, Current(n)'
                 PROVE  /\ slot'[n].logical = gs'[slot'[n].gf].pos
                        /\ slot'[n].physOK => phys'[slot'[n].gf] = slot'[n].physPos
      BY DEF ServedInv
    <2>1. active[n] /\ slot[n].gf \in Streams /\ Current(n)
      BY <1>10, <1>11 DEF Syncing
    <2>2. CASE n = m
      BY <2>1, <2>2, <1>6, <1>7, <1>9 DEF Syncing
    <2>3. CASE n # m
      <3>1. slot[n].gf # h
        BY <2>1, <2>3 DEF Syncing, IInv, SlotInv
      <3>2. phys'[slot[n].gf] = phys[slot[n].gf]
        BY <3>1, <2>1, <1>1, <1>8
      <3>3. /\ slot[n].logical = gs[slot[n].gf].pos
            /\ slot[n].physOK => phys[slot[n].gf] = slot[n].physPos
        BY <2>1 DEF JInv, ServedInv
      <3> QED BY <3>2, <3>3, <2>3, <1>5 DEF Syncing
    <2> QED BY <2>2, <2>3
  <1>14. GuestShape'
    BY <1>4, <1>8 DEF GuestShape, Syncing
  <1> QED BY <1>1, <1>8, <1>9, <1>10, <1>11, <1>12, <1>13, <1>14

(* After it, the mirror may be retired or cloned again                     *)
LEMMA SyncBack ==
  ASSUME IInv, JInv, NEW m \in Mirrors, Syncing(m), \A n \in Mirrors : Synced(n)' => n = m,
         \A f \in Streams : ~Closing(f), \A n \in Mirrors : ~Synced(n)
  PROVE  BackInv'
  <1> SUFFICES ASSUME NEW f \in Streams, ~ReadAhead(f)' PROVE phys'[f] = gs'[f].pos
    BY DEF BackInv
  <1>1. CASE f = slot[m].gf
    BY <1>1, SyncServed DEF Syncing
  <1>2. CASE f # slot[m].gf
    <2>1. m \notin Lookup(f)
      BY <1>2 DEF Lookup
    <2>2. ~ReadAhead(f)
      <3> SUFFICES ASSUME NEW n \in Lookup(f), Current(n) PROVE FALSE
        BY DEF ReadAhead
      <3>1. n \in Lookup(f)' /\ Current(n)' /\ n \in Mirrors
        BY SyncServed DEF Lookup
      <3>2. Synced(n)'
        BY <3>1 DEF ReadAhead
      <3> QED BY <2>1, <3>1, <3>2
    <2>3. phys[f] = gs[f].pos
      BY <2>2 DEF JInv, BackInv
    <2>4. phys'[f] = phys[f]
      BY <1>2, SyncServed
    <2> QED BY <2>3, <2>4 DEF Syncing
  <1> QED BY <1>1, <1>2

(* What served is retired: its stream was put back, or is being closed     *)
LEMMA LeavingBack ==
  ASSUME IInv, JInv, Leaving
  PROVE  GuestShape' /\ ModeInv' /\ ServedInv' /\ BackInv'
  <1>1. cm \in Mirrors /\ DOMAIN active = Mirrors
    BY DEF IInv, Shape
  <1>2. \A m \in Mirrors : active'[m] <=> m # cm /\ active[m]
    BY <1>1 DEF Leaving, Set
  <1>3. \A f : Lookup(f)' = Lookup(f) \ {cm}
    BY <1>2 DEF Lookup, Leaving
  <1>4. \A m \in Mirrors : m # cm => (Current(m)' <=> Current(m))
    BY DEF Current, Leaving
  <1>5. GuestShape'
    BY DEF JInv, GuestShape, Leaving
  <1>6. ModeInv'
    BY <1>2 DEF JInv, ModeInv, Leaving
  <1>7. ServedInv'
    BY <1>2, <1>4 DEF JInv, ServedInv, Leaving
  <1>8. BackInv'
    <2> SUFFICES ASSUME NEW f \in Streams, ~ReadAhead(f)', ~Closing(f)'
                 PROVE  phys[f] = gs[f].pos
      BY DEF BackInv, Leaving
    <2>1. \A m \in Mirrors : ~Synced(m)'
      BY DEF Synced, Leaving, Gone
    <2>2. \A m \in Lookup(f) : m # cm => ~Current(m)
      BY <1>3, <1>4, <2>1 DEF ReadAhead, Lookup
    <2>3. ~Closing(f)
      <3> SUFFICES ASSUME Closing(f) PROVE FALSE OBVIOUS
      <3>1. cur = f /\ ret = "close" /\ pc \in {"quiesce", "inert"}
        BY DEF Closing, Leaving
      <3>2. pc' \in {"release", "close"} /\ cur' = f /\ ret' = "close"
        BY <3>1 DEF Leaving
      <3> QED BY <3>2 DEF Closing
    <2>4. cm \in Lookup(f) => Synced(cm)
      <3> SUFFICES ASSUME cm \in Lookup(f), ~Synced(cm) PROVE FALSE OBVIOUS
      <3>1. pc \in {"quiesce", "inert"} /\ ret = "close"
        BY DEF Synced, Leaving
      <3>2. cm \in Lookup(cur)
        BY <3>1 DEF JInv, CallInv
      <3> QED BY <2>3, <3>1, <3>2 DEF Lookup, Closing
    <2>5. ~ReadAhead(f)
      BY <2>2, <2>4 DEF ReadAhead
    <2> QED BY <2>3, <2>5 DEF JInv, BackInv
  <1> QED BY <1>5, <1>6, <1>7, <1>8

(* The read-ahead leaves the stream where the mirror notes                 *)
LEMMA ReadingBack ==
  ASSUME IInv, JInv, Reading
  PROVE  /\ GuestShape' /\ ModeInv' /\ ServedInv'
         /\ \A f : Lookup(f)' = Lookup(f)
         /\ \A n \in Mirrors : Current(n)' <=> Current(n)
         /\ (\A n \in Mirrors : ~Synced(n)') => BackInv'
  <1> DEFINE h == slot[cm].gf
  <1>1. /\ cm \in Mirrors /\ active[cm] /\ Current(cm) /\ h = cur /\ h \in States
        /\ Streams \subseteq States /\ Lookup(cur) \subseteq {cm}
    <2>1. cm \in Lookup(cur) /\ Current(cm)
      BY DEF Reading, JInv, CallInv
    <2>2. \A n \in Lookup(cur) : n = cm
      BY <2>1 DEF Lookup, IInv, SlotInv
    <2> QED BY <2>1, <2>2, VorbisMirrorAssumption DEF Lookup, IInv, SlotInv
  <1>2. DOMAIN slot = Mirrors /\ Fields \subseteq DOMAIN slot[cm]
    BY <1>1 DEF IInv, Shape, SlotShape
  <1>3. DOMAIN phys = States /\ GuestShape
    BY DEF JInv, GuestShape
  <1>4. \A n \in Mirrors : n # cm => slot'[n] = slot[n]
    BY <1>2 DEF Reading, TopUpMoves
  <1>5. /\ slot'[cm].gf = h /\ slot'[cm].mode = slot[cm].mode
        /\ slot'[cm].dirty = slot[cm].dirty /\ slot'[cm].stale = slot[cm].stale
        /\ slot'[cm].logical = slot[cm].logical
        /\ slot'[cm].physPos = slot[cm].head + Got(cm)
    BY <1>1, <1>2 DEF Reading, TopUpMoves, Fields
  <1>6. phys'[h] = ReadsAt(cm) + Got(cm) /\ DOMAIN phys' = States
    BY <1>1, <1>3 DEF Reading, TopUpMoves
  <1>7. \A f \in States : f # h => phys'[f] = phys[f]
    BY <1>1, <1>3 DEF Reading, TopUpMoves
  <1>8. h \in Streams => ReadsAt(cm) = slot[cm].head
    BY <1>1 DEF ReadsAt, Stands, JInv, ServedInv
  <1>9. \A n \in Mirrors : /\ slot'[n].gf = slot[n].gf /\ slot'[n].mode = slot[n].mode
                           /\ slot'[n].dirty = slot[n].dirty /\ slot'[n].stale = slot[n].stale
                           /\ slot'[n].logical = slot[n].logical
    BY <1>4, <1>5
  <1>10. /\ \A f : Lookup(f)' = Lookup(f)
         /\ \A n \in Mirrors : Current(n)' <=> Current(n)
    BY <1>9 DEF Lookup, Current, Reading
  <1>11. ModeInv'
    BY <1>9 DEF JInv, ModeInv, Reading
  <1>12. ServedInv'
    <2> SUFFICES ASSUME NEW n \in Mirrors, active'[n], slot'[n].gf \in Streams, Current(n)'
                 PROVE  /\ slot'[n].logical = gs'[slot'[n].gf].pos
                        /\ slot'[n].physOK => phys'[slot'[n].gf] = slot'[n].physPos
      BY DEF ServedInv
    <2>1. active[n] /\ slot[n].gf \in Streams /\ Current(n)
      BY <1>9, <1>10 DEF Reading
    <2>2. /\ slot[n].logical = gs[slot[n].gf].pos
          /\ slot[n].physOK => phys[slot[n].gf] = slot[n].physPos
      BY <2>1 DEF JInv, ServedInv
    <2>3. slot'[n].logical = gs'[slot'[n].gf].pos
      BY <1>9, <2>2 DEF Reading
    <2>4. CASE n = cm
      BY <2>1, <2>3, <2>4, <1>5, <1>6, <1>8
    <2>5. CASE n # cm
      <3>1. slot[n].gf # h
        BY <2>1, <2>5, <1>1 DEF IInv, SlotInv
      <3>2. phys'[slot[n].gf] = phys[slot[n].gf]
        BY <3>1, <2>1, <1>1, <1>7
      <3> QED BY <2>2, <2>3, <2>5, <3>2, <1>4
    <2> QED BY <2>4, <2>5
  <1>13. GuestShape'
    BY <1>3, <1>6 DEF GuestShape, Reading
  <1>14. ASSUME \A n \in Mirrors : ~Synced(n)' PROVE BackInv'
    <2> SUFFICES ASSUME NEW f \in Streams, ~ReadAhead(f)' PROVE phys'[f] = gs'[f].pos
      BY DEF BackInv
    <2>1. f # h
      <3>1. ASSUME NEW n \in Mirrors, n \in Lookup(f), Current(n) PROVE FALSE
        BY <3>1, <1>10, <1>14 DEF ReadAhead
      <3> QED BY <3>1, <1>1 DEF Lookup
    <2>2. ~ReadAhead(f)
      <3> SUFFICES ASSUME NEW n \in Lookup(f), Current(n) PROVE FALSE
        BY DEF ReadAhead
      <3>1. n \in Lookup(f)' /\ Current(n)' /\ n \in Mirrors
        BY <1>10 DEF Lookup
      <3> QED BY <3>1, <1>14 DEF ReadAhead
    <2>3. ~Closing(f)
      BY DEF Closing, Reading, Serving
    <2>4. phys[f] = gs[f].pos
      BY <2>2, <2>3 DEF JInv, BackInv
    <2> QED BY <2>1, <2>4, <1>1, <1>7 DEF Reading
  <1> QED BY <1>10, <1>11, <1>12, <1>13, <1>14

-----------------------------------------------------------------------------
(* The steps of the guest, which moves its states                          *)

(* The guest moves one state, and what serves it is spoiled                *)
Spoils(f) ==
  /\ UNCHANGED active /\ GuestShape'
  /\ \A e \in States : e # f => gs'[e].pos = gs[e].pos /\ phys'[e] = phys[e]
  /\ \A m \in Mirrors :
       /\ slot'[m].gf = slot[m].gf /\ slot'[m].mode = slot[m].mode
       /\ m \in Lookup(f) => ~Current(m)'
       /\ m \notin Lookup(f) => slot'[m] = slot[m]

(* A moved state leaves the other states and mirrors alone.                *)
LEMMA SpoilsServes ==
  ASSUME IInv, JInv, NEW f \in States, Spoils(f), f \in Streams => phys'[f] = gs'[f].pos,
         \A m \in Mirrors : ~Synced(m)', \A e : ~Closing(e)
  PROVE  /\ ModeInv' /\ ServedInv' /\ BackInv'
         /\ \A e : Lookup(e)' = Lookup(e)
  <1>1. \A e : Lookup(e)' = Lookup(e)
    BY DEF Spoils, Lookup
  <1>2. ModeInv'
    BY DEF JInv, ModeInv, Spoils
  <1>3. \A m \in Mirrors : active[m] /\ slot[m].gf # f =>
          /\ slot'[m] = slot[m] /\ (Current(m)' <=> Current(m))
    BY DEF Spoils, Lookup, Current
  <1>4. ServedInv'
    <2> SUFFICES ASSUME NEW m \in Mirrors, active'[m], slot'[m].gf \in Streams, Current(m)'
                 PROVE  /\ slot'[m].logical = gs'[slot'[m].gf].pos
                        /\ slot'[m].physOK => phys'[slot'[m].gf] = slot'[m].physPos
      BY DEF ServedInv
    <2>1. active[m] /\ slot[m].gf # f
      BY DEF Spoils, Lookup
    <2>2. slot'[m] = slot[m] /\ Current(m) /\ slot[m].gf \in Streams
      BY <1>3, <2>1
    <2>3. /\ slot[m].logical = gs[slot[m].gf].pos
          /\ slot[m].physOK => phys[slot[m].gf] = slot[m].physPos
      BY <2>1, <2>2 DEF JInv, ServedInv
    <2>4. slot[m].gf \in States
      BY <2>2, VorbisMirrorAssumption
    <2> QED BY <2>1, <2>2, <2>3, <2>4 DEF Spoils
  <1>5. BackInv'
    <2> SUFFICES ASSUME NEW e \in Streams, ~ReadAhead(e)' PROVE phys'[e] = gs'[e].pos
      BY DEF BackInv
    <2>1. CASE e # f
      <3>1. ~ReadAhead(e)
        <4> SUFFICES ASSUME NEW m \in Lookup(e), Current(m) PROVE FALSE
          BY DEF ReadAhead
        <4>1. m \in Mirrors /\ active[m] /\ slot[m].gf # f /\ m \in Lookup(e)'
          BY <1>1, <2>1 DEF Lookup
        <4>2. Current(m)'
          BY <4>1, <1>3
        <4> QED BY <4>1, <4>2 DEF ReadAhead
      <3>2. phys[e] = gs[e].pos /\ e \in States
        BY <3>1, VorbisMirrorAssumption DEF JInv, BackInv
      <3> QED BY <2>1, <3>2 DEF Spoils
    <2> QED BY <2>1
  <1> QED BY <1>1, <1>2, <1>4, <1>5

(* A guest's state, moved                                                  *)
LEMMA GuestMoves ==
  ASSUME JInv, NEW f \in States, NEW x \in GuestState,
         gs' = [gs EXCEPT ![f] = x], DOMAIN phys' = States,
         \A e \in States : e # f => phys'[e] = phys[e]
  PROVE  /\ GuestShape' /\ gs'[f] = x
         /\ \A e \in States : e # f => gs'[e].pos = gs[e].pos /\ phys'[e] = phys[e]
  BY DEF JInv, GuestShape

(* Only the stream of the state moves.                                     *)
LEMMA MovedOnly ==
  ASSUME JInv, NEW f \in States, NEW x, phys' = Moved(phys, f, x)
  PROVE  /\ DOMAIN phys' = States /\ \A e \in States : e # f => phys'[e] = phys[e]
         /\ f \in Streams => phys'[f] = x
  BY DEF JInv, GuestShape, Moved

(* Where no call is, only the state of the last one is left                *)
LEMMA NoCallInv ==
  ASSUME pc' \notin Serving \cup Gone \cup {"quiesce", "inert", "clone", "pump"} PROVE CallInv'
  BY DEF CallInv, Gone

(* An open of a state begins a call only when no mirror serves it.         *)
LEMMA OpenBack == ASSUME IInv, JInv, NEW f \in States, Open(f) PROVE JInv'
  <1>1. /\ pc = "idle" /\ gs' = [gs EXCEPT ![f] = Opened] /\ phys' = Moved(phys, f, 1)
        /\ UNCHANGED active
        /\ slot' = [m \in Mirrors |-> IF m \in Lookup(f) THEN [slot[m] EXCEPT !.stale = TRUE]
                                                         ELSE slot[m]]
    BY DEF Open, flags
  <1>2. Opened \in GuestState /\ Opened.pos = 1
    <2> DEFINE x == [Closed EXCEPT !.open = TRUE]
    <2>1. x \in GuestState /\ 1 \in Int
      BY ClosedState, GuestFields
    <2>2. Opened = [x EXCEPT !.pos = 1]
      BY DEF Opened
    <2> HIDE DEF x
    <2>3. Opened \in GuestState
      BY <2>1, <2>2, GuestFields
    <2> QED BY <2>1, <2>2, <2>3 DEF GuestState
  <1>3. /\ GuestShape' /\ gs'[f] = Opened
        /\ \A e \in States : e # f => gs'[e].pos = gs[e].pos /\ phys'[e] = phys[e]
    BY <1>1, <1>2, MovedOnly, GuestMoves
  <1>4. \A m \in Mirrors : /\ slot'[m].gf = slot[m].gf /\ slot'[m].mode = slot[m].mode
                           /\ m \in Lookup(f) => slot'[m].stale
                           /\ m \notin Lookup(f) => slot'[m] = slot[m]
    BY <1>1 DEF IInv, Shape, SlotShape, Fields
  <1>5. Spoils(f)
    BY <1>1, <1>3, <1>4 DEF Spoils, Current
  <1>6. f \in Streams => phys'[f] = gs'[f].pos
    BY <1>1, <1>2, <1>3, MovedOnly
  <1>7. pc' = "idle" \/ (pc' = "start" /\ cur' = f /\ Lookup(f) = {})
    BY <1>1 DEF Open, game
  <1>8. (\A m \in Mirrors : ~Synced(m)') /\ (\A e : ~Closing(e))
    BY <1>1, <1>7 DEF Synced, Closing
  <1>9. /\ ModeInv' /\ ServedInv' /\ BackInv' /\ \A e : Lookup(e)' = Lookup(e)
    BY <1>5, <1>6, <1>8, SpoilsServes
  <1>10. CallInv'
    <2>1. CASE pc' = "idle"
      BY <2>1, NoCallInv DEF Serving, Gone
    <2>2. CASE pc' = "start" /\ cur' = f /\ Lookup(f) = {}
      <3>1. Lookup(cur)' = {}
        BY <2>2, <1>9 DEF Lookup
      <3> QED BY <2>2, <3>1 DEF CallInv, Serving
    <2> QED BY <1>7, <2>1, <2>2
  <1> QED BY <1>3, <1>9, <1>10 DEF JInv

(* A mirror whose state is moved is known not to be current.               *)
LEMMA DirtySpoils ==
  ASSUME IInv, NEW f, slot' = Dirty(f, slot)
  PROVE  \A m \in Mirrors :
           /\ slot'[m].gf = slot[m].gf /\ slot'[m].mode = slot[m].mode
           /\ m \in Lookup(f) => slot'[m].dirty
           /\ m \notin Lookup(f) => slot'[m] = slot[m]
  BY DEF Dirty, IInv, Shape, SlotShape, Fields

(* A seek moves the stream with the state.                                 *)
LEMMA SeekBack == ASSUME IInv, JInv, NEW f \in States, Seek(f) PROVE JInv'
  <1> DEFINE x == [gs[f] EXCEPT !.pos = 0, !.eof = FALSE]
  <1>1. /\ pc = "idle" /\ pc' = "pump" /\ cur' = f /\ slot' = Dirty(f, slot) /\ UNCHANGED active
        /\ phys' = Moved(phys, f, 0) /\ gs' = [gs EXCEPT ![f].pos = 0, ![f].eof = FALSE]
    BY DEF Seek, flags
  <1>2. x \in GuestState /\ x.pos = 0
    <2> DEFINE y == [gs[f] EXCEPT !.pos = 0]
    <2>1. gs[f] \in GuestState /\ 0 \in Int
      BY DEF JInv, GuestShape
    <2>3. y \in GuestState
      BY <2>1, GuestFields
    <2>2. x = [y EXCEPT !.eof = FALSE] /\ y.pos = 0
      BY DEF JInv, GuestShape, GuestState
    <2> HIDE DEF x, y
    <2> QED BY <2>2, <2>3, GuestFields DEF GuestState
  <1>3. gs' = [gs EXCEPT ![f] = x]
    BY <1>1 DEF JInv, GuestShape, GuestState
  <1> HIDE DEF x
  <1>4. /\ GuestShape' /\ gs'[f] = x
        /\ \A e \in States : e # f => gs'[e].pos = gs[e].pos /\ phys'[e] = phys[e]
    <2>1. DOMAIN phys' = States /\ \A e \in States : e # f => phys'[e] = phys[e]
      BY <1>1, MovedOnly
    <2> QED BY <1>2, <1>3, <2>1, GuestMoves
  <1>5. Spoils(f)
    BY <1>1, <1>4, DirtySpoils DEF Spoils, Current
  <1>6. f \in Streams => phys'[f] = gs'[f].pos
    BY <1>1, <1>2, <1>4, MovedOnly
  <1>7. (\A m \in Mirrors : ~Synced(m)') /\ (\A e : ~Closing(e))
    BY <1>1 DEF Synced, Closing
  <1>8. /\ ModeInv' /\ ServedInv' /\ BackInv' /\ \A e : Lookup(e)' = Lookup(e)
    BY <1>5, <1>6, <1>7, SpoilsServes
  <1>9. CallInv'
    <2>1. \A m \in Lookup(f) : slot'[m].dirty
      BY <1>1, DirtySpoils DEF Lookup
    <2>2. \A m \in Lookup(cur)' : slot'[m].dirty
      BY <1>1, <1>8, <2>1 DEF Lookup
    <2> QED BY <1>1, <2>2 DEF CallInv, Serving, Gone
  <1> QED BY <1>4, <1>8, <1>9 DEF JInv

(* One packet further is a state, too.                                     *)
LEMMA PumpedIs ==
  ASSUME NEW f \in States, NEW x \in GuestState
  PROVE  Pumped(f, x) \in GuestState /\ Pumped(f, x).pos \in Int
  <1> DEFINE y == [x EXCEPT !.held = FALSE]
  <1>1. y \in GuestState /\ TRUE \in BOOLEAN
    BY GuestFields
  <1>2. y.pos = x.pos /\ x.pos \in Int /\ x.pos + 1 \in Int
    BY DEF GuestState
  <1>3. \/ Pumped(f, x) = [y EXCEPT !.eof = TRUE]
        \/ Pumped(f, x) = [y EXCEPT !.pos = x.pos + 1]
    BY DEF Pumped, GuestState
  <1> HIDE DEF y
  <1>4. Pumped(f, x) \in GuestState
    BY <1>1, <1>2, <1>3, GuestFields
  <1> QED BY <1>4 DEF GuestState

(* A pump puts the stream back under a state that has not moved before.    *)
LEMMA PumpBack ==
  ASSUME IInv, JInv, NEW f \in States, Pump(f), pc \in {"idle", "pump"} PROVE JInv'
  <1> DEFINE x == Pumped(f, gs[f])
             behind == {m \in Lookup(f) : ~slot[m].dirty}
             stands == IF behind = {} THEN phys ELSE SyncedPhys(First(behind))
  <1>1. /\ slot' = Dirty(f, slot) /\ gs' = [gs EXCEPT ![f] = x] /\ pc' = "idle" /\ UNCHANGED active
        /\ phys' = Moved(stands, f, stands[f] + x.pos - gs[f].pos)
    BY DEF Pump, Back, flags, JInv, GuestShape
  <1>2. gs[f] \in GuestState /\ x \in GuestState /\ x.pos \in Int /\ gs[f].pos \in Int
    <2>1. gs[f] \in GuestState
      BY DEF JInv, GuestShape
    <2> QED BY <2>1, PumpedIs DEF GuestState
  <1>3. /\ DOMAIN stands = States /\ \A e \in States : e # f => stands[e] = phys[e]
        /\ f \in Streams => stands[f] = gs[f].pos
    <2>1. CASE behind = {}
      <3>1. DOMAIN stands = States /\ \A e \in States : e # f => stands[e] = phys[e]
        BY <2>1 DEF JInv, GuestShape
      <3>2. ~ReadAhead(f) /\ ~Closing(f)
        BY <2>1 DEF ReadAhead, Current, Closing
      <3> QED BY <2>1, <3>1, <3>2 DEF JInv, BackInv
    <2>2. CASE behind # {}
      <3> DEFINE m == First(behind)
      <3>1. behind \in SUBSET Mirrors
        BY DEF Lookup
      <3>2. m \in behind
        BY <2>2, <3>1, FirstOf
      <3>3. m \in Mirrors /\ active[m] /\ slot[m].gf = f /\ ~slot[m].dirty
        BY <3>2 DEF Lookup
      <3>4. pc = "idle" /\ ~slot[m].stale
        BY <3>2, <3>3 DEF Pump, JInv, CallInv, Lookup
      <3>5. stands = SyncedPhys(m)
        BY <2>2
      <3> HIDE DEF m, behind, stands
      <3>6. DOMAIN phys = States
        BY DEF JInv, GuestShape
      <3>7. DOMAIN stands = States /\ \A e \in States : e # f => stands[e] = phys[e]
        BY <3>3, <3>5, <3>6 DEF SyncedPhys
      <3>8. f \in Streams => stands[f] = gs[f].pos
        <4> SUFFICES ASSUME f \in Streams PROVE stands[f] = gs[f].pos OBVIOUS
        <4>1. slot[m].mode = "stream"
          BY <3>3 DEF JInv, ModeInv
        <4>2. /\ slot[m].logical = gs[f].pos
              /\ slot[m].physOK => phys[f] = slot[m].physPos
          BY <3>3, <3>4 DEF JInv, ServedInv, Current
        <4> QED BY <3>3, <3>5, <3>6, <4>1, <4>2 DEF SyncedPhys, Stands
      <3> QED BY <3>7, <3>8
    <2> QED BY <2>1, <2>2
  <1> HIDE DEF stands, x
  <1>4. DOMAIN phys' = States /\ \A e \in States : e # f => phys'[e] = phys[e]
    BY <1>1, <1>3 DEF Moved
  <1>5. /\ GuestShape' /\ gs'[f] = x
        /\ \A e \in States : e # f => gs'[e].pos = gs[e].pos /\ phys'[e] = phys[e]
    BY <1>1, <1>2, <1>4, GuestMoves
  <1>6. f \in Streams => phys'[f] = gs'[f].pos
    <2> SUFFICES ASSUME f \in Streams PROVE phys'[f] = x.pos
      BY <1>5
    <2>1. phys'[f] = stands[f] + x.pos - gs[f].pos
      BY <1>1, <1>3 DEF Moved
    <2> QED BY <2>1, <1>2, <1>3
  <1>7. Spoils(f)
    BY <1>1, <1>5, DirtySpoils DEF Spoils, Current
  <1>8. (\A m \in Mirrors : ~Synced(m)') /\ (\A e : ~Closing(e))
    BY <1>1 DEF Synced, Closing
  <1>9. ModeInv' /\ ServedInv' /\ BackInv'
    BY <1>6, <1>7, <1>8, SpoilsServes
  <1>10. CallInv'
    BY <1>1, NoCallInv DEF Serving, Gone
  <1> QED BY <1>5, <1>9, <1>10 DEF JInv

(* A state that no mirror serves is moved                                  *)
LEMMA MovedBack ==
  ASSUME IInv, JInv, NEW f \in States, Lookup(f) = {}, UNCHANGED <<active, slot>>,
         NEW x \in GuestState, gs' = [gs EXCEPT ![f] = x], NEW y, phys' = Moved(phys, f, y),
         f \in Streams => y = x.pos, pc' = "idle", \A e : Closing(e) => e = f
  PROVE  JInv'
  <1>1. DOMAIN phys' = States /\ \A e \in States : e # f => phys'[e] = phys[e]
    BY MovedOnly
  <1>2. /\ GuestShape' /\ gs'[f] = x
        /\ \A e \in States : e # f => gs'[e].pos = gs[e].pos /\ phys'[e] = phys[e]
    BY <1>1, GuestMoves
  <1>3. f \in Streams => phys'[f] = gs'[f].pos
    BY <1>2, MovedOnly
  <1>4. CallInv'
    BY NoCallInv DEF Serving, Gone
  <1>5. ModeInv'
    BY DEF JInv, ModeInv
  <1>6. ServedInv'
    <2> SUFFICES ASSUME NEW m \in Mirrors, active[m], slot[m].gf \in Streams, Current(m)
                 PROVE  /\ slot[m].logical = gs'[slot[m].gf].pos
                        /\ slot[m].physOK => phys'[slot[m].gf] = slot[m].physPos
      BY DEF ServedInv, Current
    <2>1. slot[m].gf # f /\ slot[m].gf \in States
      BY VorbisMirrorAssumption DEF Lookup
    <2>2. /\ slot[m].logical = gs[slot[m].gf].pos
          /\ slot[m].physOK => phys[slot[m].gf] = slot[m].physPos
      BY DEF JInv, ServedInv
    <2> QED BY <2>1, <2>2, <1>2
  <1>7. BackInv'
    <2> SUFFICES ASSUME NEW e \in Streams, ~ReadAhead(e)' PROVE phys'[e] = gs'[e].pos
      BY DEF BackInv
    <2>1. CASE e = f
      BY <2>1, <1>3
    <2>2. CASE e # f
      <3>1. ~ReadAhead(e)
        BY DEF ReadAhead, Lookup, Current, Synced
      <3>2. phys[e] = gs[e].pos /\ e \in States
        BY <2>2, <3>1, VorbisMirrorAssumption DEF JInv, BackInv
      <3> QED BY <2>2, <3>2, <1>2
    <2> QED BY <2>1, <2>2
  <1> QED BY <1>2, <1>4, <1>5, <1>6, <1>7 DEF JInv

(* A closed state has no mirror any more.                                  *)
LEMMA CloseStateBack == ASSUME IInv, JInv, CloseState PROVE JInv'
  <1>1. /\ pc = "close" /\ gs' = [gs EXCEPT ![cur] = Closed] /\ phys' = Moved(phys, cur, 0)
        /\ UNCHANGED <<active, slot>> /\ pc' = "idle"
    BY DEF CloseState, Back, flags, mirror
  <1>2. cur \in States /\ Lookup(cur) = {}
    BY <1>1 DEF IInv, Shape, JInv, CallInv, Gone
  <1>3. Closed.pos = 0
    BY DEF Closed
  <1>4. \A e : Closing(e) => e = cur
    BY DEF Closing
  <1> QED BY <1>1, <1>2, <1>3, <1>4, ClosedState, MovedBack

(* The translated decoder moves the stream as far as the state.            *)
LEMMA TranslatedBack == ASSUME IInv, JInv, Translated PROVE JInv'
  <1> DEFINE s == gs[cur]
             first == s.pos - (IF s.held THEN 1 ELSE 0)
             left == IF s.eof THEN s.pos - first ELSE Length[cur] + 1 - first
             n == Least(Request, left)
  <1>1. /\ pc = "translated" /\ pc' = "idle" /\ UNCHANGED <<active, slot>>
    BY DEF Translated, Back, flags, mirror
  <1>2. PICK part \in BOOLEAN :
          /\ gs' = [gs EXCEPT ![cur].pos = first + n, ![cur].held = part,
                              ![cur].eof = @ \/ left < Request]
          /\ phys' = Moved(phys, cur, phys[cur] + first + n - s.pos)
    BY DEF Translated
  <1>3. cur \in States /\ Lookup(cur) = {}
    BY <1>1 DEF IInv, Shape, JInv, CallInv, Gone
  <1>4. s \in GuestState /\ s.pos \in Int /\ s.eof \in BOOLEAN
    <2>1. s \in GuestState
      BY <1>3 DEF JInv, GuestShape
    <2> QED BY <2>1 DEF GuestState
  <1>5. first \in Int
    BY <1>4
  <1>6. n \in Int
    <2>1. Length[cur] \in Int /\ Request \in Int
      BY <1>3, VorbisMirrorAssumption
    <2> HIDE DEF first
    <2>2. left \in Int
      BY <1>4, <1>5, <2>1
    <2> HIDE DEF left
    <2> QED BY <2>1, <2>2 DEF Least
  <1> DEFINE b == s.eof \/ left < Request
             x == [[[s EXCEPT !.pos = first + n] EXCEPT !.held = part] EXCEPT !.eof = b]
  <1>7. gs' = [gs EXCEPT ![cur] = x]
    BY <1>2, <1>3, <1>4 DEF JInv, GuestShape, GuestState
  <1> HIDE DEF n, first, left
  <1>8. x \in GuestState /\ x.pos = first + n
    <2>1. first + n \in Int /\ b \in BOOLEAN
      BY <1>5, <1>6
    <2> HIDE DEF b
    <2> DEFINE u == [s EXCEPT !.pos = first + n]
               v == [u EXCEPT !.held = part]
    <2>2. u \in GuestState /\ u.pos = first + n
      BY <1>4, <2>1, GuestFields DEF GuestState
    <2> HIDE DEF u
    <2>3. v \in GuestState /\ v.pos = first + n
      BY <2>2, GuestFields DEF GuestState
    <2> HIDE DEF v
    <2>4. [v EXCEPT !.eof = b] \in GuestState /\ [v EXCEPT !.eof = b].pos = first + n
      BY <2>1, <2>3, GuestFields DEF GuestState
    <2> QED BY <2>4 DEF u, v
  <1> HIDE DEF x
  <1>9. cur \in Streams => phys[cur] + first + n - s.pos = x.pos
    <2> SUFFICES ASSUME cur \in Streams PROVE phys[cur] + first + n - s.pos = x.pos OBVIOUS
    <2>1. ~ReadAhead(cur) /\ ~Closing(cur)
      BY <1>1, <1>3 DEF ReadAhead, Closing
    <2>2. phys[cur] = s.pos
      BY <2>1 DEF JInv, BackInv
    <2> QED BY <2>2, <1>4, <1>5, <1>6, <1>8
  <1>10. \A e : Closing(e) => e = cur
    BY DEF Closing
  <1> QED BY <1>1, <1>2, <1>3, <1>7, <1>8, <1>9, <1>10, MovedBack

-----------------------------------------------------------------------------
(* The steps of a call that leave the streams where they are               *)

(* Nothing a stream's place depends on is touched                          *)
LEMMA Still ==
  ASSUME JInv, UNCHANGED <<active, phys, gs, slot>> PROVE Calm
  BY DEF Calm, Fixed, GuestStays, JInv, GuestShape

(* A calm step leads to where the call may be                              *)
LEMMA CalmStep ==
  ASSUME IInv, JInv, Calm, CallInv',
         \A m \in Mirrors : active[m] /\ Current(m) /\ Synced(m)' => Synced(m),
         \A f \in Streams : Closing(f) => Closing(f)'
  PROVE  JInv'
  BY CalmServes, CalmBack DEF JInv

(* A decode that has its mirror goes on with it, or returns                *)
LEMMA ServesOn ==
  ASSUME IInv, JInv, pc \in Serving, pc' \in Serving \cup {"idle"},
         pc' # "idle" => UNCHANGED <<cur, cm>>,
         \A f : Lookup(f)' = Lookup(f),
         \A n \in Mirrors : active[n] => (Current(n)' <=> Current(n))
  PROVE  /\ CallInv' /\ \A n \in Mirrors : ~Synced(n)'
         /\ \A f : ~Closing(f)
  <1>1. cm \in Lookup(cur) /\ Current(cm) /\ cm \in Mirrors /\ active[cm]
    BY DEF JInv, CallInv, Lookup
  <1>2. pc' # "idle" => cm \in Lookup(cur)' /\ Current(cm)'
    BY <1>1 DEF Lookup
  <1>3. CallInv'
    <2>1. CASE pc' = "idle"
      BY <2>1, NoCallInv DEF Serving, Gone
    <2>2. CASE pc' # "idle"
      <3>1. (cm \in Lookup(cur))' /\ Current(cm)'
        BY <2>2, <1>1, <1>2 DEF Lookup, Current
      <3> QED BY <2>2, <3>1 DEF CallInv, Serving, Gone
    <2> QED BY <2>1, <2>2
  <1>4. (\A n \in Mirrors : ~Synced(n)') /\ (\A f : ~Closing(f))
    BY DEF Synced, Closing, Serving
  <1> QED BY <1>3, <1>4

(* A decode that moves no stream keeps what is known,                      *)
LEMMA ServesCalmly ==
  ASSUME IInv, JInv, Calm, pc \in Serving, pc' \in Serving \cup {"idle"},
         pc' # "idle" => UNCHANGED <<cur, cm>>
  PROVE  JInv'
  BY CalmServes, ServesOn, CalmStep

(* and so does one that reads ahead.                                       *)
LEMMA ServesReading ==
  ASSUME IInv, JInv, Reading, pc' \in Serving \cup {"idle"},
         pc' # "idle" => UNCHANGED <<cur, cm>>
  PROVE  JInv'
  <1>1. pc \in Serving
    BY DEF Reading
  <1> QED BY <1>1, ReadingBack, ServesOn DEF JInv

(* A call that has no mirror for its state goes on without                 *)
LEMMA GoneCalmly ==
  ASSUME IInv, JInv, Calm, pc \in Gone, pc' \in Gone \cup {"idle"},
         pc' # "idle" => UNCHANGED cur, pc' \in {"release", "clear", "claim"} => ~active[cm'],
         \A f \in Streams : Closing(f) => Closing(f)'
  PROVE  JInv'
  <1>1. Lookup(cur) = {}
    BY DEF JInv, CallInv
  <1>2. \A m \in Mirrors : ~Synced(m)'
    BY DEF Synced, Gone
  <1>3. CallInv'
    <2>1. CASE pc' = "idle"
      BY <2>1, NoCallInv DEF Serving, Gone
    <2>2. CASE pc' # "idle"
      <3>1. Lookup(cur)' = {}
        <4>1. Lookup(cur)' = {m \in Mirrors : active'[m] /\ slot'[m].gf = cur'}
          BY DEF Lookup
        <4>2. \A m \in Mirrors : active'[m] => active[m] /\ slot'[m].gf = slot[m].gf
          BY DEF Calm, Fixed
        <4>3. \A m \in Mirrors : ~(active[m] /\ slot[m].gf = cur)
          BY <1>1 DEF Lookup
        <4> QED BY <4>1, <4>2, <4>3, <2>2
      <3>2. pc' \in {"release", "clear", "claim"} => ~active'[cm']
        BY DEF Calm
      <3>3. pc' \in Gone
        BY <2>2
      <3> QED BY <3>1, <3>2, <3>3 DEF CallInv, Serving, Gone
    <2> QED BY <2>1, <2>2
  <1> QED BY <1>2, <1>3, CalmStep

(* A mirror that is ended serves no state, and nothing has one.            *)
LEMMA LeavingStep ==
  ASSUME IInv, JInv, Leaving PROVE JInv'
  <1>1. cm \in Mirrors /\ DOMAIN active = Mirrors
    BY DEF IInv, Shape
  <1>2. \A m \in Mirrors : active'[m] <=> m # cm /\ active[m]
    BY <1>1 DEF Leaving, Set
  <1>3. Lookup(cur) \subseteq {cm}
    BY DEF Leaving, JInv, CallInv
  <1>4. Lookup(cur)' = {}
    <2>1. Lookup(cur)' = {m \in Mirrors : active'[m] /\ slot'[m].gf = cur}
      BY DEF Lookup, Leaving
    <2>2. \A m \in Mirrors : m # cm => ~(active[m] /\ slot[m].gf = cur)
      BY <1>3 DEF Lookup
    <2> QED BY <2>1, <2>2, <1>2 DEF Leaving
  <1>5. CallInv'
    BY <1>1, <1>2, <1>4 DEF CallInv, Leaving, Gone, Serving
  <1> QED BY <1>5, LeavingBack DEF JInv

-----------------------------------------------------------------------------
(* The steps of a call                                                     *)

(* A close finds the only mirror of its state, or none.                    *)
LEMMA CloseBack == ASSUME IInv, JInv, NEW f \in States, Close(f) PROVE JInv'
  <1>1. pc = "idle" /\ cur' = f /\ UNCHANGED <<active, phys, gs, slot>>
    BY DEF Close, guest, mirror
  <1>2. \/ pc' = "close" /\ Lookup(f) = {}
        \/ pc' = "quiesce" /\ ret' = "close" /\ cm' \in Lookup(f)
    <2>1. CASE Lookup(f) = {}
      BY <2>1 DEF Close
    <2>2. CASE Lookup(f) # {}
      <3>1. Lookup(f) \in SUBSET Mirrors
        BY DEF Lookup
      <3> QED BY <2>2, <3>1, FirstOf DEF Close
    <2> QED BY <2>1, <2>2
  <1>3. (\A m \in Mirrors : ~Synced(m)') /\ (\A e : ~Closing(e))
    BY <1>1, <1>2 DEF Synced, Closing
  <1>4. CallInv'
    <2>1. Lookup(cur)' = Lookup(f)
      BY <1>1 DEF Lookup
    <2>2. \A m, n \in Lookup(f) : m = n
      BY DEF Lookup, IInv, SlotInv
    <2> QED BY <1>2, <2>1, <2>2 DEF CallInv, Serving, Gone
  <1> QED BY <1>1, <1>3, <1>4, Still, CalmStep

(* A mirror found good serves; one that is not is quiesced, its stream put *)
(* back when its state has not moved.                                      *)
LEMMA DecodeBack == ASSUME IInv, JInv, NEW f \in States, Decode(f) PROVE JInv'
  <1>1. pc = "idle" /\ cur' = f /\ UNCHANGED <<active, gs>>
    BY DEF Decode
  <1>2. (\A m \in Mirrors : ~Synced(m)) /\ (\A e : ~Closing(e))
    BY <1>1 DEF Synced, Closing
  <1>3. CASE Lookup(f) = {} /\ pc' = "start" /\ UNCHANGED <<phys, slot>>
    <2>1. Lookup(cur)' = {} /\ \A m \in Mirrors : ~Synced(m)'
      BY <1>1, <1>3 DEF Lookup, Synced
    <2>2. CallInv'
      BY <1>3, <2>1 DEF CallInv, Serving
    <2> QED BY <1>1, <1>2, <1>3, <2>1, <2>2, Still, CalmStep
  <1>4. ASSUME NEW m \in Lookup(f), NEW channels \in BOOLEAN, cm' = m,
               IF slot[m].dirty \/ slot[m].stale \/ channels
               THEN /\ pc' = "quiesce" /\ ret' = IF slot[m].stale THEN "reopen" ELSE "reclone"
                    /\ Set(retiring, m, TRUE)
                    /\ IF Current(m) THEN Sync(m) ELSE UNCHANGED <<phys, slot>>
               ELSE /\ pc' = IF slot[m].mode = "stream" THEN "topup" ELSE "memory"
                    /\ UNCHANGED <<phys, slot, retiring, ret>>
        PROVE  JInv'
    <2>1. m \in Mirrors /\ active[m] /\ slot[m].gf = f
      BY DEF Lookup
    <2>2. \A n \in Lookup(f) : n = m
      BY DEF Lookup, IInv, SlotInv
    <2>3. \A n \in Mirrors : Synced(n)' => n = m
      BY <1>4 DEF Synced
    <2>4. ASSUME pc' = "quiesce", Lookup(f)' = Lookup(f) PROVE CallInv'
      <3>1. Lookup(cur)' = Lookup(f)
        BY <1>1, <2>4 DEF Lookup
      <3> QED BY <1>4, <2>2, <2>4, <3>1 DEF CallInv, Serving, Gone
    <2>5. CASE pc' = "quiesce" /\ Current(m)
      <3>1. Syncing(m)
        BY <1>1, <1>4, <2>1, <2>5 DEF Syncing
      <3>2. GuestShape' /\ ModeInv' /\ ServedInv' /\ BackInv' /\ Lookup(f)' = Lookup(f)
        BY <2>1, <2>3, <3>1, <1>2, SyncServed, SyncBack
      <3> QED BY <2>4, <2>5, <3>2 DEF JInv
    <2>6. CASE pc' = "quiesce" /\ ~Current(m)
      <3>1. UNCHANGED <<phys, slot>>
        BY <1>4, <2>6
      <3>2. Lookup(f)' = Lookup(f)
        BY <1>1, <3>1 DEF Lookup
      <3> QED BY <1>1, <1>2, <2>3, <2>4, <2>6, <3>1, <3>2, Still, CalmStep
    <2>7. CASE pc' # "quiesce"
      <3>1. pc' \in {"topup", "memory"} /\ UNCHANGED <<phys, slot>> /\ Current(m)
        BY <1>4, <2>7 DEF Current
      <3>2. (cm \in Lookup(cur))' /\ Current(cm)'
        BY <1>1, <1>4, <2>1, <3>1 DEF Lookup, Current
      <3>3. CallInv' /\ \A n \in Mirrors : ~Synced(n)'
        BY <3>1, <3>2 DEF CallInv, Serving, Gone, Synced
      <3> QED BY <1>1, <1>2, <3>1, <3>3, Still, CalmStep
    <2> QED BY <2>5, <2>6, <2>7
  <1> QED BY <1>3, <1>4 DEF Decode

(* The game thread has the mirror, and the stream stays put back.          *)
LEMMA QuiescedBack == ASSUME IInv, JInv, Quiesced PROVE JInv'
  <1>1. /\ pc = "quiesce" /\ pc' = (IF ret = "reclone" THEN "clone" ELSE "inert")
        /\ UNCHANGED <<active, phys, gs, slot, cur, cm, ret>>
    BY DEF Quiesced, Goto, guest, mirror
  <1>2. CallInv'
    <2>1. Lookup(cur)' = Lookup(cur)
      BY <1>1 DEF Lookup
    <2> QED BY <1>1, <2>1 DEF JInv, CallInv, Serving, Gone
  <1>3. \A m \in Mirrors : Synced(m)' => Synced(m)
    BY <1>1 DEF Synced
  <1>4. \A f \in Streams : Closing(f) => Closing(f)'
    BY <1>1 DEF Closing
  <1> QED BY <1>1, <1>2, <1>3, <1>4, Still, CalmStep

(* A mirror that is given up leaves its stream where it stands.            *)
LEMMA QuiesceFailsBack == ASSUME IInv, JInv, QuiesceFails PROVE JInv'
  <1>1. /\ pc = "quiesce" /\ ret \in Rets /\ Set(active, cm, FALSE) /\ UNCHANGED <<gs, phys>>
        /\ slot' = [slot EXCEPT ![cm] = [Inert EXCEPT !.poisoned = TRUE, !.mode = slot[cm].mode]]
    BY DEF QuiesceFails, IInv, PlaceInv, guest
  <1>2. /\ UNCHANGED <<cur, cm, ret>>
        /\ pc' \in {"close", "start", "claim", "translated"}
        /\ ret = "close" => pc' = "close"
    <2>1. CASE ret = "reopen"
      BY <2>1 DEF QuiesceFails, Goto
    <2>2. CASE ret # "reopen"
      <3>1. After
        BY <2>2 DEF QuiesceFails
      <3> QED BY <3>1, <1>1, AfterGoes DEF After, Goto
    <2> QED BY <2>1, <2>2
  <1>3. \A m \in Mirrors \ {cm} : slot'[m] = slot[m]
    BY <1>1 DEF IInv, Shape, SlotShape
  <1> QED BY <1>1, <1>2, <1>3, LeavingStep DEF Leaving, Gone

(* So do one that is retired and a clone that is rejected.                 *)
LEMMA RetireBack == ASSUME IInv, JInv, Retire \/ Reject PROVE JInv'
  <1>1. /\ pc \in {"inert", "clone"} /\ pc' \in {"release", "reject"}
        /\ pc = "inert" => pc' = "release"
        /\ UNCHANGED <<gs, phys, cur, cm, ret>> /\ Set(active, cm, FALSE) /\ Empties(cm)
    BY DEF Retire, Reject, Goto, guest
  <1>2. \A m \in Mirrors \ {cm} : slot'[m] = slot[m]
    BY <1>1, EmptiesShape DEF IInv, Shape
  <1> QED BY <1>1, <1>2, LeavingStep DEF Leaving, Gone

(* A call whose state has no mirror                                        *)
LEMMA GoneBack ==
  ASSUME IInv, JInv,
         \/ RetireReleases \/ RetireClears \/ Take \/ PoolFull \/ PoolBusy \/ RejectReleases
         \/ Rejected
  PROVE  JInv'
  <1>1. UNCHANGED <<active, phys, gs, slot>>
    BY DEF RetireReleases, RetireClears, Take, PoolFull, PoolBusy, RejectReleases, Rejected,
           guest, mirror, flags
  <1>2. CASE RetireReleases
    <2>1. pc = "release" /\ pc' = "clear" /\ UNCHANGED <<cur, cm, ret>> /\ ~active[cm]
      BY <1>2 DEF RetireReleases, Goto, JInv, CallInv
    <2>2. \A f \in Streams : Closing(f) => Closing(f)'
      BY <2>1 DEF Closing
    <2> QED BY <1>1, <2>1, <2>2, Still, GoneCalmly DEF Gone
  <1>3. CASE RetireClears
    <2>1. pc = "clear" /\ ret \in Rets /\ ~active[cm] /\ After
      BY <1>3 DEF RetireClears, IInv, PlaceInv, JInv, CallInv
    <2>2. /\ UNCHANGED <<cur, cm, ret>> /\ pc' \in {"close", "start", "claim", "translated"}
      BY <2>1, AfterGoes
    <2>3. ret = "close" => pc' = "close"
      BY <2>1 DEF After, Goto
    <2>4. \A f \in Streams : Closing(f) => Closing(f)'
      BY <2>1, <2>2, <2>3 DEF Closing
    <2> QED BY <1>1, <2>1, <2>2, <2>4, Still, GoneCalmly DEF Gone
  <1>4. CASE Take
    <2>1. pc = "start" /\ pc' = "claim" /\ UNCHANGED cur /\ cm' = First(Free) /\ Free # {}
      BY <1>4 DEF Take
    <2>2. cm' \in Free
      BY <2>1, FirstOf DEF Free, Usable
    <2>3. ~active[cm']
      BY <2>2 DEF Free
    <2>4. \A f : ~Closing(f)
      BY <2>1 DEF Closing
    <2> QED BY <1>1, <2>1, <2>3, <2>4, Still, GoneCalmly DEF Gone
  <1>5. CASE PoolFull \/ PoolBusy \/ Rejected
    <2>1. pc \in {"start", "claim", "rejected"} /\ Without
      BY <1>5 DEF PoolFull, PoolBusy, Rejected
    <2>2. pc' = "idle" \/ (pc' = "translated" /\ UNCHANGED cur)
      BY <2>1 DEF Without, Back, Goto
    <2>3. \A f : ~Closing(f)
      BY <2>1 DEF Closing
    <2> QED BY <1>1, <2>1, <2>2, <2>3, Still, GoneCalmly DEF Gone
  <1>6. CASE RejectReleases
    <2>1. pc = "reject" /\ pc' = "rejected" /\ UNCHANGED cur
      BY <1>6 DEF RejectReleases, Goto
    <2>2. \A f : ~Closing(f)
      BY <2>1 DEF Closing
    <2> QED BY <1>1, <2>1, <2>2, Still, GoneCalmly DEF Gone
  <1> QED BY <1>2, <1>3, <1>4, <1>5, <1>6

(* A decode may evict only a mirror whose state has not moved: an opened   *)
(* or moved state is decoded within the idle time.                         *)
LEMMA EvictBack == ASSUME IInv, JInv, Evict, DecodesSoon PROVE JInv'
  <1>1. PICK m \in Idle : Sync(m) /\ Set(retiring, m, TRUE) /\ cm' = m
    BY DEF Evict
  <1>2. pc = "start" /\ pc' = "quiesce" /\ ret' = "evict" /\ UNCHANGED <<active, gs, cur>>
    BY DEF Evict
  <1>3. m \in Mirrors /\ active[m] /\ Current(m)
    BY DEF Idle, Usable
  <1>4. Syncing(m)
    BY <1>1, <1>2, <1>3 DEF Syncing
  <1>5. /\ \A n \in Mirrors : Synced(n)' => n = m
        /\ \A f : ~Closing(f)
        /\ \A n \in Mirrors : ~Synced(n)
    BY <1>1, <1>2 DEF Synced, Closing
  <1>6. GuestShape' /\ ModeInv' /\ ServedInv' /\ BackInv' /\ \A f : Lookup(f)' = Lookup(f)
    BY <1>3, <1>4, <1>5, SyncServed, SyncBack
  <1>7. CallInv'
    <2>1. Lookup(cur) = {}
      BY <1>2 DEF JInv, CallInv, Gone
    <2>2. Lookup(cur)' = {}
      BY <1>2, <1>6, <2>1 DEF Lookup
    <2> QED BY <1>2, <2>2 DEF CallInv, Serving, Gone
  <1> QED BY <1>6, <1>7 DEF JInv

(* A mirror that serves nothing is taken to be cloned into.                *)
LEMMA ClaimBack == ASSUME IInv, JInv, Claim PROVE JInv'
  <1>1. /\ pc = "claim" /\ pc' = "clone" /\ UNCHANGED <<active, phys, gs, slot, cur, cm>>
    BY DEF Claim, Goto, guest, mirror
  <1>2. ~active[cm] /\ Lookup(cur) = {}
    BY <1>1 DEF JInv, CallInv, Gone
  <1>3. \A m \in Mirrors : active[m] => ~Synced(m)'
    BY <1>1, <1>2 DEF Synced
  <1>4. \A f : ~Closing(f)
    BY <1>1 DEF Closing
  <1>5. CallInv'
    <2>1. Lookup(cur)' = {}
      BY <1>1, <1>2 DEF Lookup
    <2> QED BY <1>1, <2>1 DEF CallInv, Serving, Gone
  <1> QED BY <1>1, <1>3, <1>4, <1>5, Still, CalmStep

(* A clone notes the stream's place, which is its state's.                 *)
LEMMA CloneBack == ASSUME IInv, JInv, Clone PROVE JInv'
  <1>1. /\ pc = "clone" /\ pc' = "ready" /\ UNCHANGED <<gs, phys, cur, cm>>
        /\ Set(active, cm, TRUE)
    BY DEF Clone, Goto
  <1>2. cm \in Mirrors /\ DOMAIN active = Mirrors /\ cur \in States /\ Streams \subseteq States
    BY <1>1, VorbisMirrorAssumption DEF IInv, Shape
  <1>3. \A m \in Mirrors : active'[m] <=> m = cm \/ active[m]
    BY <1>1, <1>2 DEF Set
  <1>4. \A m \in Mirrors : m # cm => slot'[m] = slot[m]
    BY DEF Clone, IInv, Shape, SlotShape
  <1>5. DOMAIN slot = Mirrors /\ Fields \subseteq DOMAIN slot[cm]
    BY <1>2 DEF IInv, Shape, SlotShape
  <1>6. /\ slot'[cm].gf = cur
        /\ slot'[cm].mode = IF cur \in Streams THEN "stream" ELSE "memory"
        /\ ~slot'[cm].dirty /\ ~slot'[cm].stale
        /\ slot'[cm].logical = phys[cur] /\ slot'[cm].physPos = phys[cur]
    BY <1>2, <1>5 DEF Clone, Fields
  <1>7. Lookup(cur) \subseteq {cm} /\ \A f : ~Closing(f)
    BY <1>1 DEF JInv, CallInv, Closing
  <1>8. cur \in Streams => phys[cur] = gs[cur].pos
    <2>1. ~ReadAhead(cur)
      BY <1>1, <1>7 DEF ReadAhead, Synced
    <2> QED BY <2>1, <1>7 DEF JInv, BackInv
  <1>9. \A m \in Mirrors : m # cm => (Current(m)' <=> Current(m))
    BY <1>4 DEF Current
  <1>10. CallInv'
    <2>1. (cm \in Lookup(cur))' /\ Current(cm)'
      BY <1>1, <1>2, <1>3, <1>6 DEF Lookup, Current
    <2> QED BY <1>1, <2>1 DEF CallInv, Serving, Gone
  <1>11. ModeInv'
    <2> SUFFICES ASSUME NEW m \in Mirrors, active'[m]
                 PROVE  slot'[m].mode = IF slot'[m].gf \in Streams THEN "stream" ELSE "memory"
      BY DEF ModeInv
    <2>1. CASE m = cm
      BY <2>1, <1>6
    <2>2. CASE m # cm
      BY <2>2, <1>3, <1>4 DEF JInv, ModeInv
    <2> QED BY <2>1, <2>2
  <1>12. ServedInv'
    <2> SUFFICES ASSUME NEW m \in Mirrors, active'[m], slot'[m].gf \in Streams, Current(m)'
                 PROVE  /\ slot'[m].logical = gs'[slot'[m].gf].pos
                        /\ slot'[m].physOK => phys'[slot'[m].gf] = slot'[m].physPos
      BY DEF ServedInv
    <2>1. CASE m = cm
      BY <2>1, <1>1, <1>6, <1>8
    <2>2. CASE m # cm
      BY <2>2, <1>1, <1>3, <1>4, <1>9 DEF JInv, ServedInv
    <2> QED BY <2>1, <2>2
  <1>13. BackInv'
    <2> SUFFICES ASSUME NEW f \in Streams, ~ReadAhead(f)' PROVE phys[f] = gs[f].pos
      BY <1>1 DEF BackInv
    <2>1. ~ReadAhead(f)
      <3> SUFFICES ASSUME NEW m \in Lookup(f), Current(m), m # cm PROVE FALSE
        BY <1>1 DEF ReadAhead, Synced
      <3>1. m \in Lookup(f)' /\ Current(m)'
        BY <1>3, <1>4, <1>9 DEF Lookup
      <3>2. ~Synced(m)'
        BY <1>1 DEF Synced
      <3> QED BY <3>1, <3>2 DEF ReadAhead
    <2> QED BY <2>1, <1>7 DEF JInv, BackInv
  <1>14. GuestShape'
    BY <1>1 DEF JInv, GuestShape
  <1> QED BY <1>10, <1>11, <1>12, <1>13, <1>14 DEF JInv

(* The game thread decodes, waits or returns                               *)
LEMMA ServeBack ==
  ASSUME IInv, JInv,
         \/ TakeReady \/ AtEnd \/ BudgetSpent \/ (\E late \in BOOLEAN : Look(late))
         \/ TryAcquire \/ TryAgain \/ GiveUp \/ NoFrameHere \/ Ready \/ Unbusy \/ Unwait
         \/ AfterFrame \/ Leave \/ MemoryAcquire \/ MemoryTimesOut \/ MemoryDecodes
         \/ MemoryReleases
  PROVE  JInv'
  <1>1. /\ pc \in Serving /\ pc' \in Serving /\ UNCHANGED <<active, phys, gs, cur, cm>>
    BY DEF TakeReady, AtEnd, BudgetSpent, Look, TryAcquire, TryAgain, GiveUp, NoFrameHere, Ready,
           Unbusy, Unwait, AfterFrame, Leave, MemoryAcquire, MemoryTimesOut, MemoryDecodes,
           MemoryReleases, Call, Goto, guest, flags, Serving
  <1>2. UNCHANGED slot \/ slot' = [slot EXCEPT ![cm].timedout = TRUE]
    BY DEF TakeReady, AtEnd, BudgetSpent, Look, TryAcquire, TryAgain, GiveUp, NoFrameHere, Ready,
           Unbusy, Unwait, AfterFrame, Leave, MemoryAcquire, MemoryTimesOut, MemoryDecodes,
           MemoryReleases, mirror
  <1>3. \A m \in Mirrors : Fixed(m)
    BY <1>2 DEF Fixed, IInv, Shape, SlotShape, Fields
  <1>4. Calm
    BY <1>1, <1>3 DEF Calm, GuestStays, JInv, GuestShape
  <1> QED BY <1>1, <1>4, ServesCalmly

(* Only a top-up, of the ring or for one frame, reads ahead.               *)
LEMMA TopUpBack == ASSUME IInv, JInv, TopUp \/ TopUpEnd \/ FrameHere PROVE JInv'
  <1>1. pc \in Serving /\ UNCHANGED <<active, gs>>
    BY DEF TopUp, TopUpEnd, FrameHere, Serving, flags, guest
  <1>2. UNCHANGED <<phys, slot>> \/ TopUpMoves(cm)
    BY DEF TopUp, TopUpEnd, FrameHere, guest
  <1>3. pc' \in Serving \cup {"idle"} /\ (pc' # "idle" => UNCHANGED <<cur, cm>>)
    <2>1. CASE ToppedUpTo
      BY <2>1, ToppedUpGoes DEF Serving
    <2>2. CASE ~ToppedUpTo
      BY <2>2 DEF TopUp, TopUpEnd, FrameHere, Call, Goto, Serving
    <2> QED BY <2>1, <2>2
  <1>4. CASE UNCHANGED <<phys, slot>>
    BY <1>1, <1>3, <1>4, Still, ServesCalmly
  <1>5. CASE TopUpMoves(cm)
    BY <1>1, <1>3, <1>5, ServesReading DEF Reading
  <1> QED BY <1>2, <1>4, <1>5

(* A mirror that has failed puts the stream back before it is retired.     *)
LEMMA DropMirrorBack == ASSUME IInv, JInv, DropMirror PROVE JInv'
  <1>1. /\ pc = "post" /\ pc' = "quiesce" /\ ret' = "zero" /\ Sync(cm)
        /\ UNCHANGED <<active, gs, cur, cm>>
    BY DEF DropMirror
  <1>2. cm \in Mirrors /\ active[cm] /\ Current(cm) /\ cm \in Lookup(cur)
    BY <1>1 DEF JInv, CallInv, Serving, Lookup
  <1>3. Syncing(cm)
    BY <1>1, <1>2 DEF Syncing
  <1>4. /\ \A n \in Mirrors : Synced(n)' => n = cm
        /\ \A f : ~Closing(f)
        /\ \A n \in Mirrors : ~Synced(n)
    BY <1>1 DEF Synced, Closing
  <1>5. GuestShape' /\ ModeInv' /\ ServedInv' /\ BackInv' /\ \A f : Lookup(f)' = Lookup(f)
    BY <1>2, <1>3, <1>4, SyncServed, SyncBack
  <1>6. CallInv'
    <2>1. \A n \in Lookup(cur) : n = cm
      BY <1>2 DEF Lookup, IInv, SlotInv
    <2>2. Lookup(cur)' = Lookup(cur)
      BY <1>1, <1>5 DEF Lookup
    <2> QED BY <1>1, <1>2, <2>1, <2>2 DEF CallInv, Serving, Gone
  <1> QED BY <1>5, <1>6 DEF JInv

(* Of the guest's state only its end is written back.                      *)
LEMMA ReturnBack == ASSUME IInv, JInv, Return PROVE JInv'
  <1> DEFINE b == gs[cur].eof \/ call.ended
             x == [gs[cur] EXCEPT !.eof = b]
  <1>1. /\ pc = "post" /\ pc' = "idle" /\ UNCHANGED <<active, phys, slot>>
        /\ gs' = [gs EXCEPT ![cur].eof = b]
    BY DEF Return, Back, flags, mirror
  <1>2. cur \in States /\ gs[cur] \in GuestState
    BY <1>1 DEF IInv, Shape, JInv, GuestShape
  <1>3. gs' = [gs EXCEPT ![cur] = x]
    BY <1>1, <1>2 DEF JInv, GuestShape
  <1>4. b \in BOOLEAN
    OBVIOUS
  <1> HIDE DEF b
  <1>5. x \in GuestState /\ x.pos = gs[cur].pos
    BY <1>2, <1>4, GuestFields DEF GuestState
  <1> HIDE DEF x
  <1>6. GuestStays
    BY <1>1, <1>2, <1>3, <1>5 DEF GuestStays, JInv, GuestShape
  <1>7. Calm
    BY <1>1, <1>6 DEF Calm, Fixed
  <1> QED BY <1>1, <1>7, ServesCalmly DEF Serving

(* The worker moves no stream, and what it empties serves no state.        *)
LEMMA WorkerBack == ASSUME IInv, JInv, Worker PROVE JInv'
  <1>1. UNCHANGED <<active, phys, gs, game>>
    BY DEF Worker, Sample, PreCheck, Acquire, Validate, Fill, WorkerDecodes, WorkerEnds, Publish,
           PublishEnd, Yield, guest, flags
  <1>2. \A m \in Mirrors : active[m] => slot'[m] = slot[m]
    <2>1. CASE Yield
      <3>1. CASE slot[wm].poisoned /\ ~active[wm]
        BY <2>1, <3>1, EmptiesShape DEF Yield, IInv, Shape
      <3>2. CASE ~(slot[wm].poisoned /\ ~active[wm])
        BY <2>1, <3>2 DEF Yield, mirror
      <3> QED BY <3>1, <3>2
    <2>2. CASE ~Yield
      <3>1. UNCHANGED slot
        BY <2>2 DEF Worker, Sample, PreCheck, Acquire, Validate, Fill, WorkerDecodes, WorkerEnds,
                    Publish, PublishEnd, mirror
      <3> QED BY <3>1
    <2> QED BY <2>1, <2>2
  <1>3. Calm
    BY <1>1, <1>2 DEF Calm, Fixed, GuestStays, JInv, GuestShape
  <1>4. /\ \A m \in Mirrors : Synced(m)' => Synced(m)
        /\ \A f : Closing(f) => Closing(f)'
    BY <1>1 DEF Synced, Closing, game
  <1>5. CallInv'
    <2>1. Lookup(cur)' = Lookup(cur)
      BY <1>1, <1>2 DEF Lookup, game
    <2>2. cm \in Lookup(cur) /\ Current(cm) => Current(cm)'
      BY <1>1, <1>2 DEF Lookup, Current, game
    <2>3. \A m \in Lookup(cur) : slot'[m] = slot[m]
      BY <1>2 DEF Lookup
    <2> QED BY <1>1, <2>1, <2>2, <2>3 DEF JInv, CallInv, game
  <1> QED BY <1>3, <1>4, <1>5, CalmStep

-----------------------------------------------------------------------------
(* Every step keeps it, when an opened or moved state is decoded soon      *)
LEMMA InCallBack == ASSUME IInv, JInv, InCall, DecodesSoon PROVE JInv'
  <1>1. CASE \/ (\E f \in States : pc = "pump" /\ Pump(f)) \/ CloseState
             \/ Quiesced \/ QuiesceFails \/ Retire \/ RetireReleases \/ RetireClears
    BY <1>1, PumpBack, CloseStateBack, QuiescedBack, QuiesceFailsBack, RetireBack, GoneBack
  <1>2. CASE \/ Take \/ Evict \/ PoolFull \/ Claim \/ PoolBusy \/ Clone \/ Ready
             \/ Reject \/ RejectReleases \/ Rejected
    BY <1>2, GoneBack, EvictBack, ClaimBack, CloneBack, ServeBack, RetireBack
  <1>3. CASE \/ TopUp \/ TopUpEnd \/ TakeReady \/ AtEnd \/ BudgetSpent
             \/ (\E late \in BOOLEAN : Look(late))
             \/ TryAcquire \/ TryAgain \/ GiveUp \/ FrameHere \/ NoFrameHere
    BY <1>3, TopUpBack, ServeBack
  <1>4. CASE \/ Unbusy \/ Unwait \/ AfterFrame \/ Leave
             \/ MemoryAcquire \/ MemoryTimesOut \/ MemoryDecodes \/ MemoryReleases
             \/ DropMirror \/ Return \/ Translated
    BY <1>4, ServeBack, DropMirrorBack, ReturnBack, TranslatedBack
  <1> QED BY <1>1, <1>2, <1>3, <1>4 DEF InCall

(* Every step of both threads.                                             *)
LEMMA NextBack == ASSUME DecodesSoon PROVE IInv /\ JInv /\ [Next]_vars => JInv'
  <1> SUFFICES ASSUME IInv, JInv, [Next]_vars PROVE JInv' OBVIOUS
  <1>1. CASE Guest
    BY <1>1, OpenBack, SeekBack, CloseBack, DecodeBack DEF Guest
  <1>2. CASE LonePump
    BY <1>2, PumpBack DEF LonePump
  <1>3. CASE UNCHANGED vars
    <2>1. UNCHANGED <<active, phys, gs, slot, game>>
      BY <1>3 DEF vars, guest, flags, mirror
    <2>2. CallInv' /\ (\A m \in Mirrors : Synced(m)' => Synced(m))
          /\ (\A f : Closing(f) => Closing(f)')
      BY <2>1 DEF JInv, CallInv, Synced, Closing, Lookup, Current, game
    <2> QED BY <2>1, <2>2, Still, CalmStep
  <1> QED BY <1>1, <1>2, <1>3, InCallBack, WorkerBack DEF Next

(* What the mirrors know of their states and streams holds in every        *)
(* behaviour.                                                              *)
THEOREM BackInvariance == ASSUME DecodesSoon PROVE Spec => [](IInv /\ JInv)
  <1>1. Init => IInv /\ JInv
    BY InitInv, InitBack
  <1>2. (IInv /\ JInv) /\ [Next]_vars => (IInv /\ JInv)'
    BY NextInv, NextBack
  <1> QED BY <1>1, <1>2, PTL DEF Spec

(* The read-ahead is undone: wherever the translated decoder goes on with  *)
(* a state, or the guest has a state that no mirror serves, the stream     *)
(* stands where the state is (nv_guest_sync).                              *)
THEOREM StreamsAreHandedBack == ASSUME DecodesSoon PROVE Spec => []HandsBack
  <1>1. ASSUME IInv, JInv PROVE HandsBack
    <2> SUFFICES ASSUME NEW f \in Streams
                 PROVE  /\ pc = "translated" /\ cur = f => phys[f] = gs[f].pos
                        /\ pc = "idle" /\ gs[f].open /\ (\A m \in Lookup(f) : ~Current(m))
                             => phys[f] = gs[f].pos
      BY DEF HandsBack
    <2>1. ASSUME pc = "translated", cur = f PROVE phys[f] = gs[f].pos
      <3>1. Lookup(f) = {}
        BY <1>1, <2>1 DEF JInv, CallInv, Gone
      <3>2. ~ReadAhead(f) /\ ~Closing(f)
        BY <2>1, <3>1 DEF ReadAhead, Closing
      <3> QED BY <1>1, <3>2 DEF JInv, BackInv
    <2>2. ASSUME pc = "idle", \A m \in Lookup(f) : ~Current(m) PROVE phys[f] = gs[f].pos
      <3>1. ~ReadAhead(f) /\ ~Closing(f)
        BY <2>2 DEF ReadAhead, Closing
      <3> QED BY <1>1, <3>1 DEF JInv, BackInv
    <2> QED BY <2>1, <2>2
  <1> QED BY <1>1, BackInvariance, PTL

-----------------------------------------------------------------------------
(* The rings.  Their counters run freely and wrap, so what they hold is    *)
(* arithmetic modulo the counters' range and modulo the ring's size.       *)

Congruent(x, y, C) == \E k \in Int : x = y + k * C

(* A multiple of the modulus between two residues is none.                 *)
LEMMA NoMultiple ==
  ASSUME NEW C \in Nat, NEW q \in Int, -C < q * C, q * C < C
  PROVE  q = 0
<1>1. CASE q >= 1
  <2>1. (q - 1) * C >= 0
    BY <1>1
  <2>2. q * C = (q - 1) * C + C
    OBVIOUS
  <2> QED BY <2>1, <2>2
<1>2. CASE q <= -1
  <2>1. (-1 - q) * C >= 0
    BY <1>2
  <2>2. q * C = -C - (-1 - q) * C
    OBVIOUS
  <2> QED BY <2>1, <2>2
<1> QED BY <1>1, <1>2

(* A number and its residue are congruent,                                 *)
LEMMA Residue ==
  ASSUME NEW C \in Nat \ {0}, NEW x \in Int
  PROVE  x % C \in 0 .. C - 1 /\ Congruent(x, x % C, C)
<1>1. x % C \in 0 .. C - 1
  OBVIOUS
<1>2. x \div C \in Int
  OBVIOUS
<1>3. x = C * (x \div C) + (x % C)
  OBVIOUS
<1> DEFINE k == x \div C
           r == x % C
<1>4. k \in Int /\ r \in Int /\ x = r + k * C
  BY <1>1, <1>2, <1>3
<1> HIDE DEF k, r
<1>5. Congruent(x, r, C)
  BY <1>4 DEF Congruent
<1> QED BY <1>1, <1>5 DEF r

(* there is one residue,                                                   *)
LEMMA OneResidue ==
  ASSUME NEW C \in Nat \ {0}, NEW x \in Int, NEW r \in 0 .. C - 1, Congruent(x, r, C)
  PROVE  x % C = r
<1>1. PICK q \in Int : x = r + q * C
  BY DEF Congruent
<1>2. PICK p \in Int : x = (x % C) + p * C
  BY Residue DEF Congruent
<1>3. x % C \in 0 .. C - 1
  BY Residue
<1> DEFINE y == x % C
<1>4. y \in 0 .. C - 1 /\ r + q * C = y + p * C
  BY <1>1, <1>2, <1>3
<1> HIDE DEF y
<1>5. (q - p) * C = y - r
  BY <1>4
<1>6. q - p = 0
  BY <1>4, <1>5, NoMultiple
<1>7. y = r
  BY <1>4, <1>5, <1>6
<1> QED BY <1>7 DEF y

(* and congruences add up.                                                 *)
LEMMA Congruences ==
  ASSUME NEW C \in Int, NEW x \in Int, NEW y \in Int, Congruent(x, y, C)
  PROVE  /\ Congruent(y, x, C)
         /\ \A z \in Int : Congruent(y, z, C) => Congruent(x, z, C)
         /\ \A z \in Int : Congruent(x + z, y + z, C) /\ Congruent(z - x, z - y, C)
<1>1. PICK k \in Int : x = y + k * C
  BY DEF Congruent
<1> DEFINE l == -k
<1>2. l \in Int /\ y = x + l * C
  BY <1>1
<1> HIDE DEF l
<1>3. Congruent(y, x, C)
  BY <1>2 DEF Congruent
<1>4. ASSUME NEW z \in Int, Congruent(y, z, C) PROVE Congruent(x, z, C)
  <2>1. PICK j \in Int : y = z + j * C
    BY <1>4 DEF Congruent
  <2> DEFINE i == j + k
  <2>2. i \in Int /\ x = z + i * C
    BY <1>1, <2>1
  <2> HIDE DEF i
  <2> QED BY <2>2 DEF Congruent
<1>5. ASSUME NEW z \in Int PROVE Congruent(x + z, y + z, C) /\ Congruent(z - x, z - y, C)
  <2> DEFINE u == x + z
             v == y + z
             r == z - x
             t == z - y
  <2>1. u = v + k * C /\ r = t + l * C
    BY <1>1, <1>2
  <2> HIDE DEF u, v, r, t
  <2>2. Congruent(u, v, C) /\ Congruent(r, t, C)
    BY <1>2, <2>1 DEF Congruent
  <2> QED BY <2>2 DEF u, v, r, t
<1> QED BY <1>3, <1>4, <1>5

(* A ring of the module                                                    *)
Size(C) == C \in Nat \ {0} /\ CounterMod % C = 0 /\ C < CounterMod

(* A counter that has wrapped stands at the same place of the ring.        *)
LEMMA WrapsInPlace ==
  ASSUME NEW C, Size(C), NEW x \in Int, NEW y \in Int, Congruent(x, y, CounterMod)
  PROVE  Congruent(x, y, C)
<1>1. CounterMod \in Nat \ {0} /\ CounterMod \in Int /\ C \in Nat \ {0}
  BY VorbisMirrorAssumption DEF Size
<1>2. PICK q \in Int : x = y + q * CounterMod
  BY DEF Congruent
<1>3. PICK p \in Int : CounterMod = (CounterMod % C) + p * C
  BY <1>1, Residue DEF Congruent
<1>4. CounterMod = p * C
  BY <1>1, <1>3 DEF Size
<1> DEFINE k == q * p
<1>5. k \in Int /\ x = y + k * C
  <2>1. q * (p * C) = (q * p) * C
    BY <1>1
  <2> QED BY <1>2, <1>4, <2>1
<1> HIDE DEF k
<1> QED BY <1>5 DEF Congruent

(* A ring that holds consecutive numbers from x                            *)
InRing(r, C, x) ==
  /\ {"head", "tail", "data"} \subseteq DOMAIN r
  /\ r.head \in Int /\ r.tail \in Int
  /\ Avail(r) <= C
  /\ \A i \in 0 .. Avail(r) - 1 : Item(r, C, i) = x + i

(* How many a ring holds                                                   *)
LEMMA HeldNumber ==
  ASSUME NEW r, r.head \in Int, r.tail \in Int
  PROVE  Avail(r) \in Nat /\ Congruent(r.head - r.tail, Avail(r), CounterMod)
<1>1. CounterMod \in Nat \ {0}
  BY VorbisMirrorAssumption
<1> DEFINE d == r.head - r.tail
<1>2. d \in Int
  OBVIOUS
<1>3. Avail(r) = d % CounterMod
  BY DEF Avail
<1> HIDE DEF d
<1>4. Avail(r) \in 0 .. CounterMod - 1 /\ Congruent(d, Avail(r), CounterMod)
  BY <1>1, <1>2, <1>3, Residue
<1> QED BY <1>1, <1>4 DEF d

(* and how many it does after its counters have moved                      *)
LEMMA HeldNow ==
  ASSUME NEW r, r.head \in Int, r.tail \in Int, NEW a \in 0 .. CounterMod - 1,
         Congruent(r.head - r.tail, a, CounterMod)
  PROVE  Avail(r) = a
<1>1. CounterMod \in Nat \ {0}
  BY VorbisMirrorAssumption
<1> DEFINE d == r.head - r.tail
<1>2. d \in Int /\ Congruent(d, a, CounterMod)
  OBVIOUS
<1>3. Avail(r) = d % CounterMod
  BY DEF Avail
<1> HIDE DEF d
<1> QED BY <1>1, <1>2, <1>3, OneResidue

(* An empty ring holds numbers from wherever they begin.                   *)
LEMMA ResetHolds ==
  ASSUME NEW C, Size(C), NEW x \in Int
  PROVE  InRing(RingReset(C), C, x) /\ Avail(RingReset(C)) = 0
<1>1. 0 % CounterMod = 0
  BY VorbisMirrorAssumption
<1>2. Avail(RingReset(C)) = 0
  BY <1>1 DEF Avail, RingReset
<1> QED BY <1>2 DEF InRing, RingReset, Size

(* The i-th place from a counter's is i places from it.                    *)
LEMMA PlaceOf ==
  ASSUME NEW C \in Nat \ {0}, NEW t \in Int, NEW h \in Int, NEW i \in Int, NEW o \in 0 .. C - 1,
         Congruent(t + i - h, o, C)
  PROVE  (t + i) % C \in 0 .. C - 1 /\ Offset((t + i) % C, h, C) = o
<1> DEFINE u == t + i
           j == u % C
<1>1. u \in Int /\ u - h = t + i - h
  OBVIOUS
<1> HIDE DEF u
<1>2. j \in 0 .. C - 1 /\ Congruent(u, j, C)
  BY <1>1, Residue
<1> HIDE DEF j
<1> DEFINE n == -h
<1>3. /\ n \in Int /\ j \in Int /\ o \in Int /\ j - h \in Int /\ u - h \in Int
      /\ u + n = u - h /\ j + n = j - h
  BY <1>1, <1>2
<1> HIDE DEF n
<1>4. C \in Int
  OBVIOUS
<1>5. Congruent(j, u, C)
  BY <1>1, <1>2, <1>3, <1>4, Congruences
<1>6. Congruent(j + n, u + n, C)
  BY <1>1, <1>2, <1>3, <1>4, <1>5, Congruences
<1>7. Congruent(j - h, u - h, C)
  BY <1>3, <1>6
<1>8. Congruent(u - h, o, C)
  BY <1>1
<1>9. Congruent(j - h, o, C)
  BY <1>3, <1>4, <1>7, <1>8, Congruences
<1>10. (j - h) % C = o
  BY <1>3, <1>9, OneResidue
<1> QED BY <1>2, <1>10 DEF Offset, j, u

(* What is written behind the numbers continues them                       *)
LEMMA WriteHolds ==
  ASSUME NEW r, NEW C, Size(C), NEW x \in Int, InRing(r, C, x),
         NEW n \in Nat, Avail(r) + n <= C
  PROVE  /\ InRing(RingWrite(r, C, x + Avail(r), n), C, x)
         /\ Avail(RingWrite(r, C, x + Avail(r), n)) = Avail(r) + n
<1> DEFINE a == Avail(r)
           w == RingWrite(r, C, x + a, n)
           h == r.head
           t == r.tail
<1>1. /\ CounterMod \in Nat \ {0} /\ CounterMod \in Int
      /\ C \in Nat \ {0} /\ C \in Int /\ C < CounterMod
  BY VorbisMirrorAssumption DEF Size
<1>2. /\ a \in Nat /\ h \in Int /\ t \in Int /\ a + n <= C
      /\ Congruent(h - t, a, CounterMod) /\ h - t \in Int
  BY HeldNumber DEF InRing
<1>3. /\ {"head", "tail", "data"} \subseteq DOMAIN w
      /\ w.head = (h + n) % CounterMod /\ w.tail = t
      /\ w.data = [i \in 0 .. C - 1 |->
           IF Offset(i, h, C) < n THEN x + a + Offset(i, h, C) ELSE r.data[i]]
  BY DEF RingWrite, InRing
<1>4. \A i \in 0 .. a - 1 : r.data[(t + i) % C] = x + i
  BY DEF InRing, Item
<1> HIDE DEF w, a, h, t
<1>5. h + n \in Int
  BY <1>2
<1>6. w.head \in 0 .. CounterMod - 1 /\ Congruent(h + n, w.head, CounterMod)
  BY <1>1, <1>3, <1>5, Residue
<1>7. w.head \in Int
  BY <1>1, <1>6
<1>8. Avail(w) = a + n
  <2>1. Congruent(w.head, h + n, CounterMod)
    BY <1>1, <1>5, <1>6, <1>7, Congruences
  <2> DEFINE m == -t
             d == w.head + m
             e == (h + n) + m
             f == h - t
  <2>2. /\ m \in Int /\ d \in Int /\ e \in Int /\ f \in Int
        /\ d = w.head - t /\ e = f + n /\ a + n \in Int
    BY <1>2, <1>5, <1>7
  <2>3. Congruent(d, e, CounterMod)
    BY <1>1, <1>5, <1>7, <2>1, <2>2, Congruences
  <2> HIDE DEF d, e, m
  <2>4. Congruent(f + n, a + n, CounterMod)
    BY <1>1, <1>2, <2>2, Congruences
  <2>5. Congruent(d, a + n, CounterMod)
    BY <1>1, <2>2, <2>3, <2>4, Congruences
  <2>6. Congruent(w.head - w.tail, a + n, CounterMod)
    BY <1>3, <2>2, <2>5
  <2>7. a + n \in 0 .. CounterMod - 1 /\ w.tail \in Int
    BY <1>1, <1>2, <1>3
  <2> QED BY <1>7, <2>6, <2>7, HeldNow
<1>9. Congruent(h - t, a, C)
  BY <1>1, <1>2, WrapsInPlace
<1>10. ASSUME NEW i \in 0 .. (a + n) - 1 PROVE Item(w, C, i) = x + i
  <2> DEFINE z == i - a
             o == IF i < a THEN z + C ELSE z
             j == (t + i) % C
  <2>1. i \in Int /\ z \in Int /\ o \in 0 .. C - 1 /\ o \in Int
    BY <1>1, <1>2
  <2>2. Congruent(z, o, C)
    <3>1. z = o + (IF i < a THEN -1 ELSE 0) * C
      BY <1>1, <2>1
    <3> DEFINE k == IF i < a THEN -1 ELSE 0
    <3>2. k \in Int /\ z = o + k * C
      BY <3>1
    <3> HIDE DEF k, z, o
    <3> QED BY <3>2 DEF Congruent
  <2>3. Congruent(i - (h - t), i - a, C)
    BY <1>1, <1>2, <1>9, <2>1, Congruences
  <2>4. Congruent(t + i - h, o, C)
    <3>1. t + i - h = i - (h - t) /\ i - a = z /\ i - (h - t) \in Int
      BY <1>2, <2>1
    <3> HIDE DEF z, o
    <3> QED BY <1>1, <2>1, <2>2, <2>3, <3>1, Congruences
  <2> HIDE DEF z, o
  <2>5. j \in 0 .. C - 1 /\ Offset(j, h, C) = o
    BY <1>1, <1>2, <2>1, <2>4, PlaceOf
  <2>6. Item(w, C, i) = w.data[j]
    BY <1>3 DEF Item
  <2> HIDE DEF j
  <2>7. Item(w, C, i) = IF o < n THEN x + a + o ELSE r.data[j]
    BY <1>3, <2>5, <2>6
  <2>8. CASE i < a
    <3>1. ~(o < n)
      BY <1>1, <1>2, <2>1, <2>8 DEF o, z
    <3>2. r.data[j] = x + i
      BY <1>2, <1>4, <2>1, <2>8 DEF j
    <3> QED BY <2>7, <3>1, <3>2
  <2>9. CASE i >= a
    <3>1. o < n /\ x + a + o = x + i
      BY <1>1, <1>2, <2>1, <2>9 DEF o, z
    <3> QED BY <2>7, <3>1
  <2> QED BY <1>2, <2>1, <2>8, <2>9
<1>11. InRing(w, C, x)
  <2>1. Avail(w) <= C /\ w.tail \in Int
    BY <1>2, <1>3, <1>8
  <2> QED BY <1>3, <1>7, <1>8, <1>10, <2>1 DEF InRing
<1> QED BY <1>8, <1>11 DEF w, a

(* What is read is taken from the front, and the others stay               *)
LEMMA ReadHolds ==
  ASSUME NEW r, NEW C, Size(C), NEW x \in Int, InRing(r, C, x), NEW n \in 0 .. Avail(r)
  PROVE  /\ InRing(RingRead(r, C, n), C, x + n)
         /\ Avail(RingRead(r, C, n)) = Avail(r) - n
<1> DEFINE a == Avail(r)
           w == RingRead(r, C, n)
           h == r.head
           t == r.tail
<1>1. /\ CounterMod \in Nat \ {0} /\ CounterMod \in Int
      /\ C \in Nat \ {0} /\ C \in Int /\ C < CounterMod
  BY VorbisMirrorAssumption DEF Size
<1>2. /\ a \in Nat /\ h \in Int /\ t \in Int /\ a <= C /\ n \in Nat /\ n <= a
      /\ Congruent(h - t, a, CounterMod) /\ h - t \in Int
  BY HeldNumber DEF InRing
<1>3. /\ {"head", "tail", "data"} \subseteq DOMAIN w
      /\ w.head = h /\ w.tail = (t + n) % CounterMod
      /\ w.data = [i \in 0 .. C - 1 |-> IF Offset(i, t, C) < n THEN -1 ELSE r.data[i]]
  BY DEF RingRead, InRing
<1>4. \A i \in 0 .. a - 1 : r.data[(t + i) % C] = x + i
  BY DEF InRing, Item
<1> HIDE DEF w, a, h, t
<1>5. t + n \in Int /\ a - n \in 0 .. CounterMod - 1 /\ a - n \in Int
  BY <1>1, <1>2
<1>6. w.tail \in 0 .. CounterMod - 1 /\ Congruent(t + n, w.tail, CounterMod)
  BY <1>1, <1>3, <1>5, Residue
<1>7. w.tail \in Int /\ w.head \in Int
  BY <1>1, <1>2, <1>3, <1>6
<1>8. Congruent(w.tail, t + n, CounterMod)
  BY <1>1, <1>5, <1>6, <1>7, Congruences
<1>9. Avail(w) = a - n
  <2> DEFINE m == -n
             d == h - w.tail
             e == h - (t + n)
             f == h - t
  <2>1. m \in Int /\ d \in Int /\ e \in Int /\ f \in Int /\ e = f + m /\ a + m = a - n
    BY <1>2, <1>5, <1>7
  <2>2. Congruent(d, e, CounterMod)
    BY <1>1, <1>2, <1>5, <1>7, <1>8, Congruences
  <2> HIDE DEF d, e, m
  <2>6. Congruent(f, a, CounterMod) /\ a \in Int
    BY <1>2
  <2> HIDE DEF f
  <2>3. Congruent(f + m, a + m, CounterMod)
    BY <1>1, <2>1, <2>6, Congruences
  <2>4. Congruent(d, a - n, CounterMod)
    BY <1>1, <1>5, <2>1, <2>2, <2>3, Congruences
  <2>5. Congruent(w.head - w.tail, a - n, CounterMod)
    BY <1>3, <2>4 DEF d
  <2> QED BY <1>5, <1>7, <2>5, HeldNow
<1>10. Congruent(w.tail, t + n, C)
  BY <1>1, <1>5, <1>7, <1>8, WrapsInPlace
<1>11. ASSUME NEW i \in 0 .. (a - n) - 1 PROVE Item(w, C, i) = (x + n) + i
  <2> DEFINE o == n + i
             u == w.tail + i
             v == t + o
             j == u % C
  <2>1. /\ i \in Int /\ o \in 0 .. C - 1 /\ o \in 0 .. a - 1 /\ o \in Int /\ ~(o < n)
        /\ u \in Int /\ v \in Int /\ (t + n) + i = v
    BY <1>1, <1>2, <1>7
  <2>2. Congruent(w.tail + i, (t + n) + i, C)
    BY <1>1, <1>5, <1>7, <1>10, <2>1, Congruences
  <2> HIDE DEF o, u, v
  <2>3. Congruent(u, v, C)
    BY <2>1, <2>2 DEF u
  <2>4. j = v % C
    <3>1. v % C \in 0 .. C - 1 /\ Congruent(v, v % C, C) /\ v % C \in Int
      <4>1. v % C \in 0 .. C - 1 /\ Congruent(v, v % C, C)
        BY <1>1, <2>1, Residue
      <4> QED BY <4>1
    <3>2. Congruent(u, v % C, C)
      BY <1>1, <2>1, <2>3, <3>1, Congruences
    <3> QED BY <1>1, <2>1, <3>1, <3>2, OneResidue
  <2>5. j \in 0 .. C - 1 /\ Offset(j, t, C) = o
    <3>1. t + o - t = o + 0 * C /\ 0 \in Int
      BY <1>1, <1>2, <2>1
    <3>2. Congruent(t + o - t, o, C)
      BY <3>1 DEF Congruent
    <3> QED BY <1>1, <1>2, <2>1, <2>4, <3>2, PlaceOf DEF v
  <2>6. Item(w, C, i) = w.data[j]
    BY DEF Item, u
  <2>7. r.data[j] = x + o
    BY <1>4, <2>1, <2>4 DEF v
  <2> HIDE DEF j
  <2>8. Item(w, C, i) = r.data[j]
    BY <1>3, <2>1, <2>5, <2>6
  <2> QED BY <1>2, <2>1, <2>7, <2>8 DEF o
<1>12. InRing(w, C, x + n)
  <2>1. Avail(w) <= C
    <3>1. a - n <= C
      BY <1>1, <1>2
    <3> QED BY <1>9, <3>1
  <2> QED BY <1>3, <1>7, <1>9, <1>11, <2>1 DEF InRing
<1> QED BY <1>9, <1>12 DEF w, a

-----------------------------------------------------------------------------
(* The frames are heard in order: the invariant beyond IInv and JInv.      *)

(* A mirror that serves a state which has not moved; the worker has        *)
(* decoded a frame of it that it has not published.                        *)
Live(m)    == active[m] /\ Current(m)
Pending(m) == wm = m /\ wpc = "publish"
Due(m)     == IF Pending(m) THEN 1 ELSE 0

(* From the frame w that is heard next to the place in the stream: PCM,    *)
(* the frame in the worker's hand, the decoder, Ogg packets, the stream.   *)
StreamFrom(m, w) ==
  /\ InRing(pcm[m], PcmSlots, w)
  /\ dec[m].next = w + Avail(pcm[m]) + Due(m)
  /\ Pending(m) => hand = w + Avail(pcm[m])
  /\ wm = m /\ wpc \in {"decode", "publish"} => Avail(pcm[m]) < PcmSlots
  /\ InRing(ogg[m], OggSlots, dec[m].next)
  /\ slot[m].head = dec[m].next + Avail(ogg[m]) /\ slot[m].head <= Length[slot[m].gf] + 1
(* A whole sample's mirror decodes only what it hands out.                 *)
SampleFrom(m, w) ==
  /\ InRing(pcm[m], PcmSlots, w) /\ Avail(pcm[m]) = 0
  /\ dec[m].next = w

Filled(m) ==
  /\ "next" \in DOMAIN dec[m]
  /\ IF slot[m].gf \in Streams THEN StreamFrom(m, want[slot[m].gf])
                               ELSE SampleFrom(m, want[slot[m].gf])
FilledInv == \A m \in Mirrors : Live(m) => Filled(m)

RingShape ==
  /\ DOMAIN dec = Mirrors /\ DOMAIN ogg = Mirrors /\ DOMAIN pcm = Mirrors
  /\ DOMAIN want = States /\ \A f \in States : want[f] \in Int

(* A state stands in its file, or at its end.                              *)
PosInv == \A f \in Streams : gs[f].pos <= Length[f] + 1

(* A call that takes frames of a stream has not more of them than it was   *)
(* asked for, and one that has not begun to has none.                      *)
Taking == {"take", "look", "try", "frame", "unbusy", "unwait", "after"}
CountInv ==
  /\ "n" \in DOMAIN call /\ call.n \in Int
  /\ pc \in Taking => call.n <= Request
  /\ ~early /\ pc \notin Taking \cup {"leave", "post", "unsample"} => call.n = 0
KindInv ==
  /\ pc \in Taking \cup {"topup", "topupEnd"} => cur \in Streams
  /\ pc \in {"memory", "sample"} => cur \notin Streams

KInv == RingShape /\ PosInv /\ CountInv /\ KindInv /\ FilledInv


(* Before the first open nothing is decoded and no call takes frames.      *)
LEMMA InitFilled == Init => KInv
  <1> SUFFICES ASSUME Init PROVE KInv OBVIOUS
  <1>1. RingShape
    BY DEF Init, RingShape
  <1>2. PosInv
    <2> SUFFICES ASSUME NEW f \in Streams PROVE gs[f].pos <= Length[f] + 1
      BY DEF PosInv
    <2>1. f \in States /\ Length[f] \in Nat
      BY VorbisMirrorAssumption
    <2> QED BY <2>1 DEF Init, Closed
  <1>3. CountInv /\ KindInv
    BY DEF Init, CountInv, KindInv, Taking, NoCall
  <1>4. FilledInv
    BY DEF Init, FilledInv, Live
  <1> QED BY <1>1, <1>2, <1>3, <1>4 DEF KInv

-----------------------------------------------------------------------------
(* What a step does to the call's count                                    *)

Counted == Taking \cup {"leave", "post", "unsample"}

(* A call returns with nothing to do next.                                 *)
LEMMA BackCounts == ASSUME Back PROVE CountInv' /\ KindInv'
  BY DEF Back, NoCall, CountInv, KindInv, Taking

(* A call that has no frames goes on,                                      *)
LEMMA EmptyCounts ==
  ASSUME KInv, UNCHANGED <<early, call>>, pc \notin Counted \/ call.n = 0,
         pc' \notin Taking \cup {"topup", "topupEnd", "memory", "sample"}
  PROVE  CountInv' /\ KindInv'
  BY DEF KInv, CountInv, KindInv, Taking, Counted

(* it begins, with a stream or with a sample,                              *)
LEMMA BeginCounts ==
  ASSUME KInv, UNCHANGED <<early, call>>, pc \notin Counted,
         \/ pc' \in {"topup", "topupEnd"} /\ cur' \in Streams
         \/ pc' \in {"memory", "sample"} /\ cur' \notin Streams
  PROVE  CountInv' /\ KindInv'
  BY DEF KInv, CountInv, KindInv, Taking, Counted

(* or one that takes frames goes on, or leaves.                            *)
LEMMA TakingCounts ==
  ASSUME KInv, pc \in Taking, UNCHANGED <<cur, early>>, "n" \in DOMAIN call', call'.n \in Int,
         pc' \in Taking \cup {"leave", "post", "unsample"}, call'.n <= Request
  PROVE  CountInv' /\ KindInv'
  BY DEF KInv, CountInv, KindInv, Taking

(* A stream's mirror tops up, a sample's decodes.                          *)
LEMMA ModeOf ==
  ASSUME IInv, JInv, NEW m \in Lookup(cur)
  PROVE  slot[m].mode = "stream" <=> cur \in Streams
  BY DEF JInv, ModeInv, Lookup

(* The guest's steps begin calls that have no frames.                      *)
LEMMA GuestCounts == ASSUME IInv, JInv, KInv, Guest PROVE CountInv' /\ KindInv'
  <1>1. PICK f \in States : Open(f) \/ Seek(f) \/ Close(f) \/ Decode(f)
    BY DEF Guest
  <1>2. pc = "idle" /\ UNCHANGED call
    BY <1>1 DEF Open, Seek, Close, Decode, game
  <1>3. CASE Open(f)
    <2>1. CASE early' /\ pc' = "start"
      BY <1>2, <2>1 DEF KInv, CountInv, KindInv, Taking
    <2>2. CASE UNCHANGED game
      BY <1>2, <2>2, EmptyCounts DEF game, Taking, Counted
    <2> QED BY <1>3, <2>1, <2>2 DEF Open
  <1>4. CASE Seek(f) \/ Close(f)
    <2>1. UNCHANGED early /\ pc' \in {"pump", "close", "quiesce"}
      BY <1>4 DEF Seek, Close
    <2> QED BY <1>2, <2>1, EmptyCounts DEF Taking, Counted
  <1>5. CASE Decode(f)
    <2>1. UNCHANGED early /\ cur' = f
      BY <1>5 DEF Decode
    <2>2. CASE pc' \in {"start", "quiesce"}
      BY <1>2, <2>1, <2>2, EmptyCounts DEF Taking, Counted
    <2>3. CASE pc' \notin {"start", "quiesce"}
      <3>1. PICK m \in Lookup(f) : pc' = IF slot[m].mode = "stream" THEN "topup" ELSE "memory"
        BY <1>5, <2>3 DEF Decode
      <3>2. slot[m].mode = "stream" <=> f \in Streams
        BY <3>1 DEF JInv, ModeInv, Lookup
      <3> QED BY <1>2, <2>1, <3>1, <3>2, BeginCounts DEF Taking, Counted
    <2> QED BY <2>2, <2>3
  <1> QED BY <1>1, <1>3, <1>4, <1>5

(* What a call does without its mirror's ring                              *)
LEMMA RetireCounts ==
  ASSUME IInv, JInv, KInv,
         \/ Quiesced \/ QuiesceFails \/ Retire \/ RetireReleases \/ RetireClears
         \/ Take \/ Evict \/ PoolFull \/ Claim \/ PoolBusy \/ Clone \/ Ready
         \/ Reject \/ RejectReleases \/ Rejected
  PROVE  CountInv' /\ KindInv'
  <1>1. CASE Quiesced \/ Retire \/ RetireReleases \/ Take \/ Evict \/ Claim \/ Clone \/ Reject
             \/ RejectReleases
    <2>1. /\ pc \in {"quiesce", "inert", "release", "start", "claim", "clone", "reject"}
          /\ pc' \in {"clone", "inert", "release", "clear", "claim", "quiesce", "ready",
                      "reject", "rejected"}
          /\ UNCHANGED <<early, call>>
      BY <1>1 DEF Quiesced, Retire, RetireReleases, Take, Evict, Claim, Clone, Reject,
                  RejectReleases, Goto
    <2> QED BY <2>1, EmptyCounts DEF Taking, Counted
  <1>2. CASE QuiesceFails \/ RetireClears
    <2>1. pc \in {"quiesce", "clear"} /\ ret \in Rets
      BY <1>2 DEF QuiesceFails, RetireClears, IInv, PlaceInv
    <2>2. After \/ Goto("translated")
      BY <1>2 DEF QuiesceFails, RetireClears
    <2>3. UNCHANGED <<early, call>> /\ pc' \in {"close", "start", "claim", "translated"}
      BY <2>1, <2>2 DEF After, Rets, Goto
    <2> QED BY <2>1, <2>3, EmptyCounts DEF Taking, Counted
  <1>3. CASE PoolFull \/ PoolBusy \/ Rejected
    <2>1. pc \in {"start", "claim", "rejected"} /\ Without
      BY <1>3 DEF PoolFull, PoolBusy, Rejected
    <2>2. CASE Back
      BY <2>2, BackCounts
    <2>3. CASE Goto("translated")
      BY <2>1, <2>3, EmptyCounts DEF Goto, Taking, Counted
    <2> QED BY <2>1, <2>2, <2>3 DEF Without
  <1>4. CASE Ready
    <2>1. /\ pc = "ready" /\ UNCHANGED <<cur, early, call>>
          /\ pc' = IF slot[cm].mode = "stream" THEN "topup" ELSE "memory"
      BY <1>4 DEF Ready, Goto
    <2>2. slot[cm].mode = "stream" <=> cur \in Streams
      BY <2>1, ModeOf DEF JInv, CallInv, Serving
    <2> QED BY <2>1, <2>2, BeginCounts DEF Taking, Counted
  <1> QED BY <1>1, <1>2, <1>3, <1>4

(* A top-up goes on to take the first frames.                              *)
LEMMA TopUpCounts == ASSUME IInv, JInv, KInv, TopUp \/ TopUpEnd PROVE CountInv' /\ KindInv'
  <1>1. pc \in {"topup", "topupEnd"} /\ cur \in Streams /\ (Goto("topupEnd") \/ ToppedUpTo)
    BY DEF TopUp, TopUpEnd, KInv, KindInv
  <1>2. "n" \in DOMAIN call /\ call.n \in Int /\ (~early => call.n = 0) /\ Request \in Nat
    BY <1>1, VorbisMirrorAssumption DEF KInv, CountInv, Taking
  <1>3. CASE Goto("topupEnd")
    BY <1>1, <1>3, BeginCounts DEF Goto, Taking, Counted
  <1>4. CASE ~early /\ Goto("take")
    BY <1>1, <1>2, <1>4 DEF Goto, CountInv, KindInv, Taking
  <1>5. CASE Back
    BY <1>5, BackCounts
  <1>6. CASE early /\ pc' = "topup" /\ call' = [call EXCEPT !.n = @ + 1] /\ UNCHANGED <<cur, early>>
    <2>1. "n" \in DOMAIN call' /\ call'.n \in Int
      BY <1>2, <1>6
    <2> QED BY <1>1, <1>6, <2>1 DEF CountInv, KindInv, Taking
  <1> QED BY <1>1, <1>3, <1>4, <1>5, <1>6 DEF ToppedUpTo

(* A call takes no more than it was asked for.                             *)
LEMMA ServeCounts ==
  ASSUME IInv, JInv, KInv,
         \/ TakeReady \/ AtEnd \/ BudgetSpent \/ (\E late \in BOOLEAN : Look(late))
         \/ TryAcquire \/ TryAgain \/ GiveUp \/ FrameHere \/ NoFrameHere
         \/ Unbusy \/ Unwait \/ AfterFrame
  PROVE  CountInv' /\ KindInv'
  <1>1. /\ pc \in Taking /\ pc' \in Taking \cup {"leave", "post", "unsample"}
        /\ UNCHANGED <<cur, early>>
    BY DEF TakeReady, AtEnd, BudgetSpent, Look, TryAcquire, TryAgain, GiveUp, FrameHere,
           NoFrameHere, Unbusy, Unwait, AfterFrame, Call, Goto, Taking
  <1>2. "n" \in DOMAIN call /\ call.n \in Int /\ call.n <= Request /\ Request \in Nat
    BY <1>1, VorbisMirrorAssumption DEF KInv, CountInv
  <1>3. CASE TakeReady
    <2> DEFINE k == Least(Avail(pcm[cm]), Request - call.n)
    <2>1. call' = [call EXCEPT !.n = call.n + k]
      BY <1>2, <1>3 DEF TakeReady, Call
    <2>2. k \in Int /\ call.n + k <= Request
      <3>1. Avail(pcm[cm]) \in Int
        <4>1. cm \in Mirrors /\ Live(cm)
          BY <1>3 DEF TakeReady, JInv, CallInv, Serving, Lookup, Live
        <4>2. pcm[cm].head \in Int /\ pcm[cm].tail \in Int
          BY <4>1 DEF KInv, FilledInv, Filled, StreamFrom, SampleFrom, InRing
        <4> QED BY <4>2, HeldNumber
      <3> QED BY <3>1, <1>2 DEF Least
    <2> HIDE DEF k
    <2>3. call'.n = call.n + k /\ "n" \in DOMAIN call'
      BY <1>2, <2>1
    <2> QED BY <1>1, <1>2, <2>2, <2>3, TakingCounts
  <1>4. CASE ~TakeReady
    <2>1. call'.n = call.n /\ "n" \in DOMAIN call'
      BY <1>2, <1>4 DEF AtEnd, BudgetSpent, Look, TryAcquire, TryAgain, GiveUp, FrameHere,
           NoFrameHere, Unbusy, Unwait, AfterFrame, Call, Goto
    <2> QED BY <1>1, <1>2, <2>1, TakingCounts
  <1> QED BY <1>3, <1>4

(* What is left of a call                                                  *)
LEMMA EndCounts ==
  ASSUME IInv, JInv, KInv,
         \/ Leave \/ MemoryAcquire \/ MemoryTimesOut \/ MemoryDecodes \/ MemoryReleases
         \/ DropMirror \/ Return \/ Translated \/ CloseState
         \/ (\E f \in States : Pump(f))
  PROVE  CountInv' /\ KindInv'
  <1> USE DEF KInv
  <1>1. CASE Leave \/ MemoryReleases \/ MemoryTimesOut
    BY <1>1 DEF Leave, MemoryReleases, MemoryTimesOut, Call, Goto, CountInv, KindInv, Taking
  <1>2. CASE MemoryAcquire
    BY <1>2 DEF MemoryAcquire, Goto, CountInv, KindInv, Taking
  <1>3. CASE MemoryDecodes
    <2> DEFINE k == Least(Request, Length[cur] + 1 - dec[cm].next)
    <2>1. /\ pc = "sample" /\ pc' = "unsample"
          /\ \/ call' = [call EXCEPT !.n = k, !.ended = (k < Request \/ dec[cm].eof)]
             \/ call' = [call EXCEPT !.ended = TRUE]
      BY <1>3 DEF MemoryDecodes, Call
    <2>2. k \in Int
      <3>1. cm \in Mirrors /\ Live(cm) /\ slot[cm].gf = cur /\ cur \notin Streams /\ cur \in States
        BY <2>1 DEF JInv, CallInv, Serving, Lookup, Live, KindInv, IInv, Shape
      <3>2. dec[cm].next \in Int
        BY <3>1 DEF FilledInv, Filled, SampleFrom, RingShape
      <3>3. Length[cur] \in Int /\ Request \in Int
        BY <3>1, VorbisMirrorAssumption
      <3> QED BY <3>2, <3>3 DEF Least
    <2> HIDE DEF k
    <2>3. "n" \in DOMAIN call' /\ call'.n \in Int
      BY <2>1, <2>2 DEF CountInv
    <2> QED BY <2>1, <2>3 DEF CountInv, KindInv, Taking
  <1>4. CASE DropMirror
    BY <1>4, EmptyCounts DEF DropMirror, ZeroNotEnd, Taking
  <1>5. CASE Return \/ Translated \/ CloseState \/ \E f \in States : Pump(f)
    BY <1>5, BackCounts DEF Return, Translated, CloseState, Pump
  <1> QED BY <1>1, <1>2, <1>3, <1>4, <1>5

(* The count of a call is kept.                                            *)
LEMMA NextCounts == IInv /\ JInv /\ KInv /\ [Next]_vars => CountInv' /\ KindInv'
  <1> SUFFICES ASSUME IInv, JInv, KInv, [Next]_vars PROVE CountInv' /\ KindInv' OBVIOUS
  <1>1. CASE Guest
    BY <1>1, GuestCounts
  <1>2. CASE LonePump
    BY <1>2, EndCounts DEF LonePump
  <1>3. CASE InCall
    <2>1. CASE \/ (\E f \in States : pc = "pump" /\ Pump(f)) \/ CloseState
               \/ Leave \/ MemoryAcquire \/ MemoryTimesOut \/ MemoryDecodes \/ MemoryReleases
               \/ DropMirror \/ Return \/ Translated
      BY <2>1, EndCounts
    <2>2. CASE \/ Quiesced \/ QuiesceFails \/ Retire \/ RetireReleases \/ RetireClears
               \/ Take \/ Evict \/ PoolFull \/ Claim \/ PoolBusy \/ Clone \/ Ready
               \/ Reject \/ RejectReleases \/ Rejected
      BY <2>2, RetireCounts
    <2>3. CASE TopUp \/ TopUpEnd
      BY <2>3, TopUpCounts
    <2>4. CASE \/ TakeReady \/ AtEnd \/ BudgetSpent \/ (\E late \in BOOLEAN : Look(late))
               \/ TryAcquire \/ TryAgain \/ GiveUp \/ FrameHere \/ NoFrameHere
               \/ Unbusy \/ Unwait \/ AfterFrame
      BY <2>4, ServeCounts
    <2> QED BY <1>3, <2>1, <2>2, <2>3, <2>4 DEF InCall
  <1>4. CASE Worker \/ UNCHANGED vars
    <2>1. UNCHANGED game
      BY <1>4 DEF Worker, Sample, PreCheck, Acquire, Validate, Fill, WorkerDecodes, WorkerEnds,
           Publish, PublishEnd, Yield, vars
    <2> QED BY <2>1 DEF game, KInv, CountInv, KindInv
  <1> QED BY <1>1, <1>2, <1>3, <1>4 DEF Next


-----------------------------------------------------------------------------
(* What a step does to the rings of a mirror                               *)

(* A mirror's rings, its decoder and its listener stay where they are.     *)
Keeps(m) ==
  /\ slot'[m].gf = slot[m].gf /\ slot'[m].head = slot[m].head
  /\ dec'[m].next = dec[m].next /\ "next" \in DOMAIN dec'[m]
  /\ ogg'[m] = ogg[m] /\ pcm'[m] = pcm[m]
  /\ want'[slot[m].gf] = want[slot[m].gf]
  /\ Pending(m)' = Pending(m) /\ (Pending(m) => hand' = hand)
  /\ wm' = m /\ wpc' \in {"decode", "publish"} => wm = m /\ wpc \in {"decode", "publish"}

(* Then they hold what they held.                                          *)
LEMMA KeepsFilled ==
  ASSUME NEW m \in Mirrors, Filled(m), Keeps(m) PROVE Filled(m)'
  <1>1. Due(m)' = Due(m)
    BY DEF Keeps, Due
  <1>2. \A C, w : /\ InRing(pcm'[m], C, w) <=> InRing(pcm[m], C, w)
                  /\ InRing(ogg'[m], C, w) <=> InRing(ogg[m], C, w)
    BY DEF Keeps
  <1>3. Avail(pcm'[m]) = Avail(pcm[m]) /\ Avail(ogg'[m]) = Avail(ogg[m])
    BY DEF Keeps
  <1> DEFINE w == want[slot[m].gf]
  <1>4. CASE slot[m].gf \in Streams
    <2>1. StreamFrom(m, w)
      BY <1>4 DEF Filled
    <2>2. /\ InRing(pcm'[m], PcmSlots, w)
          /\ dec'[m].next = w + Avail(pcm'[m]) + Due(m)'
          /\ Pending(m)' => hand' = w + Avail(pcm'[m])
          /\ wm' = m /\ wpc' \in {"decode", "publish"} => Avail(pcm'[m]) < PcmSlots
          /\ InRing(ogg'[m], OggSlots, dec'[m].next)
          /\ slot'[m].head = dec'[m].next + Avail(ogg'[m])
          /\ slot'[m].head <= Length[slot'[m].gf] + 1
      BY <1>1, <1>2, <1>3, <2>1 DEF StreamFrom, Keeps
    <2> QED BY <1>4, <2>2 DEF Filled, StreamFrom, Keeps
  <1>5. CASE slot[m].gf \notin Streams
    <2>1. SampleFrom(m, w)
      BY <1>5 DEF Filled
    <2>2. /\ InRing(pcm'[m], PcmSlots, w) /\ Avail(pcm'[m]) = 0 /\ dec'[m].next = w
      BY <1>2, <1>3, <2>1 DEF SampleFrom, Keeps
    <2> QED BY <1>5, <2>2 DEF Filled, SampleFrom, Keeps
  <1> QED BY <1>4, <1>5

(* A step keeps the mirrors that serve, or fills them.                     *)
LEMMA StepFilled ==
  ASSUME KInv,
         \A m \in Mirrors : Live(m)' => (Live(m) /\ (Filled(m) => Keeps(m))) \/ Filled(m)'
  PROVE  FilledInv'
  <1> SUFFICES ASSUME NEW m \in Mirrors, Live(m)' PROVE Filled(m)'
    BY DEF FilledInv
  <1>1. CASE Live(m) /\ (Filled(m) => Keeps(m))
    <2>1. Filled(m)
      BY <1>1 DEF KInv, FilledInv
    <2> QED BY <1>1, <2>1, KeepsFilled
  <1> QED BY <1>1

(* A state of the guest moves                                              *)
LEMMA PosMoves ==
  ASSUME JInv, KInv, NEW f \in States, NEW x, gs' = [gs EXCEPT ![f] = x],
         f \in Streams => x.pos <= Length[f] + 1
  PROVE  PosInv'
  BY DEF JInv, GuestShape, KInv, PosInv

(* and the mirror that serves it is known not to be good.                  *)
LEMMA GuestFilled ==
  ASSUME IInv, KInv, NEW f \in States, NEW x \in Int, want' = [want EXCEPT ![f] = x],
         UNCHANGED <<active, dec, ogg, pcm, wpc, wm, hand>>,
         \A m \in Mirrors : /\ m \in Lookup(f) => ~Current(m)'
                            /\ m \notin Lookup(f) => slot'[m] = slot[m]
  PROVE  RingShape' /\ FilledInv'
  <1>1. RingShape'
    BY DEF KInv, RingShape
  <1>2. ASSUME NEW m \in Mirrors, Live(m)' PROVE Live(m) /\ (Filled(m) => Keeps(m))
    <2>1. active[m] /\ m \notin Lookup(f) /\ slot'[m] = slot[m]
      BY <1>2 DEF Live
    <2>2. Live(m)
      BY <1>2, <2>1 DEF Live, Current
    <2>3. slot[m].gf # f
      BY <2>1 DEF Lookup
    <2>4. want'[slot[m].gf] = want[slot[m].gf]
      BY <2>3 DEF KInv, RingShape
    <2> QED BY <2>1, <2>2, <2>4 DEF Keeps, Pending, Filled
  <1> QED BY <1>1, <1>2, StepFilled

(* The mirrors that serve after a step did so before, with the same rings. *)
Untouched ==
  /\ UNCHANGED want /\ \A f \in States : gs'[f].pos = gs[f].pos
  /\ DOMAIN dec' = Mirrors /\ DOMAIN ogg' = Mirrors /\ DOMAIN pcm' = Mirrors
  /\ \A m \in Mirrors : active'[m] =>
       /\ active[m] /\ slot'[m].gf = slot[m].gf /\ slot'[m].head = slot[m].head
       /\ slot'[m].dirty = slot[m].dirty /\ slot'[m].stale = slot[m].stale
       /\ ogg'[m] = ogg[m] /\ pcm'[m] = pcm[m]
       /\ "next" \in DOMAIN dec[m] => "next" \in DOMAIN dec'[m] /\ dec'[m].next = dec[m].next

(* The worker has nothing to publish that it had not before.               *)
Unhanded ==
  /\ wpc' = "publish" <=> wpc = "publish"
  /\ wpc' \in {"decode", "publish"} => wpc \in {"decode", "publish"} /\ UNCHANGED wm
  /\ wpc = "publish" => UNCHANGED <<wm, hand>>

(* A step that leaves the mirrors alone keeps their order.                 *)
LEMMA UntouchedFilled ==
  ASSUME KInv, Untouched, Unhanded PROVE RingShape' /\ PosInv' /\ FilledInv'
  <1>1. RingShape'
    BY DEF KInv, RingShape, Untouched
  <1>2. PosInv'
    BY VorbisMirrorAssumption DEF KInv, PosInv, Untouched
  <1>3. ASSUME NEW m \in Mirrors, Live(m)' PROVE Live(m) /\ (Filled(m) => Keeps(m))
    <2>1. Live(m)
      BY <1>3 DEF Live, Current, Untouched
    <2>2. Pending(m)' = Pending(m) /\ (Pending(m) => hand' = hand)
      BY DEF Pending, Unhanded
    <2>3. wm' = m /\ wpc' \in {"decode", "publish"} => wm = m /\ wpc \in {"decode", "publish"}
      BY DEF Unhanded
    <2>4. Filled(m) => "next" \in DOMAIN dec[m]
      BY DEF Filled
    <2> QED BY <1>3, <2>1, <2>2, <2>3, <2>4 DEF Keeps, Untouched, Live
  <1> QED BY <1>1, <1>2, <1>3, StepFilled


-----------------------------------------------------------------------------
(* The steps of the guest, and those that decode nothing                   *)

Rings == RingShape /\ PosInv /\ FilledInv

(* A pump moves a state no further than its file goes.                     *)
LEMMA PumpedPos ==
  ASSUME NEW f \in States, NEW x \in GuestState
  PROVE  x.pos <= Length[f] + 1 => Pumped(f, x).pos <= Length[f] + 1
  <1> DEFINE y == [x EXCEPT !.held = FALSE]
  <1>1. y \in GuestState /\ y.pos = x.pos /\ x.pos \in Int /\ Length[f] \in Nat
    <2>1. FALSE \in BOOLEAN /\ Length[f] \in Nat
      BY VorbisMirrorAssumption
    <2>2. y \in GuestState
      BY <2>1, GuestFields
    <2>3. y.pos = x.pos /\ x.pos \in Int
      BY DEF GuestState
    <2> QED BY <2>1, <2>2, <2>3
  <1>2. \/ Pumped(f, x) = [y EXCEPT !.eof = TRUE]
        \/ Pumped(f, x) = [y EXCEPT !.pos = x.pos + 1] /\ ~(x.pos > Length[f])
    BY <1>1 DEF Pumped, GuestState
  <1> HIDE DEF y
  <1>3. \/ Pumped(f, x).pos = x.pos
        \/ Pumped(f, x).pos = x.pos + 1 /\ ~(x.pos > Length[f])
    BY <1>1, <1>2 DEF GuestState
  <1> QED BY <1>1, <1>3

(* The mirror of a state that the guest moves is not current any more.     *)
LEMMA MoveSpoils ==
  ASSUME IInv, NEW f \in States, Open(f) \/ Seek(f) \/ Pump(f)
  PROVE  \A m \in Mirrors : /\ m \in Lookup(f) => ~Current(m)'
                            /\ m \notin Lookup(f) => slot'[m] = slot[m]
  <1>1. CASE Open(f)
    <2>1. slot' = [m \in Mirrors |-> IF m \in Lookup(f) THEN [slot[m] EXCEPT !.stale = TRUE]
                                                        ELSE slot[m]]
      BY <1>1 DEF Open
    <2> QED BY <2>1 DEF Current, IInv, Shape, SlotShape, Fields
  <1>2. CASE Seek(f) \/ Pump(f)
    <2>1. slot' = Dirty(f, slot)
      BY <1>2 DEF Seek, Pump
    <2> QED BY <2>1, DirtySpoils DEF Current
  <1> QED BY <1>1, <1>2

(* What the guest opens, moves or closes is not heard from a mirror.       *)
LEMMA GuestRings ==
  ASSUME IInv, JInv, KInv, NEW f \in States, Open(f) \/ Seek(f) \/ Pump(f) PROVE Rings'
  <1>1. gs[f] \in GuestState /\ Length[f] \in Nat
    BY VorbisMirrorAssumption DEF JInv, GuestShape
  <1>2. UNCHANGED <<active, dec, ogg, pcm, wpc, wm, hand>>
    BY DEF Open, Seek, Pump, flags, worker
  <1>3. PICK x : gs' = [gs EXCEPT ![f] = x] /\ (f \in Streams => x.pos <= Length[f] + 1)
    <2>1. CASE Open(f)
      <3>1. gs' = [gs EXCEPT ![f] = Opened] /\ Opened.pos = 1
        BY <2>1 DEF Open, Opened, Closed
      <3>2. f \in Streams => Opened.pos <= Length[f] + 1
        BY <1>1, <3>1
      <3> QED BY <3>1, <3>2
    <2>2. CASE Seek(f)
      <3> DEFINE x == [gs[f] EXCEPT !.pos = 0, !.eof = FALSE]
      <3>1. gs' = [gs EXCEPT ![f] = x] /\ x.pos = 0
        BY <1>1, <2>2 DEF Seek, JInv, GuestShape, GuestState
      <3> HIDE DEF x
      <3>2. f \in Streams => x.pos <= Length[f] + 1
        BY <1>1, <3>1
      <3> QED BY <3>1, <3>2
    <2>3. CASE Pump(f)
      <3>1. gs' = [gs EXCEPT ![f] = Pumped(f, gs[f])]
        BY <2>3 DEF Pump, JInv, GuestShape
      <3>2. f \in Streams => gs[f].pos <= Length[f] + 1
        BY DEF KInv, PosInv
      <3> QED BY <1>1, <3>1, <3>2, PumpedPos
    <2> QED BY <2>1, <2>2, <2>3
  <1>4. PICK w \in Int : want' = [want EXCEPT ![f] = w]
    <2>1. CASE Open(f) \/ Seek(f)
      BY <2>1 DEF Open, Seek
    <2>2. CASE Pump(f)
      BY <1>1, <2>2, PumpedIs DEF Pump
    <2> QED BY <2>1, <2>2
  <1>5. \A m \in Mirrors : /\ m \in Lookup(f) => ~Current(m)'
                           /\ m \notin Lookup(f) => slot'[m] = slot[m]
    BY MoveSpoils
  <1>6. PosInv'
    BY <1>3, PosMoves
  <1> QED BY <1>2, <1>4, <1>5, <1>6, GuestFilled DEF Rings

(* Nor is what the translated code closes or decodes.                      *)
LEMMA TranslatedRings ==
  ASSUME IInv, JInv, KInv, CloseState \/ Translated PROVE Rings'
  <1>1. /\ pc \in {"close", "translated"} /\ UNCHANGED <<active, slot, dec, ogg, pcm, wpc, wm, hand>>
        /\ cur \in States
    BY DEF CloseState, Translated, flags, mirror, worker, IInv, Shape
  <1>2. Lookup(cur) = {} /\ gs[cur] \in GuestState /\ Length[cur] \in Nat /\ Request \in Nat
    BY <1>1, VorbisMirrorAssumption DEF JInv, CallInv, Gone, GuestShape
  <1>3. cur \in Streams => gs[cur].pos <= Length[cur] + 1
    BY DEF KInv, PosInv
  <1>4. CASE CloseState
    <2>1. /\ gs' = [gs EXCEPT ![cur] = Closed] /\ Closed.pos = 0
          /\ want' = [want EXCEPT ![cur] = 0]
      BY <1>4 DEF CloseState, Closed
    <2>2. Closed.pos <= Length[cur] + 1 /\ 0 \in Int
      BY <1>2, <2>1
    <2>3. PosInv'
      BY <1>1, <2>1, <2>2, PosMoves
    <2>4. RingShape' /\ FilledInv'
      BY <1>1, <1>2, <2>1, <2>2, GuestFilled
    <2> QED BY <2>3, <2>4 DEF Rings
  <1>5. CASE Translated
    <2> DEFINE s == gs[cur]
               first == s.pos - (IF s.held THEN 1 ELSE 0)
               left == IF s.eof THEN s.pos - first ELSE Length[cur] + 1 - first
               n == Least(Request, left)
    <2>1. PICK part \in BOOLEAN :
            gs' = [gs EXCEPT ![cur].pos = first + n, ![cur].held = part,
                             ![cur].eof = @ \/ left < Request]
      BY <1>5 DEF Translated
    <2>10. PICK q \in {0, 1} : want' = [want EXCEPT ![cur] = first + n - q]
      BY <1>5 DEF Translated
    <2>2. s.pos \in Int
      BY <1>2 DEF GuestState
    <2>3. first \in Int
      BY <2>2
    <2> HIDE DEF first
    <2>4. left \in Int /\ (first + left = s.pos \/ first + left = Length[cur] + 1)
      BY <1>2, <2>2, <2>3
    <2> HIDE DEF left
    <2>5. n \in Int /\ n <= left
      BY <1>2, <2>4 DEF Least
    <2> HIDE DEF n
    <2> DEFINE p == first + n
               w == p - q
               b == s.eof \/ left < Request
               x == [[[s EXCEPT !.pos = p] EXCEPT !.held = part] EXCEPT !.eof = b]
    <2>6. gs' = [gs EXCEPT ![cur] = x] /\ want' = [want EXCEPT ![cur] = w]
      <3>1. want' = [want EXCEPT ![cur] = w]
        <4>1. w = first + (n - q)
          BY <2>3, <2>5
        <4> QED BY <2>10, <4>1
      <3>2. gs' = [gs EXCEPT ![cur] = x]
        BY <1>1, <1>2, <2>1 DEF JInv, GuestShape, GuestState
      <3> QED BY <3>1, <3>2
    <2>7. p \in Int /\ w \in Int /\ (cur \in Streams => p <= Length[cur] + 1)
      BY <1>2, <1>3, <2>2, <2>3, <2>4, <2>5
    <2>8. x.pos = p
      BY <1>2 DEF GuestState
    <2> HIDE DEF p, w, x
    <2>9. PosInv'
      BY <1>1, <2>6, <2>7, <2>8, PosMoves
    <2> QED BY <1>1, <1>2, <2>6, <2>7, <2>9, GuestFilled DEF Rings
  <1> QED BY <1>4, <1>5

(* Putting a stream back leaves the rings alone.                           *)
LEMMA SyncKeeps ==
  ASSUME IInv, NEW m \in Mirrors, Sync(m)
  PROVE  \A n \in Mirrors :
           /\ slot'[n].gf = slot[n].gf /\ slot'[n].head = slot[n].head
           /\ slot'[n].dirty = slot[n].dirty /\ slot'[n].stale = slot[n].stale
  BY DEF IInv, Shape, SlotShape, Fields, Sync, SyncedSlot

(* No ring moves where only a mirror's place or its holder changes.        *)
LEMMA StillRings ==
  ASSUME IInv, JInv, KInv, UNCHANGED <<active, want, dec, ogg, pcm, wpc, wm, hand>>,
         \A f \in States : gs'[f].pos = gs[f].pos,
         \A n \in Mirrors :
           /\ slot'[n].gf = slot[n].gf /\ slot'[n].head = slot[n].head
           /\ slot'[n].dirty = slot[n].dirty /\ slot'[n].stale = slot[n].stale
  PROVE  Rings'
  <1>1. Untouched
    BY DEF Untouched, KInv, RingShape
  <1>2. Unhanded
    BY DEF Unhanded
  <1> QED BY <1>1, <1>2, UntouchedFilled DEF Rings

(* A call that looks for a mirror, or waits for one, leaves the rings alone *)
LEMMA CallSlots ==
  ASSUME IInv,
         \/ (\E f \in States : Close(f) \/ Decode(f))
         \/ Quiesced \/ RetireReleases \/ RetireClears
         \/ Take \/ Evict \/ PoolFull \/ Claim \/ PoolBusy \/ Ready
         \/ RejectReleases \/ Rejected
         \/ AtEnd \/ BudgetSpent \/ (\E late \in BOOLEAN : Look(late))
         \/ TryAcquire \/ TryAgain \/ GiveUp \/ NoFrameHere
         \/ Unbusy \/ Unwait \/ Leave
         \/ MemoryAcquire \/ MemoryTimesOut \/ MemoryReleases \/ DropMirror \/ Return
  PROVE  /\ UNCHANGED <<active, want, dec, ogg, pcm, wpc, wm, hand>>
         /\ \A n \in Mirrors :
              /\ slot'[n].gf = slot[n].gf /\ slot'[n].head = slot[n].head
              /\ slot'[n].dirty = slot[n].dirty /\ slot'[n].stale = slot[n].stale
  <1>1. UNCHANGED <<active, want, dec, ogg, pcm, wpc, wm, hand>>
    BY DEF Close, Decode, Quiesced, RetireReleases, RetireClears, Take, Evict, PoolFull, Claim,
           PoolBusy, Ready, RejectReleases, Rejected, AtEnd, BudgetSpent, Look, TryAcquire,
           TryAgain, GiveUp, NoFrameHere, Unbusy, Unwait, Leave, MemoryAcquire, MemoryTimesOut,
           MemoryReleases, DropMirror, Return, guest, flags, mirror, worker
  <1>2. \/ UNCHANGED slot \/ \E m \in Mirrors : Sync(m)
        \/ slot' = [slot EXCEPT ![cm].timedout = TRUE]
    <2>1. CASE DropMirror
      BY <2>1 DEF DropMirror, IInv, Shape
    <2>2. CASE Evict
      BY <2>2 DEF Evict, Idle, Usable
    <2>3. CASE \E f \in States : Decode(f)
      BY <2>3 DEF Decode, Lookup
    <2>4. CASE ~DropMirror /\ ~Evict /\ ~(\E f \in States : Decode(f))
      BY <2>4 DEF Close, Quiesced, RetireReleases, RetireClears, Take, PoolFull,
           Claim, PoolBusy, Ready, RejectReleases, Rejected, AtEnd, BudgetSpent, Look, TryAcquire,
           TryAgain, GiveUp, NoFrameHere, Unbusy, Unwait, Leave, MemoryAcquire, MemoryTimesOut,
           MemoryReleases, Return, mirror
    <2> QED BY <2>1, <2>2, <2>3, <2>4
  <1>3. \A n \in Mirrors :
           /\ slot'[n].gf = slot[n].gf /\ slot'[n].head = slot[n].head
           /\ slot'[n].dirty = slot[n].dirty /\ slot'[n].stale = slot[n].stale
    <2>1. CASE UNCHANGED slot
      BY <2>1
    <2>2. CASE \E m \in Mirrors : Sync(m)
      BY <2>2, SyncKeeps
    <2>3. CASE slot' = [slot EXCEPT ![cm].timedout = TRUE]
      BY <2>3 DEF IInv, Shape, SlotShape, Fields
    <2> QED BY <1>2, <2>1, <2>2, <2>3
  <1> QED BY <1>1, <1>3

(* and their order.                                                        *)
LEMMA CallRings ==
  ASSUME IInv, JInv, KInv,
         \/ (\E f \in States : Close(f) \/ Decode(f))
         \/ Quiesced \/ RetireReleases \/ RetireClears
         \/ Take \/ Evict \/ PoolFull \/ Claim \/ PoolBusy \/ Ready
         \/ RejectReleases \/ Rejected
         \/ AtEnd \/ BudgetSpent \/ (\E late \in BOOLEAN : Look(late))
         \/ TryAcquire \/ TryAgain \/ GiveUp \/ NoFrameHere
         \/ Unbusy \/ Unwait \/ Leave
         \/ MemoryAcquire \/ MemoryTimesOut \/ MemoryReleases \/ DropMirror \/ Return
  PROVE  Rings'
  <1>1. /\ UNCHANGED <<active, want, dec, ogg, pcm, wpc, wm, hand>>
        /\ \A n \in Mirrors :
             /\ slot'[n].gf = slot[n].gf /\ slot'[n].head = slot[n].head
             /\ slot'[n].dirty = slot[n].dirty /\ slot'[n].stale = slot[n].stale
    BY CallSlots
  <1>2. \A f \in States : gs'[f].pos = gs[f].pos
    <2>1. CASE Return
      BY <2>1 DEF Return, JInv, GuestShape, GuestState
    <2>2. CASE ~Return
      <3>1. UNCHANGED gs
        BY <2>2 DEF Close, Decode, Quiesced, RetireReleases, RetireClears, Take, Evict, PoolFull,
           Claim, PoolBusy, Ready, RejectReleases, Rejected, AtEnd, BudgetSpent, Look, TryAcquire,
           TryAgain, GiveUp, NoFrameHere, Unbusy, Unwait, Leave, MemoryAcquire, MemoryTimesOut,
           MemoryReleases, DropMirror, guest
      <3> QED BY <3>1
    <2> QED BY <2>1, <2>2
  <1> QED BY <1>1, <1>2, StillRings

(* What serves no state is emptied, or given up.                           *)
LEMMA LeaveSlots ==
  ASSUME IInv, RingShape, QuiesceFails \/ Retire \/ Reject
  PROVE  /\ UNCHANGED <<want, gs, wpc, wm, hand>> /\ Set(active, cm, FALSE)
         /\ cm \in Mirrors /\ DOMAIN active = Mirrors
         /\ \A m \in Mirrors : m # cm =>
              slot'[m] = slot[m] /\ dec'[m] = dec[m] /\ ogg'[m] = ogg[m] /\ pcm'[m] = pcm[m]
         /\ DOMAIN dec' = Mirrors /\ DOMAIN ogg' = Mirrors /\ DOMAIN pcm' = Mirrors
  <1>1. /\ UNCHANGED <<want, gs, wpc, wm, hand>> /\ Set(active, cm, FALSE)
        /\ cm \in Mirrors /\ DOMAIN active = Mirrors
    BY DEF QuiesceFails, Retire, Reject, Changes, guest, worker, IInv, Shape
  <1>2. /\ \A m \in Mirrors : m # cm =>
             slot'[m] = slot[m] /\ dec'[m] = dec[m] /\ ogg'[m] = ogg[m] /\ pcm'[m] = pcm[m]
        /\ DOMAIN dec' = Mirrors /\ DOMAIN ogg' = Mirrors /\ DOMAIN pcm' = Mirrors
    BY DEF QuiesceFails, Retire, Reject, Empties, RingShape, IInv, Shape, SlotShape
  <1> QED BY <1>1, <1>2

(* It holds no frames that a state is to hear.                             *)
LEMMA LeaveRings ==
  ASSUME IInv, JInv, KInv, QuiesceFails \/ Retire \/ Reject PROVE Rings'
  <1>1. /\ UNCHANGED <<want, gs, wpc, wm, hand>> /\ Set(active, cm, FALSE)
        /\ cm \in Mirrors /\ DOMAIN active = Mirrors
        /\ \A m \in Mirrors : m # cm =>
             slot'[m] = slot[m] /\ dec'[m] = dec[m] /\ ogg'[m] = ogg[m] /\ pcm'[m] = pcm[m]
        /\ DOMAIN dec' = Mirrors /\ DOMAIN ogg' = Mirrors /\ DOMAIN pcm' = Mirrors
    BY LeaveSlots DEF KInv
  <1>2. Untouched
    BY <1>1 DEF Untouched, Set
  <1>3. Unhanded
    BY <1>1 DEF Unhanded
  <1> QED BY <1>2, <1>3, UntouchedFilled DEF Rings

(* An end of the stream or of the PCM is noted.                            *)
LEMMA NoteRings ==
  ASSUME IInv, JInv, KInv, TopUpEnd \/ AfterFrame PROVE Rings'
  <1>1. UNCHANGED <<active, want, gs, slot, ogg, pcm, wpc, wm, hand>>
    BY DEF TopUpEnd, AfterFrame, guest, flags, worker
  <1>2. /\ DOMAIN dec' = Mirrors
        /\ \A m \in Mirrors : "next" \in DOMAIN dec[m] =>
             "next" \in DOMAIN dec'[m] /\ dec'[m].next = dec[m].next
    BY DEF TopUpEnd, AfterFrame, KInv, RingShape
  <1>3. Untouched
    BY <1>1, <1>2 DEF Untouched, KInv, RingShape
  <1>4. Unhanded
    BY <1>1 DEF Unhanded
  <1> QED BY <1>3, <1>4, UntouchedFilled DEF Rings

(* The worker looks, takes a mirror, ends a stream or leaves a mirror.     *)
LEMMA WorkRings ==
  ASSUME IInv, JInv, KInv,
         \/ Sample \/ PreCheck \/ Acquire \/ Validate \/ WorkerEnds \/ PublishEnd \/ Yield
         \/ (Fill /\ wpc' # "decode")
  PROVE  Rings'
  <1>1. UNCHANGED <<active, want, gs>>
    BY DEF Sample, PreCheck, Acquire, Validate, WorkerEnds, PublishEnd, Yield, Fill, guest, flags
  <1>2. wpc # "publish" /\ wpc' \notin {"decode", "publish"}
    BY DEF Sample, PreCheck, Acquire, Validate, WorkerEnds, PublishEnd, Yield, Fill, Work, NextMirror
  <1>3. Unhanded
    BY <1>2 DEF Unhanded
  <1>4. Untouched
    <2>1. CASE Yield /\ slot[wm].poisoned /\ ~active[wm]
      <3>1. \A m \in Mirrors : m # wm =>
             slot'[m] = slot[m] /\ dec'[m] = dec[m] /\ ogg'[m] = ogg[m] /\ pcm'[m] = pcm[m]
        BY <2>1 DEF Yield, Empties, KInv, RingShape, IInv, Shape, SlotShape
      <3>2. DOMAIN dec' = Mirrors /\ DOMAIN ogg' = Mirrors /\ DOMAIN pcm' = Mirrors
        BY <2>1 DEF Yield, Empties, KInv, RingShape
      <3> QED BY <1>1, <2>1, <3>1, <3>2 DEF Untouched
    <2>2. CASE ~(Yield /\ slot[wm].poisoned /\ ~active[wm])
      <3>1. UNCHANGED <<slot, ogg, pcm>>
        BY <2>2 DEF Sample, PreCheck, Acquire, Validate, WorkerEnds, PublishEnd, Yield, Fill, mirror
      <3>2. /\ DOMAIN dec' = Mirrors
            /\ \A m \in Mirrors : "next" \in DOMAIN dec[m] =>
                 "next" \in DOMAIN dec'[m] /\ dec'[m].next = dec[m].next
        BY <2>2 DEF Sample, PreCheck, Acquire, Validate, WorkerEnds, PublishEnd, Yield, Fill, mirror,
                    RunsDry, Broken, KInv, RingShape
      <3> QED BY <1>1, <3>1, <3>2 DEF Untouched, KInv, RingShape
    <2> QED BY <2>1, <2>2
  <1> QED BY <1>3, <1>4, UntouchedFilled DEF Rings


-----------------------------------------------------------------------------
(* The steps that decode, read ahead or hand over                          *)

(* Both rings divide the range of their counters.                          *)
LEMMA Sizes == Size(OggSlots) /\ Size(PcmSlots)
  BY VorbisMirrorAssumption DEF Size

(* The front of a ring is the first number it holds.                       *)
LEMMA FrontIs ==
  ASSUME NEW r, NEW C, NEW x \in Int, InRing(r, C, x), Avail(r) > 0 PROVE Front(r, C) = x
  <1>1. Avail(r) \in Nat /\ r.tail \in Int
    BY HeldNumber DEF InRing
  <1>2. 0 \in 0 .. Avail(r) - 1 /\ r.tail + 0 = r.tail /\ x + 0 = x
    BY <1>1
  <1>3. Item(r, C, 0) = x
    BY <1>2 DEF InRing
  <1> QED BY <1>2, <1>3 DEF Item, Front

(* What a stream's mirror holds is counted.                                *)
LEMMA StreamFacts ==
  ASSUME IInv, KInv, NEW m \in Mirrors, Live(m), slot[m].gf \in Streams
  PROVE  /\ slot[m].gf \in States /\ Length[slot[m].gf] \in Nat /\ want[slot[m].gf] \in Int
         /\ StreamFrom(m, want[slot[m].gf]) /\ "next" \in DOMAIN dec[m]
         /\ Avail(pcm[m]) \in Nat /\ Avail(ogg[m]) \in Nat /\ dec[m].next \in Int
         /\ Avail(pcm[m]) <= PcmSlots /\ Avail(ogg[m]) <= OggSlots
         /\ Due(m) \in {0, 1} /\ PcmSlots \in Nat /\ OggSlots \in Nat
  <1>1. slot[m].gf \in States /\ Length[slot[m].gf] \in Nat /\ PcmSlots \in Nat /\ OggSlots \in Nat
    BY VorbisMirrorAssumption
  <1>2. want[slot[m].gf] \in Int
    BY <1>1 DEF KInv, RingShape
  <1>3. Filled(m)
    BY DEF KInv, FilledInv
  <1>4. StreamFrom(m, want[slot[m].gf]) /\ "next" \in DOMAIN dec[m]
    BY <1>3 DEF Filled
  <1>5. /\ Avail(pcm[m]) \in Nat /\ Avail(ogg[m]) \in Nat
        /\ Avail(pcm[m]) <= PcmSlots /\ Avail(ogg[m]) <= OggSlots
    BY <1>4, HeldNumber DEF StreamFrom, InRing
  <1>6. Due(m) \in {0, 1}
    BY DEF Due
  <1>7. dec[m].next \in Int
    BY <1>2, <1>4, <1>5, <1>6 DEF StreamFrom
  <1> QED BY <1>1, <1>2, <1>4, <1>5, <1>6, <1>7

(* What has to be shown of a stream's mirror after a step                  *)
LEMMA FillStream ==
  ASSUME NEW m \in Mirrors, slot'[m].gf \in Streams, "next" \in DOMAIN dec'[m],
         InRing(pcm'[m], PcmSlots, want'[slot'[m].gf]),
         InRing(ogg'[m], OggSlots, dec'[m].next),
         slot'[m].head = dec'[m].next + Avail(ogg'[m]),
         slot'[m].head <= Length[slot'[m].gf] + 1,
         wm' = m /\ wpc' \in {"decode", "publish"} => Avail(pcm'[m]) < PcmSlots,
         IF wm' = m /\ wpc' = "publish"
         THEN /\ dec'[m].next = want'[slot'[m].gf] + Avail(pcm'[m]) + 1
              /\ hand' = want'[slot'[m].gf] + Avail(pcm'[m])
         ELSE dec'[m].next = want'[slot'[m].gf] + Avail(pcm'[m]) + 0
  PROVE  Filled(m)'
  <1>1. Pending(m)' <=> wm' = m /\ wpc' = "publish"
    BY DEF Pending
  <1>2. Due(m)' = IF wm' = m /\ wpc' = "publish" THEN 1 ELSE 0
    BY <1>1 DEF Due
  <1> DEFINE w == want'[slot'[m].gf]
             a == Avail(pcm'[m])
  <1>3. dec'[m].next = w + a + Due(m)' /\ (Pending(m)' => hand' = w + a)
    BY <1>1, <1>2
  <1> QED BY <1>3 DEF Filled, StreamFrom

(* A step at one mirror keeps the others.                                  *)
Others(n) ==
  \A m \in Mirrors \ {n} : active'[m] =>
    /\ active[m] /\ slot'[m] = slot[m]
    /\ dec'[m] = dec[m] /\ ogg'[m] = ogg[m] /\ pcm'[m] = pcm[m]
    /\ want'[slot[m].gf] = want[slot[m].gf]

(* A step at one mirror keeps the order of every other one.                *)
LEMMA OtherFilled ==
  ASSUME KInv, NEW n \in Mirrors, Others(n), UNCHANGED wm, n = wm \/ UNCHANGED <<wpc, hand>>,
         Live(n)' => Filled(n)'
  PROVE  FilledInv'
  <1>1. ASSUME NEW m \in Mirrors, m # n, Live(m)' PROVE Live(m) /\ (Filled(m) => Keeps(m))
    <2>1. Live(m) /\ slot'[m] = slot[m]
      BY <1>1 DEF Live, Current, Others
    <2>2. Pending(m)' = Pending(m) /\ (Pending(m) => hand' = hand)
      BY <1>1 DEF Pending
    <2>3. wm' = m /\ wpc' \in {"decode", "publish"} => wm = m /\ wpc \in {"decode", "publish"}
      BY <1>1
    <2>4. Filled(m) => "next" \in DOMAIN dec[m]
      BY DEF Filled
    <2> QED BY <1>1, <2>1, <2>2, <2>3, <2>4 DEF Keeps, Others, Live
  <1>2. \A m \in Mirrors : Live(m)' => (Live(m) /\ (Filled(m) => Keeps(m))) \/ Filled(m)'
    BY <1>1
  <1> QED BY <1>2, StepFilled

(* A decode has the mirror of its state, and the others serve other states. *)
LEMMA ServingMirror ==
  ASSUME IInv, JInv, pc \in Serving
  PROVE  /\ cm \in Mirrors /\ Live(cm) /\ slot[cm].gf = cur /\ cur \in States
         /\ \A m \in Mirrors \ {cm} : active[m] => slot[m].gf # cur /\ slot[m].gf \in States
  <1>1. cm \in Lookup(cur) /\ Current(cm)
    BY DEF JInv, CallInv
  <1>2. cm \in Mirrors /\ active[cm] /\ slot[cm].gf = cur
    BY <1>1 DEF Lookup
  <1> QED BY <1>1, <1>2 DEF Live, IInv, SlotInv

(* The game thread holds the mirror: the worker has no frame of it.        *)
LEMMA HeldByGame ==
  ASSUME IInv, pc \in Holds PROVE wm = cm => wpc \notin Held
  BY DEF IInv, HoldInv, Shape

(* Frames that are ready are handed over in order.                         *)
LEMMA TakeReadyRings == ASSUME IInv, JInv, KInv, TakeReady PROVE Rings'
  <1> DEFINE k == Least(Avail(pcm[cm]), Request - call.n)
             w == want[cur]
             a == Avail(pcm[cm])
  <1>1. /\ pc = "take" /\ UNCHANGED <<cm, active, gs, slot, dec, ogg, wpc, wm, hand>>
        /\ pcm' = [pcm EXCEPT ![cm] = RingRead(pcm[cm], PcmSlots, k)]
        /\ want' = [want EXCEPT ![cur] = w + k]
    BY DEF TakeReady, Call, flags, worker, KInv, RingShape
  <1>2. /\ cm \in Mirrors /\ Live(cm) /\ slot[cm].gf = cur /\ cur \in States /\ cur \in Streams
        /\ \A m \in Mirrors \ {cm} : active[m] => slot[m].gf # cur /\ slot[m].gf \in States
    BY <1>1, ServingMirror DEF Serving, KInv, KindInv, Taking
  <1>3. /\ w \in Int /\ a \in Nat /\ StreamFrom(cm, w) /\ "next" \in DOMAIN dec[cm]
        /\ dec[cm].next \in Int /\ Avail(ogg[cm]) \in Nat /\ PcmSlots \in Nat
        /\ Length[cur] \in Nat
    BY <1>2, StreamFacts
  <1>4. k \in 0 .. a /\ k \in Nat
    <2>1. Request - call.n \in Nat
      BY <1>1, VorbisMirrorAssumption DEF KInv, CountInv, Taking
    <2> QED BY <1>3, <2>1 DEF Least
  <1> HIDE DEF k
  <1>5. InRing(RingRead(pcm[cm], PcmSlots, k), PcmSlots, w + k)
        /\ Avail(RingRead(pcm[cm], PcmSlots, k)) = a - k
    BY <1>3, <1>4, Sizes, ReadHolds DEF StreamFrom
  <1>6. pcm'[cm] = RingRead(pcm[cm], PcmSlots, k) /\ want'[cur] = w + k
    BY <1>1, <1>2 DEF KInv, RingShape
  <1>7. RingShape' /\ PosInv'
    BY <1>1, <1>3, <1>4 DEF KInv, RingShape, PosInv
  <1>8. Others(cm)
    BY <1>1, <1>2 DEF Others, KInv, RingShape
  <1>9. Filled(cm)'
    <2> DEFINE v == w + k
               c == a - k
               n == dec[cm].next
    <2>1. /\ v = want'[slot'[cm].gf] /\ slot'[cm].gf \in Streams /\ "next" \in DOMAIN dec'[cm]
          /\ Avail(pcm'[cm]) = c /\ InRing(pcm'[cm], PcmSlots, v)
          /\ dec'[cm].next = n /\ InRing(ogg'[cm], OggSlots, n)
          /\ slot'[cm].head = n + Avail(ogg'[cm])
          /\ n + Avail(ogg'[cm]) <= Length[slot'[cm].gf] + 1
      BY <1>1, <1>2, <1>3, <1>5, <1>6 DEF StreamFrom
    <2>2. /\ IF wm' = cm /\ wpc' = "publish" THEN n = v + c + 1 /\ hand' = v + c
                                             ELSE n = v + c + 0
          /\ wm' = cm /\ wpc' \in {"decode", "publish"} => c < PcmSlots
      <3>1. /\ IF wm = cm /\ wpc = "publish" THEN n = w + a + 1 /\ hand = w + a
                                             ELSE n = w + a + 0
            /\ wm = cm /\ wpc \in {"decode", "publish"} => a < PcmSlots
        BY <1>3 DEF StreamFrom, Due, Pending
      <3>2. v + c = w + a /\ c <= a
        BY <1>3, <1>4
      <3>3. n \in Int /\ v \in Int /\ c \in Int
        BY <1>3, <1>4
      <3> HIDE DEF n, v, c, a, w
      <3> QED BY <1>1, <1>3, <3>1, <3>2, <3>3
    <2> HIDE DEF v, c, n
    <2> QED BY <1>1, <1>2, <1>3, <2>1, <2>2, FillStream
  <1> QED BY <1>1, <1>2, <1>7, <1>8, <1>9, OtherFilled DEF Rings


(* A block that is read ahead continues the packets of the ring.           *)
LEMMA ToppedUpHolds ==
  ASSUME IInv, JInv, KInv, NEW m \in Mirrors, Live(m), slot[m].gf \in Streams
  PROVE  /\ Got(m) \in Nat
         /\ InRing(ToppedUp(m), OggSlots, dec[m].next)
         /\ Avail(ToppedUp(m)) = Avail(ogg[m]) + Got(m)
         /\ slot[m].head + Got(m) <= Length[slot[m].gf] + 1
  <1> DEFINE f == slot[m].gf
             b == Avail(ogg[m])
             h == slot[m].head
             g == Got(m)
             n == dec[m].next
  <1>1. /\ Length[f] \in Nat /\ b \in Nat /\ b <= OggSlots /\ OggSlots \in Nat /\ n \in Int
        /\ h = n + b /\ h <= Length[f] + 1 /\ InRing(ogg[m], OggSlots, n)
    BY StreamFacts DEF StreamFrom
  <1>2. ReadsAt(m) = h
    BY DEF ReadsAt, Stands, JInv, ServedInv, Live
  <1>3. g = Least(Least(OggSlots - b, Chunk), Length[f] + 1 - h)
    BY <1>2 DEF Got, TopUpSize, Unused
  <1> HIDE DEF f, b, h, n, g
  <1>4. g \in Nat /\ b + g <= OggSlots /\ h + g <= Length[f] + 1
    <2>1. Chunk \in Nat
      BY VorbisMirrorAssumption
    <2>2. OggSlots - b \in Nat /\ Length[f] + 1 - h \in Nat /\ h \in Int
      BY <1>1
    <2> DEFINE t == Least(OggSlots - b, Chunk)
    <2>3. t \in Nat /\ t <= OggSlots - b
      BY <2>1, <2>2 DEF Least
    <2> HIDE DEF t
    <2>4. g \in Nat /\ g <= t /\ g <= Length[f] + 1 - h
      BY <1>3, <2>2, <2>3 DEF Least, t
    <2> QED BY <1>1, <2>2, <2>3, <2>4
  <1>5. ToppedUp(m) = RingWrite(ogg[m], OggSlots, n + b, g)
    BY <1>1, <1>2 DEF ToppedUp, g, h
  <1>6. InRing(ToppedUp(m), OggSlots, n) /\ Avail(ToppedUp(m)) = b + g
    BY <1>1, <1>4, <1>5, Sizes, WriteHolds DEF b
  <1> QED BY <1>4, <1>6 DEF f, b, h, n, g

(* A mirror's slot after the stream was read                               *)
LEMMA TopUpSlot ==
  ASSUME IInv, NEW m \in Mirrors, TopUpMoves(m)
  PROVE  /\ slot'[m].gf = slot[m].gf /\ slot'[m].head = slot[m].head + Got(m)
         /\ \A n \in Mirrors : n # m => slot'[n] = slot[n]
  BY DEF IInv, Shape, SlotShape, Fields, TopUpMoves

(* What the decoder has behind it, and the worker in its hand              *)
LEMMA StreamCounts ==
  ASSUME IInv, KInv, NEW m \in Mirrors, Live(m), slot[m].gf \in Streams
  PROVE  /\ IF wm = m /\ wpc = "publish"
            THEN /\ dec[m].next = want[slot[m].gf] + Avail(pcm[m]) + 1
                 /\ hand = want[slot[m].gf] + Avail(pcm[m])
            ELSE dec[m].next = want[slot[m].gf] + Avail(pcm[m]) + 0
         /\ wm = m /\ wpc \in {"decode", "publish"} => Avail(pcm[m]) < PcmSlots
  <1>1. StreamFrom(m, want[slot[m].gf])
    BY StreamFacts
  <1> QED BY <1>1 DEF StreamFrom, Due, Pending

(* The game thread reads ahead.                                            *)
LEMMA TopUpRings == ASSUME IInv, JInv, KInv, TopUp PROVE Rings'
  <1>1. /\ pc = "topup" /\ UNCHANGED <<active, gs, want, dec, pcm, wpc, wm, hand>>
    BY DEF TopUp, flags, worker
  <1>2. CASE ~CanTopUp(cm)
    <2>1. UNCHANGED <<slot, ogg>>
      BY <1>2 DEF TopUp
    <2> QED BY <1>1, <2>1, StillRings
  <1>3. CASE CanTopUp(cm)
    <2>1. PICK m \in Mirrors : m = cm
      BY DEF IInv, Shape
    <2>2. TopUpMoves(m) /\ ogg' = [ogg EXCEPT ![m] = ToppedUp(m)]
      BY <1>3, <2>1 DEF TopUp
    <2>3. /\ Live(m) /\ slot[m].gf = cur /\ cur \in States /\ cur \in Streams
      BY <1>1, <2>1, ServingMirror DEF Serving, KInv, KindInv
    <2>4. /\ Length[cur] \in Nat /\ dec[m].next \in Int /\ "next" \in DOMAIN dec[m]
          /\ InRing(pcm[m], PcmSlots, want[cur])
          /\ Avail(ogg[m]) \in Nat /\ slot[m].head = dec[m].next + Avail(ogg[m])
      BY <2>3, StreamFacts DEF StreamFrom
    <2>5. /\ Got(m) \in Nat
          /\ InRing(ToppedUp(m), OggSlots, dec[m].next)
          /\ Avail(ToppedUp(m)) = Avail(ogg[m]) + Got(m)
          /\ slot[m].head + Got(m) <= Length[cur] + 1
      BY <2>3, ToppedUpHolds
    <2>6. ogg'[m] = ToppedUp(m)
      BY <2>2 DEF KInv, RingShape
    <2>7. /\ slot'[m].gf = cur /\ slot'[m].head = slot[m].head + Got(m)
          /\ \A n \in Mirrors : n # m => slot'[n] = slot[n]
      BY <2>2, <2>3, TopUpSlot
    <2>8. slot'[m].head = dec[m].next + Avail(ogg'[m])
      <3> DEFINE x == dec[m].next
                 b == Avail(ogg[m])
                 g == Got(m)
      <3>1. x \in Int /\ b \in Int /\ g \in Int /\ slot'[m].head = (x + b) + g
        BY <2>4, <2>5, <2>7
      <3>2. Avail(ogg'[m]) = b + g
        BY <2>5, <2>6
      <3> HIDE DEF x, b, g
      <3>3. (x + b) + g = x + (b + g)
        BY <3>1
      <3> QED BY <3>1, <3>2, <3>3 DEF x
    <2>9. Filled(m)'
      <3>1. /\ slot'[m].gf \in Streams /\ "next" \in DOMAIN dec'[m]
            /\ InRing(pcm'[m], PcmSlots, want'[slot'[m].gf])
            /\ InRing(ogg'[m], OggSlots, dec'[m].next)
            /\ slot'[m].head = dec'[m].next + Avail(ogg'[m])
            /\ slot'[m].head <= Length[slot'[m].gf] + 1
        BY <1>1, <2>3, <2>4, <2>5, <2>6, <2>7, <2>8
      <3>2. /\ want'[slot'[m].gf] = want[slot[m].gf]
            /\ pcm'[m] = pcm[m] /\ dec'[m] = dec[m] /\ UNCHANGED <<wpc, wm, hand>>
        BY <1>1, <2>3, <2>7
      <3> QED BY <2>3, <3>1, <3>2, StreamCounts, FillStream
    <2>10. Others(m)
      BY <1>1, <2>2, <2>7 DEF Others, KInv, RingShape
    <2>11. RingShape' /\ PosInv'
      BY <1>1, <2>2 DEF KInv, RingShape, PosInv
    <2> QED BY <1>1, <2>9, <2>10, <2>11, OtherFilled DEF Rings
  <1> QED BY <1>2, <1>3

(* A sample's frames are handed over as they are decoded.                  *)
LEMMA MemoryRings == ASSUME IInv, JInv, KInv, MemoryDecodes PROVE Rings'
  <1>1. pc = "sample" /\ UNCHANGED <<active, gs, slot, ogg, pcm, wpc, wm, hand>>
    BY DEF MemoryDecodes, flags, worker
  <1>2. PICK m \in Mirrors : m = cm
    BY DEF IInv, Shape
  <1> DEFINE k == Least(Request, Length[cur] + 1 - dec[m].next)
             e == k < Request \/ dec[m].eof
             w == want[cur]
  <1>3. \/ dec' = [dec EXCEPT ![m].next = @ + k, ![m].eof = e] /\ want' = [want EXCEPT ![cur] = w + k]
        \/ dec' = [dec EXCEPT ![m].broken = TRUE] /\ UNCHANGED want
    BY <1>2 DEF MemoryDecodes, KInv, RingShape
  <1>4. /\ Live(m) /\ slot[m].gf = cur /\ cur \in States /\ cur \notin Streams
        /\ \A n \in Mirrors \ {m} : active[n] => slot[n].gf # cur /\ slot[n].gf \in States
    BY <1>1, <1>2, ServingMirror DEF Serving, KInv, KindInv
  <1>5. SampleFrom(m, w) /\ "next" \in DOMAIN dec[m] /\ w \in Int
    BY <1>4 DEF KInv, FilledInv, Filled, RingShape
  <1>6. k \in Int
    <2>1. Length[cur] \in Int /\ Request \in Int /\ dec[m].next \in Int
      BY <1>4, <1>5, VorbisMirrorAssumption DEF SampleFrom
    <2> QED BY <2>1 DEF Least
  <1> HIDE DEF k, e, w
  <1>7. \/ dec'[m].next = dec[m].next + k /\ want'[cur] = w + k
        \/ dec'[m].next = dec[m].next /\ want'[cur] = w
    BY <1>3, <1>4, <1>5 DEF KInv, RingShape, w
  <1>8. "next" \in DOMAIN dec'[m]
    BY <1>3, <1>5 DEF KInv, RingShape
  <1>9. RingShape' /\ PosInv'
    <2>1. DOMAIN want' = States /\ \A f \in States : want'[f] \in Int
      BY <1>3, <1>4, <1>5, <1>6 DEF KInv, RingShape
    <2> QED BY <1>1, <1>3, <2>1 DEF KInv, RingShape, PosInv
  <1>10. Others(m)
    BY <1>1, <1>3, <1>4 DEF Others, KInv, RingShape
  <1>11. Filled(m)'
    <2> DEFINE v == want'[cur]
    <2>1. v \in Int /\ dec'[m].next = v
      BY <1>4, <1>5, <1>6, <1>7, <1>9 DEF SampleFrom, RingShape
    <2>2. InRing(pcm[m], PcmSlots, v) /\ Avail(pcm[m]) = 0
      BY <1>5, <2>1 DEF SampleFrom, InRing
    <2>3. slot'[m].gf = cur /\ pcm'[m] = pcm[m]
      BY <1>1, <1>4
    <2>4. InRing(pcm'[m], PcmSlots, v) /\ Avail(pcm'[m]) = 0
      BY <2>2, <2>3
    <2> QED BY <1>4, <1>8, <2>1, <2>3, <2>4 DEF Filled, SampleFrom
  <1> QED BY <1>1, <1>9, <1>10, <1>11, OtherFilled DEF Rings


(* One packet becomes one frame, behind those that are ready.              *)
LEMMA FrameRings == ASSUME IInv, JInv, KInv, FrameHere PROVE Rings'
  <1>1. pc = "frame" /\ CanDecode(cm) /\ UNCHANGED <<active, gs, want, wpc, wm, hand>>
    BY DEF FrameHere, flags, worker
  <1>2. PICK m \in Mirrors : m = cm
    BY DEF IInv, Shape
  <1> DEFINE short == Avail(ogg[m]) = 0 /\ ~dec[m].ogg_eof
             r == IF short THEN ToppedUp(m) ELSE ogg[m]
             d == [dec[m] EXCEPT !.ogg_eof = @ \/ (short /\ Got(m) < TopUpSize(m))]
             x == dec[m].next
             w == want[cur]
             a == Avail(pcm[m])
             b == Avail(r)
             h == slot'[m].head
  <1>3. /\ IF short THEN TopUpMoves(m) ELSE UNCHANGED slot
        /\ \/ /\ Avail(r) > 0
              /\ ogg' = [ogg EXCEPT ![m] = RingRead(r, OggSlots, 1)]
              /\ pcm' = [pcm EXCEPT ![m] = RingWrite(pcm[m], PcmSlots, Sound(d, r), 1)]
              /\ dec' = [dec EXCEPT ![m] = Decoded(d)]
           \/ /\ dec' = [dec EXCEPT ![m] = [(IF Avail(r) = 0 THEN RunsDry(d) ELSE Broken(d))
                                               EXCEPT !.pcm_eof = TRUE]]
              /\ ogg' = [ogg EXCEPT ![m] = r] /\ UNCHANGED pcm
    BY <1>2 DEF FrameHere, KInv, RingShape
  <1>4. /\ Live(m) /\ slot[m].gf = cur /\ cur \in States /\ cur \in Streams
    BY <1>1, <1>2, ServingMirror DEF Serving, KInv, KindInv, Taking
  <1>5. /\ Length[cur] \in Nat /\ x \in Int /\ "next" \in DOMAIN dec[m] /\ w \in Int /\ a \in Nat
        /\ InRing(pcm[m], PcmSlots, w) /\ InRing(ogg[m], OggSlots, x)
        /\ Avail(ogg[m]) \in Nat /\ slot[m].head = x + Avail(ogg[m])
        /\ slot[m].head <= Length[cur] + 1 /\ PcmSlots \in Nat
    BY <1>4, StreamFacts DEF StreamFrom
  <1>6. wm = m => wpc \notin {"decode", "publish"}
    BY <1>1, <1>2, HeldByGame DEF Holds, Held
  <1>7. x = w + a + 0 /\ a < PcmSlots
    <2>1. x = w + a + 0
      BY <1>4, <1>6, StreamCounts
    <2>2. PcmSlots - a > 0
      BY <1>1, <1>2 DEF CanDecode, Unused
    <2> QED BY <1>5, <2>1, <2>2
  <1>8. "next" \in DOMAIN d /\ d.next = x
    BY <1>5
  <1>9. /\ InRing(r, OggSlots, x) /\ h = x + b /\ h <= Length[cur] + 1 /\ slot'[m].gf = cur
        /\ \A n \in Mirrors : n # m => slot'[n] = slot[n]
    <2>1. CASE short
      <3>1. /\ Got(m) \in Nat
            /\ InRing(ToppedUp(m), OggSlots, x)
            /\ Avail(ToppedUp(m)) = Avail(ogg[m]) + Got(m)
            /\ slot[m].head + Got(m) <= Length[cur] + 1
        BY <1>4, ToppedUpHolds
      <3>2. /\ slot'[m].gf = cur /\ slot'[m].head = slot[m].head + Got(m)
            /\ \A n \in Mirrors : n # m => slot'[n] = slot[n]
        BY <1>3, <1>4, <2>1, TopUpSlot
      <3>3. r = ToppedUp(m)
        BY <2>1
      <3> DEFINE c == Avail(ogg[m])
                 g == Got(m)
                 p == slot[m].head
      <3>4. x \in Int /\ c \in Int /\ g \in Int /\ p = x + c /\ h = p + g /\ b = c + g
        BY <1>5, <3>1, <3>2, <3>3
      <3>5. h = x + b
        <4> HIDE DEF x, c, g, p, h, b
        <4> QED BY <3>4
      <3> QED BY <3>1, <3>2, <3>3, <3>5
    <2>2. CASE ~short
      BY <1>3, <1>4, <1>5, <2>2
    <2> QED BY <2>1, <2>2
  <1> HIDE DEF short, r, d
  <1>10. b \in Nat
    BY <1>9, HeldNumber DEF InRing
  <1>11. RingShape' /\ PosInv'
    BY <1>1, <1>3 DEF KInv, RingShape, PosInv
  <1>12. Others(m)
    BY <1>1, <1>3, <1>9 DEF Others, KInv, RingShape
  <1>13. CASE Avail(r) > 0 /\ ogg' = [ogg EXCEPT ![m] = RingRead(r, OggSlots, 1)]
              /\ pcm' = [pcm EXCEPT ![m] = RingWrite(pcm[m], PcmSlots, Sound(d, r), 1)]
              /\ dec' = [dec EXCEPT ![m] = Decoded(d)]
    <2>1. Sound(d, r) = w + a
      <3>1. Front(r, OggSlots) = x
        BY <1>5, <1>9, <1>13, FrontIs
      <3> QED BY <1>5, <1>7, <1>8, <3>1 DEF Sound
    <2>2. InRing(RingRead(r, OggSlots, 1), OggSlots, x + 1)
          /\ Avail(RingRead(r, OggSlots, 1)) = b - 1
      <3>1. 1 \in 0 .. Avail(r)
        BY <1>10, <1>13
      <3> QED BY <1>5, <1>9, <3>1, Sizes, ReadHolds
    <2>3. InRing(RingWrite(pcm[m], PcmSlots, w + a, 1), PcmSlots, w)
          /\ Avail(RingWrite(pcm[m], PcmSlots, w + a, 1)) = a + 1
      <3>1. 1 \in Nat /\ Avail(pcm[m]) + 1 <= PcmSlots
        BY <1>5, <1>7
      <3> QED BY <1>5, <3>1, Sizes, WriteHolds
    <2>4. /\ ogg'[m] = RingRead(r, OggSlots, 1) /\ pcm'[m] = RingWrite(pcm[m], PcmSlots, w + a, 1)
          /\ dec'[m].next = x + 1 /\ "next" \in DOMAIN dec'[m]
      BY <1>8, <1>13, <2>1 DEF KInv, RingShape, Decoded
    <2>5. h = (x + 1) + Avail(ogg'[m]) /\ x + 1 = w + Avail(pcm'[m]) + 0
      <3>1. Avail(ogg'[m]) = b - 1 /\ Avail(pcm'[m]) = a + 1
        BY <2>2, <2>3, <2>4
      <3> HIDE DEF x, b, a, w, h
      <3> QED BY <1>5, <1>7, <1>9, <1>10, <3>1
    <2>6. wm' = m => wpc' \notin {"decode", "publish"}
      BY <1>1, <1>6
    <2>7. want'[slot'[m].gf] = w /\ slot'[m].gf \in Streams
      BY <1>1, <1>4, <1>9
    <2>8. Filled(m)'
      BY <1>9, <2>2, <2>3, <2>4, <2>5, <2>6, <2>7, FillStream
    <2> QED BY <1>1, <1>11, <1>12, <2>8, OtherFilled DEF Rings
  <1>14. CASE /\ dec' = [dec EXCEPT ![m] = [(IF Avail(r) = 0 THEN RunsDry(d) ELSE Broken(d))
                                               EXCEPT !.pcm_eof = TRUE]]
              /\ ogg' = [ogg EXCEPT ![m] = r] /\ UNCHANGED pcm
    <2>1. /\ ogg'[m] = r /\ pcm'[m] = pcm[m] /\ dec'[m].next = x /\ "next" \in DOMAIN dec'[m]
      BY <1>8, <1>14 DEF KInv, RingShape, RunsDry, Broken
    <2>2. wm' = m => wpc' \notin {"decode", "publish"}
      BY <1>1, <1>6
    <2>3. want'[slot'[m].gf] = w /\ slot'[m].gf \in Streams
      BY <1>1, <1>4, <1>9
    <2>4. Filled(m)'
      BY <1>5, <1>7, <1>9, <2>1, <2>2, <2>3, FillStream
    <2> QED BY <1>1, <1>11, <1>12, <2>4, OtherFilled DEF Rings
  <1> QED BY <1>3, <1>13, <1>14

(* The worker decodes a packet, and holds the frame.                       *)
LEMMA WorkerDecodesRings == ASSUME IInv, JInv, KInv, WorkerDecodes PROVE Rings'
  <1>1. /\ wpc = "decode" /\ wpc' = "publish" /\ Avail(ogg[wm]) > 0
        /\ UNCHANGED <<active, gs, want, slot, pcm, wm>>
    BY DEF WorkerDecodes, guest, flags
  <1>2. PICK m \in Mirrors : m = wm
    BY DEF IInv, Shape
  <1>3. /\ hand' = Sound(dec[m], ogg[m])
        /\ ogg' = [ogg EXCEPT ![m] = RingRead(ogg[m], OggSlots, 1)]
        /\ dec' = [dec EXCEPT ![m] = Decoded(dec[m])]
    BY <1>2 DEF WorkerDecodes, KInv, RingShape
  <1>4. RingShape' /\ PosInv'
    BY <1>1, <1>3 DEF KInv, RingShape, PosInv
  <1>5. Others(m)
    BY <1>1, <1>3 DEF Others, KInv, RingShape
  <1>6. ASSUME Live(m) PROVE Filled(m)'
    <2> DEFINE f == slot[m].gf
               w == want[f]
               a == Avail(pcm[m])
               b == Avail(ogg[m])
               x == dec[m].next
    <2>1. f \in Streams
      <3>1. slot[m].mode = "stream"
        BY <1>1, <1>2 DEF IInv, WorkInv, AtWork
      <3> QED BY <1>6, <3>1 DEF JInv, ModeInv, Live
    <2>2. /\ Length[f] \in Nat /\ x \in Int /\ "next" \in DOMAIN dec[m] /\ w \in Int /\ a \in Nat
          /\ InRing(pcm[m], PcmSlots, w) /\ InRing(ogg[m], OggSlots, x)
          /\ b \in Nat /\ slot[m].head = x + b
          /\ slot[m].head <= Length[f] + 1 /\ PcmSlots \in Nat
      BY <1>6, <2>1, StreamFacts DEF StreamFrom
    <2>3. x = w + a + 0 /\ a < PcmSlots
      BY <1>1, <1>2, <1>6, <2>1, StreamCounts
    <2>4. hand' = x
      <3>1. Front(ogg[m], OggSlots) = x
        BY <1>1, <1>2, <2>2, FrontIs
      <3> QED BY <1>3, <3>1 DEF Sound
    <2>5. InRing(RingRead(ogg[m], OggSlots, 1), OggSlots, x + 1)
          /\ Avail(RingRead(ogg[m], OggSlots, 1)) = b - 1
      <3>1. 1 \in 0 .. b
        BY <1>1, <1>2, <2>2
      <3> QED BY <2>2, <3>1, Sizes, ReadHolds
    <2>6. /\ ogg'[m] = RingRead(ogg[m], OggSlots, 1) /\ pcm'[m] = pcm[m] /\ slot'[m] = slot[m]
          /\ dec'[m].next = x + 1 /\ "next" \in DOMAIN dec'[m] /\ want'[slot'[m].gf] = w
      BY <1>1, <1>3, <2>2 DEF KInv, RingShape, Decoded
    <2>7. /\ slot'[m].head = (x + 1) + Avail(ogg'[m]) /\ x + 1 = w + Avail(pcm'[m]) + 1
          /\ hand' = w + Avail(pcm'[m])
      <3>1. Avail(ogg'[m]) = b - 1 /\ Avail(pcm'[m]) = a /\ slot'[m].head = x + b
        BY <2>2, <2>5, <2>6
      <3> HIDE DEF x, b, a, w
      <3> QED BY <2>2, <2>3, <2>4, <3>1
    <2>8. /\ slot'[m].gf \in Streams /\ InRing(pcm'[m], PcmSlots, w)
          /\ InRing(ogg'[m], OggSlots, x + 1) /\ slot'[m].head <= Length[slot'[m].gf] + 1
          /\ Avail(pcm'[m]) < PcmSlots
      BY <2>1, <2>2, <2>3, <2>5, <2>6
    <2> HIDE DEF x, w
    <2> QED BY <1>1, <1>2, <2>6, <2>7, <2>8, FillStream
  <1>7. Live(m)' => Live(m)
    BY <1>1 DEF Live, Current
  <1> QED BY <1>1, <1>2, <1>4, <1>5, <1>6, <1>7, OtherFilled DEF Rings

(* It begins on a packet when the frame will have a place,                 *)
LEMMA FillRings == ASSUME IInv, JInv, KInv, Fill, wpc' = "decode" PROVE Rings'
  <1>1. /\ wpc = "fill" /\ Unused(pcm[wm], PcmSlots) > 0
        /\ UNCHANGED <<active, gs, want, slot, dec, ogg, pcm, wm, hand>>
    BY DEF Fill, Work, guest, flags, mirror
  <1>2. PICK m \in Mirrors : m = wm
    BY DEF IInv, Shape
  <1>3. RingShape' /\ PosInv'
    BY <1>1 DEF KInv, RingShape, PosInv
  <1>4. Others(m)
    BY <1>1 DEF Others
  <1>5. ASSUME Live(m) PROVE Filled(m)'
    <2> DEFINE f == slot[m].gf
    <2>1. f \in Streams
      <3>1. slot[m].mode = "stream"
        BY <1>1, <1>2 DEF IInv, WorkInv, AtWork
      <3> QED BY <1>5, <3>1 DEF JInv, ModeInv, Live
    <2>2. StreamFrom(m, want[f]) /\ "next" \in DOMAIN dec[m] /\ Avail(pcm[m]) \in Nat
          /\ PcmSlots \in Nat
      BY <1>5, <2>1, StreamFacts
    <2>3. dec[m].next = want[f] + Avail(pcm[m]) + 0
      BY <1>1, <1>5, <2>1, StreamCounts
    <2>4. Avail(pcm[m]) < PcmSlots
      <3>1. PcmSlots - Avail(pcm[m]) > 0
        BY <1>1, <1>2 DEF Unused
      <3> QED BY <2>2, <3>1
    <2>5. /\ slot'[m] = slot[m] /\ pcm'[m] = pcm[m] /\ ogg'[m] = ogg[m] /\ dec'[m] = dec[m]
          /\ want'[slot'[m].gf] = want[f]
      BY <1>1
    <2>6. /\ InRing(pcm'[m], PcmSlots, want'[slot'[m].gf])
          /\ InRing(ogg'[m], OggSlots, dec'[m].next)
          /\ slot'[m].head = dec'[m].next + Avail(ogg'[m])
          /\ slot'[m].head <= Length[slot'[m].gf] + 1
          /\ dec'[m].next = want'[slot'[m].gf] + Avail(pcm'[m]) + 0
          /\ Avail(pcm'[m]) < PcmSlots
      BY <2>2, <2>3, <2>4, <2>5 DEF StreamFrom
    <2> QED BY <2>1, <2>2, <2>5, <2>6, FillStream
  <1>6. Live(m)' => Live(m)
    BY <1>1 DEF Live, Current
  <1> QED BY <1>1, <1>2, <1>3, <1>4, <1>5, <1>6, OtherFilled DEF Rings

(* and publishes the frame behind those that are ready.                    *)
LEMMA PublishRings == ASSUME IInv, JInv, KInv, Publish PROVE Rings'
  <1>1. /\ wpc = "publish" /\ wpc' = "fill"
        /\ UNCHANGED <<active, gs, want, slot, dec, ogg, wm>>
    BY DEF Publish, guest, flags
  <1>2. PICK m \in Mirrors : m = wm
    BY DEF IInv, Shape
  <1>3. pcm' = [pcm EXCEPT ![m] = RingWrite(pcm[m], PcmSlots, hand, 1)]
    BY <1>2 DEF Publish, KInv, RingShape
  <1>4. RingShape' /\ PosInv'
    BY <1>1, <1>3 DEF KInv, RingShape, PosInv
  <1>5. Others(m)
    BY <1>1, <1>3 DEF Others, KInv, RingShape
  <1>6. ASSUME Live(m) PROVE Filled(m)'
    <2> DEFINE f == slot[m].gf
               w == want[f]
               a == Avail(pcm[m])
    <2>1. f \in Streams
      <3>1. slot[m].mode = "stream"
        BY <1>1, <1>2 DEF IInv, WorkInv, AtWork
      <3> QED BY <1>6, <3>1 DEF JInv, ModeInv, Live
    <2>2. /\ "next" \in DOMAIN dec[m] /\ w \in Int /\ a \in Nat /\ InRing(pcm[m], PcmSlots, w)
          /\ StreamFrom(m, w) /\ PcmSlots \in Nat
      BY <1>6, <2>1, StreamFacts DEF StreamFrom
    <2>3. dec[m].next = w + a + 1 /\ hand = w + a /\ a < PcmSlots
      BY <1>1, <1>2, <1>6, <2>1, StreamCounts
    <2>4. InRing(RingWrite(pcm[m], PcmSlots, w + a, 1), PcmSlots, w)
          /\ Avail(RingWrite(pcm[m], PcmSlots, w + a, 1)) = a + 1
      <3>1. 1 \in Nat /\ Avail(pcm[m]) + 1 <= PcmSlots
        BY <2>2, <2>3
      <3> QED BY <2>2, <3>1, Sizes, WriteHolds
    <2>5. pcm'[m] = RingWrite(pcm[m], PcmSlots, w + a, 1)
      BY <1>3, <2>3 DEF KInv, RingShape
    <2>6. /\ slot'[m] = slot[m] /\ ogg'[m] = ogg[m] /\ dec'[m] = dec[m]
          /\ want'[slot'[m].gf] = w
      BY <1>1
    <2>7. /\ InRing(pcm'[m], PcmSlots, w) /\ Avail(pcm'[m]) = a + 1
      BY <2>4, <2>5
    <2>8. dec'[m].next = w + Avail(pcm'[m]) + 0
      <3> HIDE DEF w, a
      <3> QED BY <2>2, <2>3, <2>6, <2>7
    <2>9. /\ InRing(ogg'[m], OggSlots, dec'[m].next)
          /\ slot'[m].head = dec'[m].next + Avail(ogg'[m])
          /\ slot'[m].head <= Length[slot'[m].gf] + 1
      BY <2>2, <2>6 DEF StreamFrom
    <2> QED BY <1>1, <2>1, <2>2, <2>6, <2>7, <2>8, <2>9, FillStream
  <1>7. Live(m)' => Live(m)
    BY <1>1 DEF Live, Current
  <1> QED BY <1>1, <1>2, <1>4, <1>5, <1>6, <1>7, OtherFilled DEF Rings


(* A clone begins where the guest's state is: with the frame it holds      *)
(* decoded, or with the next packet.                                       *)
LEMMA CloneRings == ASSUME IInv, JInv, KInv, Clone PROVE Rings'
  <1>1. PICK m \in Mirrors : m = cm
    BY DEF IInv, Shape
  <1> DEFINE s == gs[cur]
             first == s.pos - (IF s.held THEN 1 ELSE 0)
             streams == cur \in Streams
             x == IF streams THEN s.pos ELSE first
             ring == IF s.held /\ streams
                     THEN RingWrite(RingReset(PcmSlots), PcmSlots, first, 1)
                     ELSE RingReset(PcmSlots)
  <1>2. /\ pc = "clone" /\ pc' = "ready" /\ UNCHANGED <<gs, phys, cur, cm, wpc, wm, hand>>
        /\ active' = [active EXCEPT ![m] = TRUE]
        /\ dec' = [dec EXCEPT ![m] = [Decoder EXCEPT !.next = x]]
        /\ ogg' = [ogg EXCEPT ![m] = RingReset(OggSlots)]
        /\ pcm' = [pcm EXCEPT ![m] = ring]
        /\ want' = [want EXCEPT ![cur] = first]
    BY <1>1 DEF Clone, Goto, Changes, Set
  <1>3. /\ cur \in States /\ Streams \subseteq States /\ DOMAIN active = Mirrors
        /\ Lookup(cur) \subseteq {m}
    BY <1>1, <1>2, VorbisMirrorAssumption DEF IInv, Shape, JInv, CallInv
  <1>4. s \in GuestState /\ s.pos \in Int /\ s.held \in BOOLEAN /\ first \in Int /\ Length[cur] \in Nat
    <2>1. s \in GuestState /\ Length[cur] \in Nat
      BY <1>3, VorbisMirrorAssumption DEF JInv, GuestShape
    <2> QED BY <2>1 DEF GuestState
  <1>5. /\ slot'[m].gf = cur /\ slot'[m].head = phys[cur]
        /\ \A n \in Mirrors : n # m => slot'[n] = slot[n]
    BY <1>1, <1>2 DEF Clone, IInv, Shape, SlotShape, Fields
  <1>6. streams => phys[cur] = s.pos /\ s.pos <= Length[cur] + 1
    <2>1. ~ReadAhead(cur) /\ ~Closing(cur)
      BY <1>1, <1>2, <1>3 DEF ReadAhead, Synced, Closing
    <2> QED BY <2>1 DEF JInv, BackInv, KInv, PosInv
  <1>7. wm = m => wpc \notin {"decode", "publish"}
    BY <1>1, <1>2, HeldByGame DEF Holds, Held
  <1>8. InRing(ring, PcmSlots, first) /\ Avail(ring) = IF s.held /\ streams THEN 1 ELSE 0
    <2> DEFINE e == RingReset(PcmSlots)
    <2>1. InRing(e, PcmSlots, first) /\ Avail(e) = 0
      BY <1>4, Sizes, ResetHolds
    <2>2. first + Avail(e) = first /\ Avail(e) + 1 = 1 /\ 1 \in Nat /\ Avail(e) + 1 <= PcmSlots
      BY <1>4, <2>1, Sizes DEF Size
    <2>3. /\ InRing(RingWrite(e, PcmSlots, first + Avail(e), 1), PcmSlots, first)
          /\ Avail(RingWrite(e, PcmSlots, first + Avail(e), 1)) = Avail(e) + 1
      BY <1>4, <2>1, <2>2, Sizes, WriteHolds
    <2>4. /\ InRing(RingWrite(e, PcmSlots, first, 1), PcmSlots, first)
          /\ Avail(RingWrite(e, PcmSlots, first, 1)) = 1
      BY <2>2, <2>3
    <2> QED BY <2>1, <2>4
  <1>9. x \in Int /\ InRing(RingReset(OggSlots), OggSlots, x) /\ Avail(RingReset(OggSlots)) = 0
    <2>1. x \in Int
      BY <1>4
    <2> QED BY <2>1, Sizes, ResetHolds
  <1> HIDE DEF ring
  <1>10. /\ dec'[m].next = x /\ "next" \in DOMAIN dec'[m] /\ pcm'[m] = ring
         /\ ogg'[m] = RingReset(OggSlots) /\ want'[cur] = first
    BY <1>2, <1>3 DEF KInv, RingShape, Decoder
  <1>11. ASSUME streams PROVE Filled(m)'
    <2>1. x = first + Avail(pcm'[m]) + 0
      BY <1>4, <1>8, <1>10, <1>11
    <2>2. phys[cur] = x + Avail(ogg'[m]) /\ phys[cur] <= Length[cur] + 1
      BY <1>4, <1>6, <1>9, <1>10, <1>11
    <2> HIDE DEF x, first, streams
    <2>3. wm' = m => wpc' \notin {"decode", "publish"}
      BY <1>2, <1>7
    <2>4. /\ slot'[m].gf \in Streams /\ want'[slot'[m].gf] = first
          /\ InRing(pcm'[m], PcmSlots, first) /\ InRing(ogg'[m], OggSlots, x)
          /\ slot'[m].head = x + Avail(ogg'[m]) /\ slot'[m].head <= Length[slot'[m].gf] + 1
      BY <1>5, <1>8, <1>9, <1>10, <1>11, <2>2 DEF streams
    <2> QED BY <1>10, <2>1, <2>3, <2>4, FillStream
  <1>12. ASSUME ~streams PROVE Filled(m)'
    <2>1. /\ slot'[m].gf = cur /\ cur \notin Streams /\ dec'[m].next = first
          /\ InRing(pcm'[m], PcmSlots, first) /\ Avail(pcm'[m]) = 0
      BY <1>5, <1>8, <1>10, <1>12
    <2> QED BY <1>10, <2>1 DEF Filled, SampleFrom
  <1>13. Others(m)
    <2> SUFFICES ASSUME NEW n \in Mirrors, n # m, active'[n]
                 PROVE  /\ active[n] /\ slot'[n] = slot[n]
                        /\ dec'[n] = dec[n] /\ ogg'[n] = ogg[n] /\ pcm'[n] = pcm[n]
                        /\ want'[slot[n].gf] = want[slot[n].gf]
      BY DEF Others
    <2>1. active[n]
      BY <1>2, <1>3
    <2>2. slot[n].gf # cur
      BY <1>3, <2>1 DEF Lookup
    <2> QED BY <1>2, <1>5, <2>1, <2>2 DEF KInv, RingShape
  <1>14. RingShape' /\ PosInv'
    <2>1. DOMAIN want' = States /\ \A f \in States : want'[f] \in Int
      BY <1>2, <1>3, <1>4 DEF KInv, RingShape
    <2> QED BY <1>2, <2>1 DEF KInv, RingShape, PosInv
  <1> QED BY <1>2, <1>11, <1>12, <1>13, <1>14, OtherFilled DEF Rings

-----------------------------------------------------------------------------
(* Every step keeps the order.                                             *)
LEMMA InCallRings == ASSUME IInv, JInv, KInv, InCall PROVE Rings'
  <1>1. CASE \/ (\E f \in States : pc = "pump" /\ Pump(f)) \/ CloseState
             \/ Quiesced \/ QuiesceFails \/ Retire \/ RetireReleases \/ RetireClears
    BY <1>1, GuestRings, TranslatedRings, CallRings, LeaveRings
  <1>2. CASE \/ Take \/ Evict \/ PoolFull \/ Claim \/ PoolBusy \/ Clone \/ Ready
             \/ Reject \/ RejectReleases \/ Rejected
    BY <1>2, CallRings, CloneRings, LeaveRings
  <1>3. CASE \/ TopUp \/ TopUpEnd \/ TakeReady \/ AtEnd \/ BudgetSpent
             \/ (\E late \in BOOLEAN : Look(late))
             \/ TryAcquire \/ TryAgain \/ GiveUp \/ FrameHere \/ NoFrameHere
    BY <1>3, TopUpRings, NoteRings, TakeReadyRings, CallRings, FrameRings
  <1>4. CASE \/ Unbusy \/ Unwait \/ AfterFrame \/ Leave
             \/ MemoryAcquire \/ MemoryTimesOut \/ MemoryDecodes \/ MemoryReleases
             \/ DropMirror \/ Return \/ Translated
    BY <1>4, CallRings, NoteRings, MemoryRings, TranslatedRings
  <1> QED BY <1>1, <1>2, <1>3, <1>4 DEF InCall

(* The worker's steps do, too.                                             *)
LEMMA WorkerRings == ASSUME IInv, JInv, KInv, Worker PROVE Rings'
  <1>1. CASE Fill
    BY <1>1, FillRings, WorkRings
  <1> QED BY <1>1, WorkRings, WorkerDecodesRings, PublishRings DEF Worker

(* And so does every step of both threads.                                 *)
LEMMA NextFilled == IInv /\ JInv /\ KInv /\ [Next]_vars => KInv'
  <1> SUFFICES ASSUME IInv, JInv, KInv, [Next]_vars PROVE KInv' OBVIOUS
  <1>1. CountInv' /\ KindInv'
    BY NextCounts
  <1>2. Rings'
    <2>1. CASE Guest
      BY <2>1, GuestRings, CallRings DEF Guest
    <2>2. CASE LonePump
      BY <2>2, GuestRings DEF LonePump
    <2>3. CASE UNCHANGED vars
      <3>1. UNCHANGED <<active, want, gs, slot, dec, ogg, pcm, wpc, wm, hand>>
        BY <2>3 DEF vars, guest, flags, mirror, worker
      <3> QED BY <3>1, StillRings
    <2> QED BY <2>1, <2>2, <2>3, InCallRings, WorkerRings DEF Next
  <1> QED BY <1>1, <1>2 DEF KInv, Rings

(* The frames between a listener and the file hold in every behaviour.     *)
THEOREM OrderInvariance == ASSUME DecodesSoon PROVE Spec => [](IInv /\ JInv /\ KInv)
  <1>1. Init => IInv /\ JInv /\ KInv
    BY InitInv, InitBack, InitFilled
  <1>2. (IInv /\ JInv /\ KInv) /\ [Next]_vars => (IInv /\ JInv /\ KInv)'
    BY NextInv, NextBack, NextFilled
  <1> QED BY <1>1, <1>2, PTL DEF Spec

(* The frames are heard in order, each once: the ring holds what the       *)
(* listener is to hear next, whichever thread decoded it, and the decoder  *)
(* stands behind it, a frame in the worker's hand included (nv_fill,       *)
(* nv_serve_stream).                                                       *)
THEOREM FramesAreHeardInOrder == ASSUME DecodesSoon PROVE Spec => []PcmInOrder
  <1>1. ASSUME IInv, JInv, KInv PROVE PcmInOrder
    <2> SUFFICES ASSUME NEW m \in Mirrors, active[m], Current(m)
                 PROVE  LET a == Avail(pcm[m])
                            h == IF wm = m /\ wpc = "publish" THEN 1 ELSE 0
                            w == want[slot[m].gf]
                        IN /\ a <= PcmSlots /\ dec[m].next = w + a + h
                           /\ \A i \in 0 .. a - 1 : Item(pcm[m], PcmSlots, i) = w + i
                           /\ h = 1 => hand = w + a
      BY DEF PcmInOrder
    <2> DEFINE a == Avail(pcm[m])
               w == want[slot[m].gf]
    <2>1. Live(m) /\ Filled(m)
      BY <1>1 DEF Live, KInv, FilledInv
    <2>2. CASE slot[m].gf \in Streams
      <3>1. StreamFrom(m, w)
        BY <2>1, <2>2 DEF Filled
      <3> QED BY <3>1 DEF StreamFrom, InRing, Due, Pending
    <2>3. CASE slot[m].gf \notin Streams
      <3>1. SampleFrom(m, w)
        BY <2>1, <2>3 DEF Filled
      <3>2. ~(wm = m /\ wpc = "publish")
        <4> SUFFICES ASSUME wm = m, wpc = "publish" PROVE FALSE OBVIOUS
        <4>1. slot[m].mode = "stream"
          BY <1>1 DEF IInv, WorkInv, AtWork
        <4> QED BY <1>1, <2>1, <2>3, <4>1 DEF JInv, ModeInv, Live
      <3>3. w \in Int
        <4>1. slot[m].gf \in States
          BY <1>1, <2>1 DEF IInv, SlotInv, Live
        <4> QED BY <1>1, <4>1 DEF KInv, RingShape
      <3> QED BY <3>1, <3>2, <3>3 DEF SampleFrom, InRing
    <2> QED BY <2>2, <2>3
  <1> QED BY <1>1, OrderInvariance, PTL

-----------------------------------------------------------------------------
(* Nothing is heard only at the end: the invariant beyond KInv.            *)

(* A stream's end is noted where the stream ends, and the PCM's where      *)
(* nothing is left to decode, unless the decoder is broken; the worker     *)
(* decodes nothing after either.  A sample's end is noted when it has been *)
(* handed over.                                                            *)
DecFields == {"next", "broken", "pcm_eof", "ogg_eof", "eof"}
Drained(m) == dec[m].ogg_eof /\ Avail(ogg[m]) = 0
StreamEnds(m) ==
  /\ dec[m].ogg_eof => slot[m].head = Length[slot[m].gf] + 1
  /\ dec[m].pcm_eof /\ ~dec[m].broken => Drained(m)
  /\ wm = m /\ wpc \in {"decode", "publish"} => ~dec[m].broken /\ ~dec[m].pcm_eof
  /\ wm = m /\ wpc = "end" => dec[m].broken \/ Drained(m)
SampleEnds(m) == dec[m].eof => dec[m].next = Length[slot[m].gf] + 1
Ended(m) ==
  /\ DecFields \subseteq DOMAIN dec[m]
  /\ IF slot[m].gf \in Streams THEN StreamEnds(m) ELSE SampleEnds(m)
EndInv == \A m \in Mirrors : Live(m) => Ended(m)

SlotTimed == \A m \in Mirrors : "timedout" \in DOMAIN slot[m]

(* The frame that the game thread did not get is one the decoder has not   *)
(* or the ring had no room for; a call that ends with nothing has waited   *)
(* too long, or found the PCM at its end.                                  *)
ReplyShape == {"ended", "decoded"} \subseteq DOMAIN call
Missed == dec[cm].broken \/ dec[cm].pcm_eof \/ Avail(pcm[cm]) > 0
Nothing == slot[cm].timedout \/ (dec[cm].pcm_eof /\ Avail(pcm[cm]) = 0)
ReplyInv ==
  /\ ReplyShape
  /\ pc = "topupEnd" => slot[cm].head = Length[cur] + 1
  /\ pc \in {"unbusy", "unwait", "after"} /\ ~call.decoded => Missed
  /\ pc \in {"leave", "post"} /\ cur \in Streams /\ call.n = 0 => call.ended /\ Nothing
  /\ pc \in {"unsample", "post"} /\ cur \notin Streams /\ call.n = 0 => call.ended
  /\ pc = "leave" => cur \in Streams
  /\ pc = "unsample" => cur \notin Streams

LInv == SlotTimed /\ EndInv /\ ReplyInv

(* Before the first open nothing has ended.                                *)
LEMMA InitEnds == Init => LInv
  <1> SUFFICES ASSUME Init PROVE LInv OBVIOUS
  <1>1. SlotTimed
    BY DEF Init, SlotTimed, Inert
  <1>2. EndInv
    BY DEF Init, EndInv, Live
  <1>3. ReplyInv
    BY DEF Init, ReplyInv, ReplyShape, NoCall
  <1> QED BY <1>1, <1>2, <1>3 DEF LInv

-----------------------------------------------------------------------------
(* The records keep their fields                                           *)

(* A slot that is emptied, or given up, still has a time-out.              *)
LEMMA EmptiesTimed ==
  ASSUME IInv, SlotTimed, NEW m \in Mirrors, Empties(m) PROVE SlotTimed'
  BY DEF IInv, Shape, SlotShape, SlotTimed, Empties, Emptied, Inert

(* What the guest does to a state's mirror                                 *)
LEMMA GuestTimed ==
  ASSUME IInv, SlotTimed, NEW f \in States, Open(f) \/ Seek(f) \/ Pump(f) PROVE SlotTimed'
  <1>1. CASE Open(f)
    <2>1. slot' = [m \in Mirrors |-> IF m \in Lookup(f) THEN [slot[m] EXCEPT !.stale = TRUE]
                                                        ELSE slot[m]]
      BY <1>1 DEF Open
    <2> QED BY <2>1 DEF SlotTimed
  <1>2. CASE Seek(f) \/ Pump(f)
    <2>1. slot' = Dirty(f, slot)
      BY <1>2 DEF Seek, Pump
    <2> QED BY <2>1 DEF SlotTimed, Dirty
  <1> QED BY <1>1, <1>2

(* Putting the stream back                                                 *)
LEMMA SyncTimed ==
  ASSUME IInv, SlotTimed, NEW m \in Mirrors, Sync(m) PROVE SlotTimed'
  BY DEF IInv, Shape, SlotShape, SlotTimed, Sync, SyncedSlot

(* and reading ahead in it                                                 *)
LEMMA TopUpTimed ==
  ASSUME IInv, SlotTimed, NEW m \in Mirrors, TopUpMoves(m) PROVE SlotTimed'
  BY DEF IInv, Shape, SlotShape, SlotTimed, TopUpMoves

(* Whatever happens to a mirror, its slot has a time-out.                  *)
LEMMA NextTimed == IInv /\ SlotTimed /\ [Next]_vars => SlotTimed'
  <1> SUFFICES ASSUME IInv, SlotTimed, [Next]_vars PROVE SlotTimed' OBVIOUS
  <1>1. cm \in Mirrors /\ wm \in Mirrors /\ DOMAIN slot = Mirrors
    BY DEF IInv, Shape, SlotShape
  <1>2. CASE \E f \in States : Open(f) \/ Seek(f) \/ Pump(f)
    BY <1>2, GuestTimed
  <1>3. CASE \/ (\E f \in States : Decode(f)) \/ Evict \/ DropMirror
    <2>1. UNCHANGED slot \/ \E m \in Mirrors : Sync(m)
      BY <1>1, <1>3 DEF Decode, Evict, DropMirror, Lookup, Idle, Usable
    <2> QED BY <2>1, SyncTimed DEF SlotTimed
  <1>4. CASE TopUp \/ FrameHere
    <2>1. UNCHANGED slot \/ TopUpMoves(cm)
      BY <1>4 DEF TopUp, FrameHere
    <2> QED BY <1>1, <2>1, TopUpTimed DEF SlotTimed
  <1>5. CASE Retire \/ Reject \/ Yield
    <2>1. UNCHANGED slot \/ Empties(cm) \/ Empties(wm)
      BY <1>5 DEF Retire, Reject, Yield, mirror
    <2> QED BY <1>1, <2>1, EmptiesTimed DEF SlotTimed
  <1>6. CASE QuiesceFails
    BY <1>1, <1>6 DEF QuiesceFails, SlotTimed, Inert
  <1>7. CASE Clone
    <2>1. DOMAIN slot'[cm] = DOMAIN slot[cm] /\ \A m \in Mirrors \ {cm} : slot'[m] = slot[m]
      BY <1>1, <1>7 DEF Clone
    <2> QED BY <1>1, <2>1 DEF SlotTimed
  <1>8. CASE GiveUp
    BY <1>1, <1>8 DEF GiveUp, SlotTimed
  <1>9. CASE UNCHANGED slot
    BY <1>9 DEF SlotTimed
  <1>10. CASE \E f \in States : Close(f)
    BY <1>9, <1>10 DEF Close, mirror
  <1>11. CASE \/ CloseState \/ Quiesced \/ RetireReleases \/ RetireClears
              \/ Take \/ PoolFull \/ Claim \/ PoolBusy \/ Ready \/ RejectReleases \/ Rejected
    BY <1>9, <1>11 DEF CloseState, Quiesced, RetireReleases, RetireClears, Take, PoolFull, Claim,
                       PoolBusy, Ready, RejectReleases, Rejected, mirror
  <1>12. CASE \/ TopUpEnd \/ TakeReady \/ AtEnd \/ BudgetSpent \/ (\E late \in BOOLEAN : Look(late))
              \/ TryAcquire \/ TryAgain \/ NoFrameHere \/ Unbusy \/ Unwait \/ AfterFrame \/ Leave
    BY <1>9, <1>12 DEF TopUpEnd, TakeReady, AtEnd, BudgetSpent, Look, TryAcquire, TryAgain,
                       NoFrameHere, Unbusy, Unwait, AfterFrame, Leave, mirror
  <1>13. CASE \/ MemoryAcquire \/ MemoryTimesOut \/ MemoryDecodes \/ MemoryReleases
              \/ Return \/ Translated
    BY <1>9, <1>13 DEF MemoryAcquire, MemoryTimesOut, MemoryDecodes, MemoryReleases, Return,
                       Translated, mirror
  <1>14. CASE \/ Sample \/ PreCheck \/ Acquire \/ Validate \/ Fill
              \/ WorkerDecodes \/ WorkerEnds \/ Publish \/ PublishEnd
    BY <1>9, <1>14 DEF Sample, PreCheck, Acquire, Validate, Fill, WorkerDecodes, WorkerEnds,
                       Publish, PublishEnd, mirror
  <1>15. CASE UNCHANGED vars
    BY <1>9, <1>15 DEF vars, mirror
  <1>16. CASE Guest \/ LonePump
    BY <1>2, <1>3, <1>10, <1>16 DEF Guest, LonePump
  <1>17. CASE InCall
    BY <1>2, <1>3, <1>4, <1>5, <1>6, <1>7, <1>8, <1>11, <1>12, <1>13, <1>17 DEF InCall
  <1>18. CASE Worker
    BY <1>5, <1>14, <1>18 DEF Worker
  <1> QED BY <1>15, <1>16, <1>17, <1>18 DEF Next

(* A call is a record, whatever becomes of it.                             *)
LEMMA NextCall == IInv /\ ReplyShape /\ [Next]_vars => ReplyShape'
  <1> SUFFICES ASSUME IInv, ReplyShape, [Next]_vars PROVE ReplyShape' OBVIOUS
  <1> USE DEF ReplyShape
  <1>1. CASE UNCHANGED call
    BY <1>1
  <1>2. CASE Back
    BY <1>2 DEF Back, NoCall
  <1>3. CASE Guest \/ LonePump
    BY <1>1, <1>2, <1>3 DEF Guest, LonePump, Open, Seek, Close, Decode, Pump, game
  <1>4. CASE InCall
    <2>1. CASE \/ (\E f \in States : Pump(f)) \/ CloseState \/ Return \/ Translated
      BY <1>2, <2>1 DEF Pump, CloseState, Return, Translated
    <2>2. CASE Quiesced \/ Retire \/ RetireReleases \/ Claim \/ Clone \/ Ready \/ Reject
               \/ RejectReleases
      BY <2>2 DEF Quiesced, Retire, RetireReleases, Claim, Clone, Ready, Reject,
                  RejectReleases, Goto
    <2>3. CASE Take \/ Evict \/ DropMirror
      BY <1>1, <2>3 DEF Take, Evict, DropMirror
    <2>4. CASE PoolFull \/ PoolBusy \/ Rejected
      BY <1>2, <2>4 DEF PoolFull, PoolBusy, Rejected, Without, Goto
    <2>5. CASE TopUp \/ TopUpEnd
      <3>1. Goto("topupEnd") \/ ToppedUpTo
        BY <2>5 DEF TopUp, TopUpEnd
      <3> QED BY <1>2, <3>1 DEF ToppedUpTo, Goto
    <2>6. CASE \/ AtEnd \/ BudgetSpent \/ (\E late \in BOOLEAN : Look(late))
               \/ TryAcquire \/ TryAgain \/ GiveUp \/ NoFrameHere
               \/ Unbusy \/ Unwait \/ AfterFrame \/ Leave
      BY <2>6 DEF AtEnd, BudgetSpent, Look, TryAcquire, TryAgain, GiveUp, NoFrameHere, Unbusy,
                  Unwait, AfterFrame, Leave, Goto, Call
    <2>7. CASE TakeReady \/ FrameHere
      BY <2>7 DEF TakeReady, FrameHere, Call
    <2>8. CASE MemoryAcquire \/ MemoryTimesOut \/ MemoryDecodes \/ MemoryReleases
      BY <2>8 DEF MemoryAcquire, MemoryTimesOut, MemoryDecodes, MemoryReleases, Goto, Call
    <2>9. CASE QuiesceFails \/ RetireClears
      <3>1. Goto("translated") \/ After
        BY <2>9 DEF QuiesceFails, RetireClears
      <3>2. ret \in Rets
        BY <2>9 DEF QuiesceFails, RetireClears, IInv, PlaceInv
      <3> QED BY <3>1, <3>2 DEF After, Rets, Goto
    <2> QED BY <1>4, <2>1, <2>2, <2>3, <2>4, <2>5, <2>6, <2>7, <2>8, <2>9 DEF InCall
  <1>5. CASE Worker \/ UNCHANGED vars
    <2>1. UNCHANGED game
      BY <1>5 DEF Worker, Sample, PreCheck, Acquire, Validate, Fill, WorkerDecodes, WorkerEnds,
           Publish, PublishEnd, Yield, vars
    <2> QED BY <1>1, <2>1 DEF game
  <1> QED BY <1>3, <1>4, <1>5 DEF Next

-----------------------------------------------------------------------------
(* The ends of streams and samples                                         *)

(* A mirror's decoder, its packets and its place in the stream stay, and   *)
(* the worker begins nothing with it.                                      *)
Rests(m) ==
  /\ slot'[m].gf = slot[m].gf /\ slot'[m].head = slot[m].head
  /\ dec'[m] = dec[m] /\ ogg'[m] = ogg[m]
  /\ wm' = m /\ wpc' \in {"decode", "publish"} => wm = m /\ wpc \in {"decode", "publish"}
  /\ wm' = m /\ wpc' = "end" => wm = m /\ wpc = "end"

(* Then what has ended has ended.                                          *)
LEMMA RestsEnded == ASSUME NEW m \in Mirrors, Ended(m), Rests(m) PROVE Ended(m)'
  <1>1. Avail(ogg'[m]) = Avail(ogg[m])
    BY DEF Rests
  <1>2. CASE slot[m].gf \in Streams
    <2>1. StreamEnds(m)
      BY <1>2 DEF Ended
    <2>2. StreamEnds(m)'
      BY <1>1, <2>1 DEF StreamEnds, Drained, Rests
    <2> QED BY <1>2, <2>2 DEF Ended, Rests
  <1>3. CASE slot[m].gf \notin Streams
    <2>1. SampleEnds(m)
      BY <1>3 DEF Ended
    <2>2. SampleEnds(m)'
      BY <2>1 DEF SampleEnds, Rests
    <2> QED BY <1>3, <2>2 DEF Ended, Rests
  <1> QED BY <1>2, <1>3

(* A step keeps the mirrors that serve, or notes their ends.               *)
LEMMA StepEnded ==
  ASSUME LInv, \A m \in Mirrors : Live(m)' => (Live(m) /\ Rests(m)) \/ Ended(m)'
  PROVE  EndInv'
  <1> SUFFICES ASSUME NEW m \in Mirrors, Live(m)' PROVE Ended(m)'
    BY DEF EndInv
  <1>1. CASE Live(m) /\ Rests(m)
    <2>1. Ended(m)
      BY <1>1 DEF LInv, EndInv
    <2> QED BY <1>1, <2>1, RestsEnded
  <1> QED BY <1>1

(* A step that leaves all mirrors alone                                    *)
Resting ==
  /\ \A m \in Mirrors : Live(m)' =>
       /\ Live(m) /\ slot'[m].gf = slot[m].gf /\ slot'[m].head = slot[m].head
       /\ dec'[m] = dec[m] /\ ogg'[m] = ogg[m]
  /\ UNCHANGED <<wpc, wm>> \/ wpc' \notin {"decode", "publish", "end"}

(* notes no end,                                                           *)
LEMMA RestingEnds == ASSUME LInv, Resting PROVE EndInv'
  <1>1. ASSUME NEW m \in Mirrors, Live(m)' PROVE Live(m) /\ Rests(m)
    BY <1>1 DEF Resting, Rests
  <1> QED BY <1>1, StepEnded

(* nor does one that leaves alone all but one, but at that one.            *)
LEMMA OtherEnds ==
  ASSUME LInv, NEW n \in Mirrors, Others(n), UNCHANGED wm, n = wm \/ UNCHANGED wpc,
         Live(n)' => Ended(n)'
  PROVE  EndInv'
  <1>1. ASSUME NEW m \in Mirrors, m # n, Live(m)' PROVE Live(m) /\ Rests(m)
    <2>1. Live(m) /\ slot'[m] = slot[m] /\ dec'[m] = dec[m] /\ ogg'[m] = ogg[m]
      BY <1>1 DEF Live, Current, Others
    <2> QED BY <1>1, <2>1 DEF Rests
  <1>2. \A m \in Mirrors : Live(m)' => (Live(m) /\ Rests(m)) \/ Ended(m)'
    BY <1>1
  <1> QED BY <1>2, StepEnded

(* What has to be shown of a stream's mirror after a step                  *)
LEMMA StreamEnded ==
  ASSUME NEW m \in Mirrors, slot'[m].gf \in Streams, DecFields \subseteq DOMAIN dec'[m],
         dec'[m].ogg_eof => slot'[m].head = Length[slot'[m].gf] + 1,
         dec'[m].pcm_eof /\ ~dec'[m].broken => dec'[m].ogg_eof /\ Avail(ogg'[m]) = 0,
         wm' = m /\ wpc' \in {"decode", "publish"} => ~dec'[m].broken /\ ~dec'[m].pcm_eof,
         wm' = m /\ wpc' = "end" => dec'[m].broken \/ (dec'[m].ogg_eof /\ Avail(ogg'[m]) = 0)
  PROVE  Ended(m)'
  <1>1. StreamEnds(m)'
    BY DEF StreamEnds, Drained
  <1> QED BY <1>1 DEF Ended

(* What is known of a stream's mirror                                      *)
LEMMA StreamEndFacts ==
  ASSUME LInv, NEW m \in Mirrors, Live(m), slot[m].gf \in Streams
  PROVE  /\ DecFields \subseteq DOMAIN dec[m]
         /\ dec[m].ogg_eof => slot[m].head = Length[slot[m].gf] + 1
         /\ dec[m].pcm_eof /\ ~dec[m].broken => dec[m].ogg_eof /\ Avail(ogg[m]) = 0
         /\ wm = m /\ wpc \in {"decode", "publish"} => ~dec[m].broken /\ ~dec[m].pcm_eof
         /\ wm = m /\ wpc = "end" => dec[m].broken \/ (dec[m].ogg_eof /\ Avail(ogg[m]) = 0)
  <1>1. Ended(m)
    BY DEF LInv, EndInv
  <1> QED BY <1>1 DEF Ended, StreamEnds, Drained

(* No end is noted where only a mirror's place or its holder changes.      *)
LEMMA StillEnds ==
  ASSUME IInv, LInv, UNCHANGED <<active, dec, ogg, wpc, wm>>,
         \A n \in Mirrors :
           /\ slot'[n].gf = slot[n].gf /\ slot'[n].head = slot[n].head
           /\ slot'[n].dirty = slot[n].dirty /\ slot'[n].stale = slot[n].stale
  PROVE  EndInv'
  <1>1. Resting
    BY DEF Resting, Live, Current
  <1> QED BY <1>1, RestingEnds

(* The guest moves a state, whose mirror is not current any more.          *)
LEMMA GuestEnds ==
  ASSUME IInv, LInv, NEW f \in States, Open(f) \/ Seek(f) \/ Pump(f) PROVE EndInv'
  <1>1. UNCHANGED <<active, dec, ogg, wpc, wm>>
    BY DEF Open, Seek, Pump, flags, worker
  <1>2. ASSUME NEW m \in Mirrors, Live(m)' PROVE Live(m) /\ slot'[m] = slot[m]
    <2>1. active[m] /\ slot'[m] = slot[m]
      BY <1>1, <1>2, MoveSpoils DEF Live
    <2> QED BY <1>2, <2>1 DEF Live, Current
  <1>3. Resting
    BY <1>1, <1>2 DEF Resting
  <1> QED BY <1>3, RestingEnds

(* A call that looks for a mirror, waits for one or hands over frames      *)
LEMMA CallEnds ==
  ASSUME IInv, JInv, LInv,
         \/ (\E f \in States : Close(f) \/ Decode(f))
         \/ Quiesced \/ RetireReleases \/ RetireClears
         \/ Take \/ Evict \/ PoolFull \/ Claim \/ PoolBusy \/ Ready
         \/ RejectReleases \/ Rejected
         \/ AtEnd \/ BudgetSpent \/ (\E late \in BOOLEAN : Look(late))
         \/ TryAcquire \/ TryAgain \/ GiveUp \/ NoFrameHere
         \/ Unbusy \/ Unwait \/ Leave
         \/ MemoryAcquire \/ MemoryTimesOut \/ MemoryReleases \/ DropMirror \/ Return
         \/ TakeReady \/ CloseState \/ Translated
  PROVE  EndInv'
  <1>1. CASE TakeReady \/ CloseState \/ Translated
    <2>1. UNCHANGED <<active, slot, dec, ogg, wpc, wm>>
      BY <1>1 DEF TakeReady, CloseState, Translated, flags, mirror, worker
    <2> QED BY <2>1, StillEnds
  <1>2. CASE ~(TakeReady \/ CloseState \/ Translated)
    <2>1. /\ UNCHANGED <<active, want, dec, ogg, pcm, wpc, wm, hand>>
          /\ \A n \in Mirrors :
               /\ slot'[n].gf = slot[n].gf /\ slot'[n].head = slot[n].head
               /\ slot'[n].dirty = slot[n].dirty /\ slot'[n].stale = slot[n].stale
      BY <1>2, CallSlots
    <2> QED BY <2>1, StillEnds
  <1> QED BY <1>1, <1>2

(* A mirror that is ended serves no state.                                 *)
LEMMA LeaveEnds ==
  ASSUME IInv, KInv, LInv, QuiesceFails \/ Retire \/ Reject PROVE EndInv'
  <1>1. /\ UNCHANGED <<wpc, wm>> /\ Set(active, cm, FALSE)
        /\ cm \in Mirrors /\ DOMAIN active = Mirrors
        /\ \A m \in Mirrors : m # cm =>
             slot'[m] = slot[m] /\ dec'[m] = dec[m] /\ ogg'[m] = ogg[m]
    BY LeaveSlots DEF KInv
  <1>2. ASSUME NEW m \in Mirrors, Live(m)' PROVE m # cm /\ active[m]
    BY <1>1, <1>2 DEF Live, Set
  <1>3. Resting
    BY <1>1, <1>2 DEF Resting, Live, Current
  <1> QED BY <1>3, RestingEnds

(* The worker looks, takes a mirror, publishes or leaves a mirror.         *)
LEMMA WorkEnds ==
  ASSUME IInv, KInv, LInv,
         \/ Sample \/ PreCheck \/ Acquire \/ Validate \/ Publish \/ Yield
         \/ (Fill /\ wpc' # "decode")
  PROVE  EndInv'
  <1>1. UNCHANGED active /\ wpc' \notin {"decode", "publish", "end"}
    BY DEF Sample, PreCheck, Acquire, Validate, Publish, Yield, Fill, Work, NextMirror, flags
  <1>2. ASSUME NEW m \in Mirrors, active'[m]
        PROVE  slot'[m] = slot[m] /\ dec'[m] = dec[m] /\ ogg'[m] = ogg[m]
    <2>1. CASE Yield /\ slot[wm].poisoned /\ ~active[wm]
      <3>1. m # wm
        BY <1>1, <1>2, <2>1
      <3> QED BY <2>1, <3>1 DEF Yield, Empties, KInv, RingShape, IInv, Shape, SlotShape
    <2>2. CASE ~(Yield /\ slot[wm].poisoned /\ ~active[wm])
      BY <2>2 DEF Sample, PreCheck, Acquire, Validate, Publish, Yield, Fill, mirror
    <2> QED BY <2>1, <2>2
  <1>3. Resting
    BY <1>1, <1>2 DEF Resting, Live, Current
  <1> QED BY <1>3, RestingEnds

(* A clone begins with a decoder that has met no end.                      *)
LEMMA CloneEnds == ASSUME IInv, JInv, KInv, LInv, Clone PROVE EndInv'
  <1>1. PICK m \in Mirrors : m = cm
    BY DEF IInv, Shape
  <1>2. PICK x : dec' = [dec EXCEPT ![m] = [Decoder EXCEPT !.next = x]]
    BY <1>1 DEF Clone
  <1>3. /\ pc = "clone" /\ UNCHANGED <<wpc, wm>>
        /\ active' = [active EXCEPT ![m] = TRUE]
        /\ ogg' = [ogg EXCEPT ![m] = RingReset(OggSlots)]
        /\ \A n \in Mirrors : n # m => slot'[n] = slot[n]
    BY <1>1 DEF Clone, Changes, Set, IInv, Shape, SlotShape
  <1>4. wm = m => wpc \notin {"decode", "publish", "end"}
    BY <1>1, <1>3, HeldByGame DEF Holds, Held
  <1>5. ASSUME NEW n \in Mirrors, n # m, Live(n)' PROVE Live(n) /\ Rests(n)
    BY <1>3, <1>2, <1>5 DEF Live, Current, Rests, KInv, RingShape, IInv, Shape
  <1>6. Ended(m)'
    <2>1. dec'[m] = [Decoder EXCEPT !.next = x]
      BY <1>2 DEF KInv, RingShape
    <2>2. /\ DecFields \subseteq DOMAIN dec'[m] /\ dec'[m].ogg_eof = FALSE
          /\ dec'[m].pcm_eof = FALSE /\ dec'[m].broken = FALSE /\ dec'[m].eof = FALSE
      BY <2>1 DEF Decoder, DecFields
    <2>3. wm' = m => wpc' \notin {"decode", "publish", "end"}
      BY <1>3, <1>4
    <2>4. slot'[m].gf \in Streams => Ended(m)'
      BY <2>2, <2>3, StreamEnded
    <2>5. slot'[m].gf \notin Streams => Ended(m)'
      BY <2>2 DEF Ended, SampleEnds
    <2> QED BY <2>4, <2>5
  <1> QED BY <1>5, <1>6, StepEnded

(* Reading ahead: the end is not noted yet.                                *)
LEMMA TopUpEnds == ASSUME IInv, JInv, KInv, LInv, TopUp PROVE EndInv'
  <1>1. /\ pc = "topup" /\ UNCHANGED <<active, want, dec, pcm, wpc, wm>>
    BY DEF TopUp, flags, worker, guest
  <1>2. CASE ~CanTopUp(cm)
    <2>1. UNCHANGED <<slot, ogg>>
      BY <1>2 DEF TopUp
    <2> QED BY <1>1, <2>1, StillEnds
  <1>3. CASE CanTopUp(cm)
    <2>1. PICK m \in Mirrors : m = cm
      BY DEF IInv, Shape
    <2>2. TopUpMoves(m) /\ ogg' = [ogg EXCEPT ![m] = ToppedUp(m)] /\ ~dec[m].ogg_eof
      BY <1>3, <2>1 DEF TopUp, CanTopUp
    <2>3. Live(m) /\ slot[m].gf = cur /\ cur \in Streams
      BY <1>1, <2>1, ServingMirror DEF Serving, KInv, KindInv
    <2>4. slot'[m].gf = cur /\ \A n \in Mirrors : n # m => slot'[n] = slot[n]
      BY <2>2, <2>3, TopUpSlot
    <2>5. Ended(m)'
      <3>1. /\ DecFields \subseteq DOMAIN dec[m]
            /\ dec[m].pcm_eof => dec[m].broken
            /\ wm = m /\ wpc \in {"decode", "publish"} => ~dec[m].broken /\ ~dec[m].pcm_eof
            /\ wm = m /\ wpc = "end" => dec[m].broken
        BY <2>2, <2>3, StreamEndFacts
      <3>2. dec'[m] = dec[m]
        BY <1>1
      <3> QED BY <1>1, <2>2, <2>3, <2>4, <3>1, <3>2, StreamEnded
    <2>6. Others(m)
      BY <1>1, <2>2, <2>4 DEF Others, KInv, RingShape
    <2> QED BY <1>1, <2>5, <2>6, OtherEnds
  <1> QED BY <1>2, <1>3

(* The end of the stream is noted where the stream ends,                   *)
LEMMA TopUpEndEnds == ASSUME IInv, JInv, KInv, LInv, TopUpEnd PROVE EndInv'
  <1>1. PICK m \in Mirrors : m = cm
    BY DEF IInv, Shape
  <1>2. /\ pc = "topupEnd" /\ UNCHANGED <<active, want, slot, ogg, pcm, wpc, wm>>
        /\ dec' = [dec EXCEPT ![m].ogg_eof = TRUE]
    BY <1>1 DEF TopUpEnd, flags, worker, guest
  <1>3. Live(m) /\ slot[m].gf = cur /\ cur \in Streams
    BY <1>1, <1>2, ServingMirror DEF Serving, KInv, KindInv
  <1>4. slot[m].head = Length[cur] + 1
    BY <1>1, <1>2 DEF LInv, ReplyInv
  <1>5. /\ DecFields \subseteq DOMAIN dec[m]
        /\ dec[m].pcm_eof /\ ~dec[m].broken => Avail(ogg[m]) = 0
        /\ wm = m /\ wpc \in {"decode", "publish"} => ~dec[m].broken /\ ~dec[m].pcm_eof
        /\ wm = m /\ wpc = "end" => dec[m].broken \/ Avail(ogg[m]) = 0
    BY <1>3, StreamEndFacts
  <1>6. /\ DecFields \subseteq DOMAIN dec'[m] /\ dec'[m].ogg_eof = TRUE
        /\ dec'[m].pcm_eof = dec[m].pcm_eof /\ dec'[m].broken = dec[m].broken
    BY <1>2, <1>5 DEF KInv, RingShape, DecFields
  <1>7. Ended(m)'
    BY <1>2, <1>3, <1>4, <1>5, <1>6, StreamEnded
  <1>8. Others(m)
    BY <1>2 DEF Others, KInv, RingShape
  <1> QED BY <1>2, <1>7, <1>8, OtherEnds

(* and that of the PCM where nothing is left.                              *)
LEMMA AfterFrameEnds == ASSUME IInv, JInv, KInv, LInv, AfterFrame PROVE EndInv'
  <1>1. PICK m \in Mirrors : m = cm
    BY DEF IInv, Shape
  <1> DEFINE e == dec[m].pcm_eof \/ (dec[m].broken /\ Avail(pcm[m]) = 0)
  <1>2. /\ pc = "after" /\ UNCHANGED <<active, want, slot, ogg, pcm, wpc, wm>>
        /\ dec' = [dec EXCEPT ![m].pcm_eof = e]
    BY <1>1 DEF AfterFrame, flags, worker, guest
  <1>3. Live(m) /\ slot[m].gf = cur /\ cur \in Streams
    BY <1>1, <1>2, ServingMirror DEF Serving, KInv, KindInv, Taking
  <1>4. /\ DecFields \subseteq DOMAIN dec[m]
        /\ dec[m].ogg_eof => slot[m].head = Length[cur] + 1
        /\ dec[m].pcm_eof /\ ~dec[m].broken => dec[m].ogg_eof /\ Avail(ogg[m]) = 0
        /\ wm = m /\ wpc \in {"decode", "publish"} => ~dec[m].broken /\ ~dec[m].pcm_eof
        /\ wm = m /\ wpc = "end" => dec[m].broken \/ (dec[m].ogg_eof /\ Avail(ogg[m]) = 0)
    BY <1>3, StreamEndFacts
  <1>5. e => dec[m].pcm_eof \/ dec[m].broken
    OBVIOUS
  <1> HIDE DEF e
  <1>6. /\ DecFields \subseteq DOMAIN dec'[m] /\ dec'[m].ogg_eof = dec[m].ogg_eof
        /\ dec'[m].pcm_eof = e /\ dec'[m].broken = dec[m].broken
    BY <1>2, <1>4 DEF KInv, RingShape, DecFields
  <1>7. Ended(m)'
    BY <1>2, <1>3, <1>4, <1>5, <1>6, StreamEnded
  <1>8. Others(m)
    BY <1>2 DEF Others, KInv, RingShape
  <1> QED BY <1>2, <1>7, <1>8, OtherEnds

(* A sample ends when its last frame has been handed over.                 *)
LEMMA MemoryEnds == ASSUME IInv, JInv, KInv, LInv, MemoryDecodes PROVE EndInv'
  <1>1. PICK m \in Mirrors : m = cm
    BY DEF IInv, Shape
  <1> DEFINE x == dec[m].next
             k == Least(Request, Length[cur] + 1 - x)
             e == k < Request \/ dec[m].eof
  <1>2. /\ pc = "sample" /\ UNCHANGED <<active, slot, ogg, pcm, wpc, wm>>
        /\ \/ /\ dec' = [dec EXCEPT ![m].next = @ + k, ![m].eof = e]
              /\ want' = [want EXCEPT ![cur] = @ + k]
           \/ dec' = [dec EXCEPT ![m].broken = TRUE] /\ UNCHANGED want
    BY <1>1 DEF MemoryDecodes, flags, worker
  <1>3. /\ Live(m) /\ slot[m].gf = cur /\ cur \in States /\ cur \notin Streams
        /\ \A n \in Mirrors \ {m} : active[n] => slot[n].gf # cur /\ slot[n].gf \in States
    BY <1>1, <1>2, ServingMirror DEF Serving, KInv, KindInv
  <1>4. DecFields \subseteq DOMAIN dec[m] /\ (dec[m].eof => x = Length[cur] + 1)
    <2>1. Ended(m)
      BY <1>3 DEF LInv, EndInv
    <2> QED BY <1>3, <2>1 DEF Ended, SampleEnds
  <1>5. /\ x \in Int /\ Length[cur] \in Nat /\ Request \in Nat
    BY <1>3, VorbisMirrorAssumption DEF KInv, FilledInv, Filled, SampleFrom, RingShape
  <1>6. e => x + k = Length[cur] + 1
    <2>1. k < Request => x + k = Length[cur] + 1
      BY <1>5 DEF Least
    <2>2. x = Length[cur] + 1 => x + k = Length[cur] + 1
      BY <1>5 DEF Least
    <2> QED BY <1>4, <2>1, <2>2
  <1> HIDE DEF e, k
  <1>7. /\ DecFields \subseteq DOMAIN dec'[m]
        /\ \/ dec'[m].next = x + k /\ dec'[m].eof = e
           \/ dec'[m].next = x /\ dec'[m].eof = dec[m].eof
    BY <1>2, <1>4 DEF KInv, RingShape, DecFields
  <1>8. Ended(m)'
    <2>1. dec'[m].eof => dec'[m].next = Length[cur] + 1
      <3> HIDE DEF x
      <3> QED BY <1>4, <1>6, <1>7
    <2> QED BY <1>2, <1>3, <1>7, <2>1 DEF Ended, SampleEnds
  <1>9. Others(m)
    BY <1>2, <1>3 DEF Others, KInv, RingShape
  <1> QED BY <1>2, <1>8, <1>9, OtherEnds

(* A block that is short reaches the end of the stream.                    *)
LEMMA ShortBlock ==
  ASSUME IInv, JInv, KInv, NEW m \in Mirrors, Live(m), slot[m].gf \in Streams,
         Got(m) < TopUpSize(m)
  PROVE  slot[m].head + Got(m) = Length[slot[m].gf] + 1
  <1> DEFINE h == slot[m].head
             l == Length[slot[m].gf]
  <1>1. l \in Nat /\ h \in Int
    BY StreamFacts DEF StreamFrom
  <1>2. ReadsAt(m) = h
    BY DEF ReadsAt, Stands, JInv, ServedInv, Live
  <1>3. Got(m) = Least(TopUpSize(m), l + 1 - h)
    BY <1>2 DEF Got
  <1>4. TopUpSize(m) \in Int
    BY StreamFacts, VorbisMirrorAssumption DEF TopUpSize, Unused, Least
  <1> HIDE DEF h, l
  <1>5. Got(m) = l + 1 - h
    BY <1>1, <1>3, <1>4 DEF Least
  <1>6. h + Got(m) = l + 1
    BY <1>1, <1>5
  <1> QED BY <1>6 DEF h, l

(* One frame on the game thread: the stream's end is noted with a short    *)
(* block, the PCM's when no packet is left or the decoder breaks.          *)
LEMMA FrameEnds == ASSUME IInv, JInv, KInv, LInv, FrameHere PROVE EndInv'
  <1>1. pc = "frame" /\ CanDecode(cm) /\ UNCHANGED <<active, gs, want, wpc, wm, hand>>
    BY DEF FrameHere, flags, worker
  <1>2. PICK m \in Mirrors : m = cm
    BY DEF IInv, Shape
  <1> DEFINE short == Avail(ogg[m]) = 0 /\ ~dec[m].ogg_eof
             reaches == Got(m) < TopUpSize(m)
             r == IF short THEN ToppedUp(m) ELSE ogg[m]
             e == dec[m].ogg_eof \/ (short /\ reaches)
             d == [dec[m] EXCEPT !.ogg_eof = e]
  <1>3. /\ IF short THEN TopUpMoves(m) ELSE UNCHANGED slot
        /\ \/ /\ ogg' = [ogg EXCEPT ![m] = RingRead(r, OggSlots, 1)]
              /\ dec' = [dec EXCEPT ![m] = Decoded(d)]
              /\ \E y : pcm' = [pcm EXCEPT ![m] = y]
           \/ /\ dec' = [dec EXCEPT ![m] = [(IF Avail(r) = 0 THEN RunsDry(d) ELSE Broken(d))
                                               EXCEPT !.pcm_eof = TRUE]]
              /\ ogg' = [ogg EXCEPT ![m] = r] /\ UNCHANGED pcm
    BY <1>2 DEF FrameHere, KInv, RingShape
  <1>4. Live(m) /\ slot[m].gf = cur /\ cur \in Streams
    BY <1>1, <1>2, ServingMirror DEF Serving, KInv, KindInv, Taking
  <1>5. wm' = m => wpc' \notin {"decode", "publish", "end"}
    BY <1>1, <1>2, HeldByGame DEF Holds, Held
  <1>6. /\ DecFields \subseteq DOMAIN dec[m]
        /\ dec[m].ogg_eof => slot[m].head = Length[cur] + 1
        /\ ~dec[m].broken /\ ~dec[m].pcm_eof
    BY <1>1, <1>2, <1>4, StreamEndFacts DEF CanDecode
  <1>7. slot'[m].gf = cur /\ \A n \in Mirrors : n # m => slot'[n] = slot[n]
    BY <1>3, <1>4, TopUpSlot
  <1>8. e => slot'[m].head = Length[cur] + 1
    <2>1. CASE short /\ reaches
      BY <1>3, <1>4, <2>1, ShortBlock, TopUpSlot
    <2>2. CASE dec[m].ogg_eof
      BY <1>3, <1>6, <2>2
    <2> QED BY <2>1, <2>2
  <1> HIDE DEF short, r, e
  <1>9. DOMAIN d = DOMAIN dec[m] /\ d.ogg_eof = e /\ d.broken = dec[m].broken
        /\ d.pcm_eof = dec[m].pcm_eof
    BY <1>6 DEF DecFields
  <1> HIDE DEF d
  <1>10. Others(m)
    BY <1>1, <1>3, <1>7 DEF Others, KInv, RingShape
  <1>11. CASE dec' = [dec EXCEPT ![m] = Decoded(d)]
    <2>1. dec'[m] = Decoded(d)
      BY <1>11 DEF KInv, RingShape
    <2>2. /\ DecFields \subseteq DOMAIN dec'[m] /\ dec'[m].ogg_eof = e
          /\ ~dec'[m].broken /\ ~dec'[m].pcm_eof
      BY <1>6, <1>9, <2>1 DEF Decoded, DecFields
    <2>3. Ended(m)'
      BY <1>4, <1>5, <1>7, <1>8, <2>2, StreamEnded
    <2> QED BY <1>1, <1>10, <2>3, OtherEnds
  <1>12. CASE /\ dec' = [dec EXCEPT ![m] = [(IF Avail(r) = 0 THEN RunsDry(d) ELSE Broken(d))
                                               EXCEPT !.pcm_eof = TRUE]]
              /\ ogg' = [ogg EXCEPT ![m] = r]
    <2>1. ogg'[m] = r
      BY <1>12 DEF KInv, RingShape
    <2>2. CASE Avail(r) = 0
      <3>1. dec'[m] = [RunsDry(d) EXCEPT !.pcm_eof = TRUE]
        BY <1>12, <2>2 DEF KInv, RingShape
      <3>2. /\ DecFields \subseteq DOMAIN dec'[m] /\ dec'[m].ogg_eof = e
            /\ dec'[m].broken = ~e
        BY <1>6, <1>9, <3>1 DEF RunsDry, DecFields
      <3>3. Ended(m)'
        BY <1>4, <1>5, <1>7, <1>8, <2>1, <2>2, <3>2, StreamEnded
      <3> QED BY <1>1, <1>10, <3>3, OtherEnds
    <2>3. CASE Avail(r) # 0
      <3>1. dec'[m] = [Broken(d) EXCEPT !.pcm_eof = TRUE]
        BY <1>12, <2>3 DEF KInv, RingShape
      <3>2. /\ DecFields \subseteq DOMAIN dec'[m] /\ dec'[m].ogg_eof = e
            /\ dec'[m].broken = TRUE
        BY <1>6, <1>9, <3>1 DEF Broken, DecFields
      <3>3. Ended(m)'
        BY <1>4, <1>5, <1>7, <1>8, <3>2, StreamEnded
      <3> QED BY <1>1, <1>10, <3>3, OtherEnds
    <2> QED BY <2>2, <2>3
  <1> QED BY <1>3, <1>11, <1>12

(* The worker begins on a packet only of a stream that goes on,            *)
LEMMA FillEnds == ASSUME IInv, JInv, KInv, LInv, Fill, wpc' = "decode" PROVE EndInv'
  <1>1. /\ wpc = "fill" /\ ~dec[wm].broken /\ ~dec[wm].pcm_eof
        /\ UNCHANGED <<active, want, slot, dec, ogg, pcm, wm>>
    BY DEF Fill, Work, guest, flags, mirror
  <1>2. PICK m \in Mirrors : m = wm
    BY DEF IInv, Shape
  <1>3. ASSUME Live(m) PROVE Ended(m)'
    <2>1. slot[m].gf \in Streams
      <3>1. slot[m].mode = "stream"
        BY <1>1, <1>2 DEF IInv, WorkInv, AtWork
      <3> QED BY <1>3, <3>1 DEF JInv, ModeInv, Live
    <2>2. /\ DecFields \subseteq DOMAIN dec[m]
          /\ dec[m].ogg_eof => slot[m].head = Length[slot[m].gf] + 1
          /\ dec[m].pcm_eof /\ ~dec[m].broken => dec[m].ogg_eof /\ Avail(ogg[m]) = 0
      BY <1>3, <2>1, StreamEndFacts
    <2>3. slot'[m] = slot[m] /\ dec'[m] = dec[m] /\ ogg'[m] = ogg[m]
      BY <1>1
    <2> QED BY <1>1, <1>2, <2>1, <2>2, <2>3, StreamEnded
  <1>4. Others(m)
    BY <1>1 DEF Others
  <1>5. Live(m)' => Live(m)
    BY <1>1 DEF Live, Current
  <1> QED BY <1>1, <1>2, <1>3, <1>4, <1>5, OtherEnds

(* decodes it, finds that there is none or breaks on it, and says so.      *)
LEMMA WorkerDecodeEnds ==
  ASSUME IInv, JInv, KInv, LInv, WorkerDecodes \/ WorkerEnds \/ PublishEnd PROVE EndInv'
  <1>1. PICK m \in Mirrors : m = wm
    BY DEF IInv, Shape
  <1>2. /\ wpc \in {"decode", "end"}
        /\ UNCHANGED <<active, want, slot, pcm, wm>>
    BY DEF WorkerDecodes, WorkerEnds, PublishEnd, Work, guest, flags
  <1>3. /\ \A n \in Mirrors : n # m => dec'[n] = dec[n] /\ ogg'[n] = ogg[n]
    BY <1>1 DEF WorkerDecodes, WorkerEnds, PublishEnd, KInv, RingShape
  <1>4. ASSUME Live(m) PROVE Ended(m)'
    <2>1. slot[m].gf \in Streams
      <3>1. slot[m].mode = "stream"
        BY <1>1, <1>2 DEF IInv, WorkInv, AtWork
      <3> QED BY <1>4, <3>1 DEF JInv, ModeInv, Live
    <2>2. /\ DecFields \subseteq DOMAIN dec[m]
          /\ dec[m].ogg_eof => slot[m].head = Length[slot[m].gf] + 1
          /\ dec[m].pcm_eof /\ ~dec[m].broken => dec[m].ogg_eof /\ Avail(ogg[m]) = 0
          /\ wm = m /\ wpc \in {"decode", "publish"} => ~dec[m].broken /\ ~dec[m].pcm_eof
          /\ wm = m /\ wpc = "end" => dec[m].broken \/ (dec[m].ogg_eof /\ Avail(ogg[m]) = 0)
      BY <1>4, <2>1, StreamEndFacts
    <2>3. slot'[m] = slot[m]
      BY <1>2
    <2>4. CASE WorkerDecodes
      <3>1. wpc = "decode" /\ wpc' = "publish" /\ dec'[m] = Decoded(dec[m])
        BY <1>1, <2>4 DEF WorkerDecodes, KInv, RingShape
      <3>2. /\ DecFields \subseteq DOMAIN dec'[m] /\ dec'[m].ogg_eof = dec[m].ogg_eof
            /\ ~dec'[m].broken /\ ~dec'[m].pcm_eof
        BY <1>1, <2>2, <3>1 DEF Decoded, DecFields
      <3> QED BY <2>1, <2>2, <2>3, <3>1, <3>2, StreamEnded
    <2>5. CASE WorkerEnds
      <3>1. /\ wpc = "decode" /\ wpc' = "end" /\ ogg'[m] = ogg[m]
            /\ dec'[m] = IF Avail(ogg[m]) = 0 THEN RunsDry(dec[m]) ELSE Broken(dec[m])
        BY <1>1, <2>5 DEF WorkerEnds, Work, KInv, RingShape
      <3>2. /\ DecFields \subseteq DOMAIN dec'[m] /\ dec'[m].ogg_eof = dec[m].ogg_eof
            /\ dec'[m].broken \/ (dec[m].ogg_eof /\ Avail(ogg[m]) = 0)
            /\ dec'[m].pcm_eof = dec[m].pcm_eof
        BY <2>2, <3>1 DEF RunsDry, Broken, DecFields
      <3>3. ~dec[m].pcm_eof
        BY <1>1, <2>2, <3>1
      <3> QED BY <2>1, <2>2, <2>3, <3>1, <3>2, <3>3, StreamEnded
    <2>6. CASE PublishEnd
      <3>1. /\ wpc = "end" /\ wpc' = "yield" /\ ogg'[m] = ogg[m]
            /\ dec' = [dec EXCEPT ![m].pcm_eof = TRUE]
        BY <1>1, <2>6 DEF PublishEnd, Work
      <3>2. /\ DecFields \subseteq DOMAIN dec'[m] /\ dec'[m].ogg_eof = dec[m].ogg_eof
            /\ dec'[m].broken = dec[m].broken
        BY <2>2, <3>1 DEF DecFields, KInv, RingShape
      <3> QED BY <1>1, <2>1, <2>2, <2>3, <3>1, <3>2, StreamEnded
    <2> QED BY <2>4, <2>5, <2>6
  <1>5. Others(m)
    BY <1>2, <1>3 DEF Others
  <1>6. Live(m)' => Live(m)
    BY <1>2 DEF Live, Current
  <1> QED BY <1>1, <1>2, <1>4, <1>5, <1>6, OtherEnds

(* Every step notes an end where it is.                                    *)
LEMMA NextEnds == IInv /\ JInv /\ KInv /\ LInv /\ [Next]_vars => EndInv'
  <1> SUFFICES ASSUME IInv, JInv, KInv, LInv, [Next]_vars PROVE EndInv' OBVIOUS
  <1>1. CASE Guest \/ LonePump
    BY <1>1, GuestEnds, CallEnds DEF Guest, LonePump
  <1>2. CASE \/ (\E f \in States : pc = "pump" /\ Pump(f)) \/ CloseState
             \/ Quiesced \/ QuiesceFails \/ Retire \/ RetireReleases \/ RetireClears
    BY <1>2, GuestEnds, CallEnds, LeaveEnds
  <1>3. CASE \/ Take \/ Evict \/ PoolFull \/ Claim \/ PoolBusy \/ Clone \/ Ready
             \/ Reject \/ RejectReleases \/ Rejected
    BY <1>3, CallEnds, CloneEnds, LeaveEnds
  <1>4. CASE \/ TopUp \/ TopUpEnd \/ TakeReady \/ AtEnd \/ BudgetSpent
             \/ (\E late \in BOOLEAN : Look(late))
             \/ TryAcquire \/ TryAgain \/ GiveUp \/ FrameHere \/ NoFrameHere
    BY <1>4, TopUpEnds, TopUpEndEnds, CallEnds, FrameEnds
  <1>5. CASE \/ Unbusy \/ Unwait \/ AfterFrame \/ Leave
             \/ MemoryAcquire \/ MemoryTimesOut \/ MemoryDecodes \/ MemoryReleases
             \/ DropMirror \/ Return \/ Translated
    BY <1>5, CallEnds, AfterFrameEnds, MemoryEnds
  <1>6. CASE Worker
    BY <1>6, WorkEnds, FillEnds, WorkerDecodeEnds DEF Worker
  <1>7. CASE UNCHANGED vars
    <2>1. UNCHANGED <<active, slot, dec, ogg, wpc, wm>>
      BY <1>7 DEF vars, flags, mirror, worker
    <2> QED BY <2>1, StillEnds
  <1> QED BY <1>1, <1>2, <1>3, <1>4, <1>5, <1>6, <1>7 DEF Next, InCall

-----------------------------------------------------------------------------
(* What a call that ends with nothing has found                            *)

Replying == {"topupEnd", "unbusy", "unwait", "after", "leave", "post", "unsample"}

(* A call that is elsewhere has found nothing yet.                         *)
LEMMA ElseReply == ASSUME ReplyShape', pc' \notin Replying PROVE ReplyInv'
  BY DEF Replying, ReplyInv

(* What the worker does with a stream's mirror                             *)
LEMMA WorkerStays ==
  ASSUME IInv, JInv, KInv, LInv, Worker, NEW m \in Mirrors, Live(m), slot[m].gf \in Streams
  PROVE  /\ slot'[m] = slot[m]
         /\ dec[m].broken \/ dec[m].pcm_eof \/ Avail(pcm[m]) > 0
              => dec'[m].broken \/ dec'[m].pcm_eof \/ Avail(pcm'[m]) > 0
         /\ dec[m].pcm_eof /\ Avail(pcm[m]) = 0 => dec'[m].pcm_eof /\ Avail(pcm'[m]) = 0
  <1>1. /\ DecFields \subseteq DOMAIN dec[m]
        /\ wm = m /\ wpc \in {"decode", "publish"} => ~dec[m].broken /\ ~dec[m].pcm_eof
    BY StreamEndFacts
  <1>2. CASE Sample \/ PreCheck \/ Acquire \/ Validate \/ Fill
    BY <1>2 DEF Sample, PreCheck, Acquire, Validate, Fill, mirror
  <1>3. CASE Yield
    <2>1. CASE slot[wm].poisoned /\ ~active[wm]
      <3>1. m # wm
        BY <2>1 DEF Live
      <3> QED BY <1>3, <2>1, <3>1 DEF Yield, Empties, KInv, RingShape, IInv, Shape, SlotShape
    <2>2. CASE ~(slot[wm].poisoned /\ ~active[wm])
      BY <1>3, <2>2 DEF Yield, mirror
    <2> QED BY <2>1, <2>2
  <1>4. CASE WorkerDecodes \/ WorkerEnds
    <2>1. UNCHANGED <<slot, pcm>> /\ wpc = "decode"
      BY <1>4 DEF WorkerDecodes, WorkerEnds
    <2>2. m # wm => dec'[m] = dec[m]
      BY <1>4 DEF WorkerDecodes, WorkerEnds, KInv, RingShape
    <2> QED BY <1>1, <2>1, <2>2
  <1>5. CASE PublishEnd
    <2>1. UNCHANGED <<slot, pcm>> /\ dec' = [dec EXCEPT ![wm].pcm_eof = TRUE]
      BY <1>5 DEF PublishEnd
    <2>2. m # wm => dec'[m] = dec[m]
      BY <2>1 DEF KInv, RingShape
    <2>3. m = wm => dec'[m].pcm_eof
      BY <1>1, <2>1 DEF KInv, RingShape, DecFields
    <2> QED BY <2>1, <2>2, <2>3
  <1>6. CASE Publish
    <2>1. /\ UNCHANGED <<active, want, slot, dec>> /\ wpc = "publish" /\ wpc' = "fill"
      BY <1>6 DEF Publish, guest, flags
    <2>2. m # wm => pcm'[m] = pcm[m]
      BY <1>6 DEF Publish, KInv, RingShape
    <2>3. m = wm => Avail(pcm'[m]) > 0
      <3> SUFFICES ASSUME m = wm PROVE Avail(pcm'[m]) > 0 OBVIOUS
      <3> DEFINE w == want[slot[m].gf]
                 a == Avail(pcm[m])
                 b == Avail(pcm'[m])
                 x == dec[m].next
      <3>1. x = w + a + 1 /\ w \in Int /\ a \in Nat
        BY <2>1, StreamCounts, StreamFacts
      <3>2. Filled(m)'
        <4>1. FilledInv'
          BY <1>6, PublishRings DEF Rings
        <4>2. Live(m)'
          BY <2>1 DEF Live, Current
        <4> QED BY <4>1, <4>2 DEF FilledInv
      <3>3. StreamFrom(m, w)'
        BY <2>1, <3>2 DEF Filled
      <3>4. Due(m)' = 0
        BY <2>1 DEF Due, Pending
      <3>5. x = w + b + 0 /\ InRing(pcm'[m], PcmSlots, w)
        BY <2>1, <3>3, <3>4 DEF StreamFrom
      <3>6. b \in Nat
        BY <3>5, HeldNumber DEF InRing
      <3> HIDE DEF w, a, b, x
      <3>7. b > 0
        BY <3>1, <3>5, <3>6
      <3> QED BY <3>7 DEF b
    <2> QED BY <1>1, <2>1, <2>2, <2>3
  <1> QED BY <1>2, <1>3, <1>4, <1>5, <1>6 DEF Worker

(* The worker does not undo what the call has found.                       *)
LEMMA WorkerReply == ASSUME IInv, JInv, KInv, LInv, Worker PROVE ReplyInv'
  <1>1. UNCHANGED game
    BY DEF Worker, Sample, PreCheck, Acquire, Validate, Fill, WorkerDecodes, WorkerEnds,
           Publish, PublishEnd, Yield
  <1>2. UNCHANGED <<pc, cur, cm, call>>
    BY <1>1 DEF game
  <1>3. CASE pc \notin Serving \/ cur \notin Streams
    <2>1. pc \notin {"topupEnd", "unbusy", "unwait", "after", "leave"}
      BY <1>3 DEF KInv, KindInv, Taking, LInv, ReplyInv, Serving
    <2>2. pc \in {"post"} => cur \notin Streams
      BY <1>3 DEF Serving
    <2> QED BY <1>2, <2>1, <2>2 DEF LInv, ReplyInv, ReplyShape
  <1>4. CASE pc \in Serving /\ cur \in Streams
    <2>1. PICK m \in Mirrors : m = cm
      BY DEF IInv, Shape
    <2>2. Live(m) /\ slot[m].gf \in Streams
      BY <1>4, <2>1, ServingMirror
    <2>3. /\ slot'[m] = slot[m]
          /\ dec[m].broken \/ dec[m].pcm_eof \/ Avail(pcm[m]) > 0
               => dec'[m].broken \/ dec'[m].pcm_eof \/ Avail(pcm'[m]) > 0
          /\ dec[m].pcm_eof /\ Avail(pcm[m]) = 0 => dec'[m].pcm_eof /\ Avail(pcm'[m]) = 0
      BY <2>2, WorkerStays
    <2>4. (Missed => Missed') /\ (Nothing => Nothing')
      BY <1>2, <2>1, <2>3 DEF Missed, Nothing
    <2> QED BY <1>2, <2>1, <2>3, <2>4 DEF LInv, ReplyInv, ReplyShape
  <1> QED BY <1>3, <1>4

(* A top-up finds the end of the stream.                                   *)
LEMMA TopUpReply == ASSUME IInv, JInv, KInv, LInv, TopUp, ReplyShape' PROVE ReplyInv'
  <1>1. CASE pc' # "topupEnd"
    <2>1. Goto("topupEnd") \/ ToppedUpTo
      BY DEF TopUp
    <2>2. pc' \in {"topup", "take", "idle"}
      BY <1>1, <2>1 DEF ToppedUpTo, Goto, Back
    <2> QED BY <2>2, ElseReply DEF Replying
  <1>2. CASE pc' = "topupEnd"
    <2>1. ~ToppedUpTo
      BY <1>2 DEF ToppedUpTo, Goto, Back
    <2>2. PICK m \in Mirrors : m = cm
      BY DEF IInv, Shape
    <2>3. /\ pc = "topup" /\ TopUpMoves(m) /\ Got(m) < TopUpSize(m) /\ UNCHANGED <<cur, cm>>
      BY <2>1, <2>2 DEF TopUp, Goto
    <2>4. Live(m) /\ slot[m].gf = cur /\ cur \in Streams
      BY <2>2, <2>3, ServingMirror DEF Serving, KInv, KindInv
    <2>5. slot'[m].head = Length[cur] + 1
      BY <2>3, <2>4, ShortBlock, TopUpSlot
    <2> QED BY <1>2, <2>2, <2>3, <2>5 DEF ReplyInv
  <1> QED BY <1>1, <1>2

(* A frame that the game thread does not get: there is none, or no room.   *)
LEMMA FrameReply ==
  ASSUME IInv, JInv, KInv, LInv, FrameHere \/ NoFrameHere, ReplyShape' PROVE ReplyInv'
  <1>1. pc = "frame" /\ pc' = "unbusy" /\ UNCHANGED <<cur, cm>>
    BY DEF FrameHere, NoFrameHere, Call
  <1>2. PICK m \in Mirrors : m = cm
    BY DEF IInv, Shape
  <1>3. Live(m) /\ slot[m].gf = cur /\ cur \in Streams
    BY <1>1, <1>2, ServingMirror DEF Serving, KInv, KindInv, Taking
  <1>4. ASSUME ~call'.decoded PROVE Missed'
    <2>1. CASE NoFrameHere
      <3>1. ~CanDecode(m) /\ UNCHANGED <<dec, pcm>>
        BY <1>2, <2>1 DEF NoFrameHere, mirror
      <3>2. Avail(pcm[m]) \in Nat /\ PcmSlots \in Nat \ {0}
        BY <1>3, StreamFacts, VorbisMirrorAssumption
      <3>3. dec[m].broken \/ dec[m].pcm_eof \/ Avail(pcm[m]) > 0
        BY <3>1, <3>2 DEF CanDecode, Unused
      <3> QED BY <1>1, <1>2, <3>1, <3>3 DEF Missed
    <2>2. CASE FrameHere
      <3>1. PICK d : /\ dec' = [dec EXCEPT ![m] = [d EXCEPT !.pcm_eof = TRUE]]
                     /\ DecFields \subseteq DOMAIN d
        <4>1. call' # [call EXCEPT !.decoded = TRUE]
          BY <1>4 DEF LInv, ReplyInv, ReplyShape
        <4>2. DecFields \subseteq DOMAIN dec[m]
          BY <1>3, StreamEndFacts
        <4> QED BY <1>2, <2>2, <4>1, <4>2 DEF FrameHere, Call, RunsDry, Broken
      <3>2. dec'[m].pcm_eof
        BY <3>1 DEF KInv, RingShape, DecFields
      <3> QED BY <1>1, <1>2, <3>2 DEF Missed
    <2> QED BY <2>1, <2>2
  <1> QED BY <1>1, <1>4 DEF ReplyInv

(* A call that gets no frames leaves only at the end, or too late.         *)
LEMMA ServeReply ==
  ASSUME IInv, JInv, KInv, LInv, ReplyShape',
         \/ TakeReady \/ AtEnd \/ BudgetSpent \/ GiveUp
         \/ Unbusy \/ Unwait \/ AfterFrame \/ Leave
  PROVE  ReplyInv'
  <1>1. PICK m \in Mirrors : m = cm
    BY DEF IInv, Shape
  <1>2. /\ pc \in {"take", "look", "try", "unbusy", "unwait", "after", "leave"}
        /\ UNCHANGED <<cur, cm>>
    BY DEF TakeReady, AtEnd, BudgetSpent, GiveUp, Unbusy, Unwait, AfterFrame, Leave, Goto, Call
  <1>3. Live(m) /\ slot[m].gf = cur /\ cur \in Streams
    BY <1>1, <1>2, ServingMirror DEF Serving, KInv, KindInv, Taking, LInv, ReplyInv
  <1>4. CASE Unbusy \/ Unwait \/ Leave
    <2>1. UNCHANGED <<call, slot, dec, pcm>>
      BY <1>4 DEF Unbusy, Unwait, Leave, Goto, mirror
    <2>2. (Missed => Missed') /\ (Nothing => Nothing')
      BY <1>2, <2>1 DEF Missed, Nothing
    <2>3. \/ pc = "unbusy" /\ pc' = "unwait"
          \/ pc = "unwait" /\ pc' = "after"
          \/ pc = "leave" /\ pc' = "post"
      BY <1>4 DEF Unbusy, Unwait, Leave, Goto
    <2> QED BY <1>2, <1>3, <2>1, <2>2, <2>3 DEF LInv, ReplyInv
  <1>5. CASE AfterFrame
    <2>1. pc = "after" /\ (~call.decoded => Missed)
      BY <1>5 DEF AfterFrame, LInv, ReplyInv
    <2>2. pc' = "take"
      <3>1. Avail(pcm[m]) \in Nat
        BY <1>3, StreamFacts
      <3> QED BY <1>1, <1>5, <2>1, <3>1 DEF AfterFrame, Goto, Missed
    <2> QED BY <2>2, ElseReply DEF Replying
  <1>6. CASE AtEnd
    <2>1. CASE Goto("take")
      BY <2>1, ElseReply DEF Goto, Replying
    <2>2. CASE ~Goto("take")
      <3>1. /\ pc' = "leave" /\ call' = [call EXCEPT !.ended = TRUE]
            /\ dec[m].pcm_eof /\ ~(Avail(pcm[m]) > 0) /\ UNCHANGED <<slot, dec, pcm>>
        BY <1>1, <1>6, <2>2 DEF AtEnd, Call, mirror
      <3>2. Avail(pcm[m]) = 0
        BY <1>3, <3>1, StreamFacts
      <3>3. Nothing' /\ call'.ended
        BY <1>1, <1>2, <3>1, <3>2 DEF Nothing, LInv, ReplyInv, ReplyShape
      <3> QED BY <1>2, <1>3, <3>1, <3>3 DEF ReplyInv
    <2> QED BY <2>1, <2>2
  <1>7. CASE GiveUp
    <2>1. /\ pc' = "leave" /\ call' = [[call EXCEPT !.ended = TRUE] EXCEPT !.late = FALSE]
          /\ slot' = [slot EXCEPT ![m].timedout = TRUE]
      BY <1>1, <1>7 DEF GiveUp, Call
    <2>2. call'.ended
      BY <2>1 DEF LInv, ReplyInv, ReplyShape
    <2>3. slot'[m].timedout
      BY <2>1 DEF LInv, SlotTimed, IInv, Shape, SlotShape
    <2> QED BY <1>1, <1>2, <1>3, <2>1, <2>2, <2>3 DEF ReplyInv, Nothing
  <1>8. CASE BudgetSpent
    <2>1. pc' = "leave" /\ call'.n = call.n /\ call.n > 0
      BY <1>8 DEF BudgetSpent, Goto
    <2> QED BY <1>2, <1>3, <2>1 DEF ReplyInv
  <1>9. CASE TakeReady
    <2> DEFINE k == Least(Avail(pcm[m]), Request - call.n)
    <2>1. /\ pc' = IF call.n + k >= MinFrames THEN "leave" ELSE "look"
          /\ call' = [call EXCEPT !.n = @ + k]
      BY <1>1, <1>9 DEF TakeReady, Call
    <2>2. "n" \in DOMAIN call /\ call.n \in Int /\ Avail(pcm[m]) \in Nat /\ Request \in Nat
          /\ MinFrames \in Nat \ {0}
      BY <1>3, StreamFacts, VorbisMirrorAssumption DEF KInv, CountInv
    <2>3. k \in Int
      BY <2>2 DEF Least
    <2> HIDE DEF k
    <2>4. call'.n = call.n + k
      BY <2>1, <2>2
    <2>5. CASE call.n + k >= MinFrames
      BY <1>2, <1>3, <2>1, <2>2, <2>3, <2>4, <2>5 DEF ReplyInv
    <2>6. CASE ~(call.n + k >= MinFrames)
      BY <2>1, <2>6, ElseReply DEF Replying
    <2> QED BY <2>5, <2>6
  <1> QED BY <1>4, <1>5, <1>6, <1>7, <1>8, <1>9

(* A sample's call that hands over nothing says that it has ended.         *)
LEMMA MemoryReply ==
  ASSUME IInv, JInv, KInv, LInv, ReplyShape', MemoryTimesOut \/ MemoryDecodes \/ MemoryReleases
  PROVE  ReplyInv'
  <1>1. UNCHANGED cur
    BY DEF MemoryTimesOut, MemoryDecodes, MemoryReleases, Goto, Call
  <1>2. CASE MemoryTimesOut
    <2>1. pc = "memory" /\ pc' = "post" /\ call'.ended
      BY <1>2 DEF MemoryTimesOut, Call, LInv, ReplyInv, ReplyShape
    <2>2. cur \notin Streams
      BY <2>1 DEF KInv, KindInv
    <2> QED BY <1>1, <2>1, <2>2 DEF ReplyInv
  <1>3. CASE MemoryReleases
    <2>1. pc = "unsample" /\ pc' = "post" /\ UNCHANGED call
      BY <1>3 DEF MemoryReleases, Goto
    <2> QED BY <1>1, <2>1 DEF LInv, ReplyInv
  <1>4. CASE MemoryDecodes
    <2> DEFINE k == Least(Request, Length[cur] + 1 - dec[cm].next)
               e == k < Request \/ dec[cm].eof
    <2>1. /\ pc = "sample" /\ pc' = "unsample"
          /\ \/ call' = [[call EXCEPT !.n = k] EXCEPT !.ended = e]
             \/ call' = [call EXCEPT !.ended = TRUE]
      BY <1>4 DEF MemoryDecodes, Call
    <2>2. cur \notin Streams
      BY <2>1 DEF KInv, KindInv
    <2>3. k = 0 => e
      BY VorbisMirrorAssumption
    <2> HIDE DEF k, e
    <2>4. call'.ended \/ (call'.n = k /\ call'.ended = e)
      BY <2>1 DEF LInv, ReplyInv, ReplyShape, KInv, CountInv
    <2> QED BY <1>1, <2>1, <2>2, <2>3, <2>4 DEF ReplyInv
  <1> QED BY <1>2, <1>3, <1>4

(* The guest and the steps that find nothing                               *)
LEMMA GuestReply ==
  ASSUME IInv, JInv, KInv, LInv, ReplyShape', Guest \/ LonePump PROVE ReplyInv'
  <1>1. CASE \E f \in States : Open(f) \/ Seek(f) \/ Close(f) \/ Decode(f)
    <2>1. pc' \in {"idle", "start", "pump", "close", "quiesce", "topup", "memory"}
      BY <1>1 DEF Open, Seek, Close, Decode, game
    <2> QED BY <2>1, ElseReply DEF Replying
  <1>2. CASE \E f \in States : Pump(f)
    BY <1>2, ElseReply DEF Pump, Back, Replying
  <1> QED BY <1>1, <1>2 DEF Guest, LonePump

(* A call that ends, begins, retires or looks for a mirror                 *)
LEMMA OtherReply ==
  ASSUME IInv, ReplyShape',
         \/ (\E f \in States : Pump(f)) \/ CloseState
         \/ Quiesced \/ QuiesceFails \/ Retire \/ RetireReleases \/ RetireClears
         \/ Take \/ Evict \/ PoolFull \/ Claim \/ PoolBusy \/ Clone \/ Ready
         \/ Reject \/ RejectReleases \/ Rejected
         \/ TopUpEnd \/ (\E late \in BOOLEAN : Look(late)) \/ TryAcquire \/ TryAgain
         \/ MemoryAcquire \/ DropMirror \/ Return \/ Translated
  PROVE  ReplyInv'
  <1>1. pc' \notin Replying
    <2>1. CASE (\E f \in States : Pump(f)) \/ CloseState \/ Return \/ Translated
      BY <2>1 DEF Pump, CloseState, Return, Translated, Back, Replying
    <2>2. CASE Quiesced \/ Retire \/ RetireReleases \/ Claim \/ Clone \/ Ready \/ Reject
               \/ RejectReleases
      BY <2>2 DEF Quiesced, Retire, RetireReleases, Claim, Clone, Ready, Reject,
                  RejectReleases, Goto, Replying
    <2>3. CASE Take \/ Evict \/ DropMirror
      BY <2>3 DEF Take, Evict, DropMirror, Replying
    <2>4. CASE PoolFull \/ PoolBusy \/ Rejected
      BY <2>4 DEF PoolFull, PoolBusy, Rejected, Without, Goto, Back, Replying
    <2>5. CASE TopUpEnd
      BY <2>5 DEF TopUpEnd, ToppedUpTo, Goto, Back, Replying
    <2>6. CASE (\E late \in BOOLEAN : Look(late)) \/ TryAcquire \/ TryAgain \/ MemoryAcquire
      BY <2>6 DEF Look, TryAcquire, TryAgain, MemoryAcquire, Goto, Call, Replying
    <2>7. CASE QuiesceFails \/ RetireClears
      <3>1. Goto("translated") \/ After
        BY <2>7 DEF QuiesceFails, RetireClears
      <3>2. ret \in Rets
        BY <2>7 DEF QuiesceFails, RetireClears, IInv, PlaceInv
      <3> QED BY <3>1, <3>2 DEF After, Rets, Goto, Replying
    <2> QED BY <2>1, <2>2, <2>3, <2>4, <2>5, <2>6, <2>7
  <1> QED BY <1>1, ElseReply

(* The invariant is inductive.                                             *)
LEMMA NextReply == IInv /\ JInv /\ KInv /\ LInv /\ [Next]_vars => LInv'
  <1> SUFFICES ASSUME IInv, JInv, KInv, LInv, [Next]_vars PROVE LInv' OBVIOUS
  <1>1. SlotTimed' /\ EndInv' /\ ReplyShape'
    BY NextTimed, NextEnds, NextCall DEF LInv, ReplyInv
  <1>2. ReplyInv'
    <2>1. CASE UNCHANGED vars
      <3>1. UNCHANGED <<pc, cur, cm, call, slot, dec, pcm>>
        BY <2>1 DEF vars, game, mirror
      <3> QED BY <3>1 DEF LInv, ReplyInv, ReplyShape, Missed, Nothing
    <2> QED BY <1>1, <2>1, GuestReply, OtherReply, TopUpReply, FrameReply, ServeReply, MemoryReply,
               WorkerReply DEF Next, InCall
  <1> QED BY <1>1, <1>2 DEF LInv

(* The ends of streams and of calls hold in every behaviour.               *)
THEOREM EndInvariance == ASSUME DecodesSoon PROVE Spec => [](IInv /\ JInv /\ KInv /\ LInv)
  <1>1. Init => IInv /\ JInv /\ KInv /\ LInv
    BY InitInv, InitBack, InitFilled, InitEnds
  <1>2. (IInv /\ JInv /\ KInv /\ LInv) /\ [Next]_vars => (IInv /\ JInv /\ KInv /\ LInv)'
    BY NextInv, NextBack, NextFilled, NextReply
  <1> QED BY <1>1, <1>2, PTL DEF Spec

(* "0 frames reach the guest only at a real end of stream"                 *)
(* (host_vita_native_vorbis.c): a call that returns to the guest with      *)
(* nothing has handed over every frame of the file.                        *)
THEOREM NothingOnlyAtTheEnd == ASSUME DecodesSoon PROVE Spec => ZeroOnlyAtEnd
  <1>1. ASSUME IInv, JInv, KInv, LInv, [Next]_vars
        PROVE  [pc = "post" /\ pc' = "idle" /\ call.n = 0 => want[cur] = Length[cur] + 1]_vars
    <2> SUFFICES ASSUME Next, pc = "post", pc' = "idle", call.n = 0
                 PROVE  want[cur] = Length[cur] + 1
      BY <1>1
    <2>1. Return
      <3>1. ~Worker
        <4>1. Worker => UNCHANGED game
          BY DEF Worker, Sample, PreCheck, Acquire, Validate, Fill, WorkerDecodes, WorkerEnds,
                 Publish, PublishEnd, Yield
        <4> QED BY <4>1 DEF game
      <3>2. ~Guest /\ ~LonePump
        BY DEF Guest, LonePump, Open, Seek, Close, Decode
      <3>3. InCall => Return
        BY DEF InCall, Pump, CloseState, Quiesced, QuiesceFails, Retire, RetireReleases,
               RetireClears, Take, Evict, PoolFull, Claim, PoolBusy, Clone, Ready, Reject,
               RejectReleases, Rejected, TopUp, TopUpEnd, TakeReady, AtEnd, BudgetSpent, Look,
               TryAcquire, TryAgain, GiveUp, FrameHere, NoFrameHere, Unbusy, Unwait, AfterFrame,
               Leave, MemoryAcquire, MemoryTimesOut, MemoryDecodes, MemoryReleases, DropMirror,
               Translated
      <3> QED BY <3>1, <3>2, <3>3 DEF Next
    <2>2. PICK m \in Mirrors : m = cm
      BY <1>1 DEF IInv, Shape
    <2>3. Live(m) /\ slot[m].gf = cur /\ cur \in States /\ m \in Lookup(cur)
      <3>1. m \in Lookup(cur)
        BY <1>1, <2>2 DEF JInv, CallInv, Serving
      <3> QED BY <1>1, <2>2, <3>1, ServingMirror DEF Serving
    <2>4. slot[m].mode = IF cur \in Streams THEN "stream" ELSE "memory"
      BY <1>1, <2>3 DEF JInv, ModeInv, Live
    <2>5. CASE cur \in Streams
      <3>1. call.ended /\ (slot[m].timedout \/ (dec[m].pcm_eof /\ Avail(pcm[m]) = 0))
        BY <1>1, <2>2, <2>5 DEF LInv, ReplyInv, Nothing
      <3>2. ~dec[m].broken /\ ~slot[m].timedout
        BY <2>1, <2>2, <3>1 DEF Return, ZeroNotEnd
      <3>3. /\ dec[m].ogg_eof /\ Avail(ogg[m]) = 0 /\ slot[m].head = Length[cur] + 1
            /\ ~(wm = m /\ wpc = "publish") /\ dec[m].pcm_eof /\ Avail(pcm[m]) = 0
        BY <1>1, <2>3, <2>5, <3>1, <3>2, StreamEndFacts
      <3>4. dec[m].next = want[cur] + Avail(pcm[m]) + 0
        BY <1>1, <2>3, <2>5, <3>3, StreamCounts
      <3>5. slot[m].head = dec[m].next + Avail(ogg[m]) /\ dec[m].next \in Int /\ want[cur] \in Int
        BY <1>1, <2>3, <2>5, StreamFacts DEF StreamFrom
      <3> QED BY <3>3, <3>4, <3>5
    <2>6. CASE cur \notin Streams
      <3>1. call.ended
        BY <1>1, <2>6 DEF LInv, ReplyInv
      <3>2. dec[m].eof
        BY <2>1, <2>2, <2>4, <2>6, <3>1 DEF Return, ZeroNotEnd
      <3>3. dec[m].next = Length[cur] + 1
        BY <1>1, <2>3, <2>6, <3>2 DEF LInv, EndInv, Ended, SampleEnds
      <3>4. dec[m].next = want[cur]
        BY <1>1, <2>3, <2>6 DEF KInv, FilledInv, Filled, SampleFrom
      <3> QED BY <3>3, <3>4
    <2> QED BY <2>5, <2>6
  <1> QED BY <1>1, EndInvariance, PTL DEF Spec, ZeroOnlyAtEnd
=============================================================================
