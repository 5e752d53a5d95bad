---------------------------- MODULE VorbisMirror ----------------------------
(***************************************************************************)
(* The native Vorbis mirrors (host_vita_native_vorbis.c, WORKER and ASYNC  *)
(* builds): the guest's decoder states are cloned into host mirrors; the   *)
(* game thread reads Ogg bytes ahead of the guest's stream into a ring, a  *)
(* worker decodes them into a ring of PCM, and the wrapped decoder call    *)
(* hands over what is ready or decodes on the game thread.                 *)
(*                                                                         *)
(* A file is packets 0 .. Length[f]; packet 0 primes the decoder, each     *)
(* other one is a frame.  A byte of the Ogg ring is one packet, a byte of  *)
(* PCM one frame.  A step has at most one store that the other thread can  *)
(* see, stores under `busy` that only its holder reads apart.  A           *)
(* generation is only compared: `same` says it has not changed since the   *)
(* look the worker took.                                                   *)
(***************************************************************************)
EXTENDS Integers, FiniteSets

CONSTANTS
  States,       \* addresses of the guest's decoder states
  Streams,      \* those that read a KAGE stream; the others are in memory
  None,         \* no state
  MirrorCount,  \* ISAAC_NV_MIRRORS_MAX
  Length,       \* Length[f]: frames of a state's file
  OggSlots,     \* ISAAC_NV_OGG_RING_BYTES, in packets
  PcmSlots,     \* ISAAC_NV_PCM_RING_BYTES, in frames
  CounterMod,   \* head and tail are uint32_t
  Chunk,        \* ISAAC_NV_TOPUP_CHUNK_BYTES, in packets
  EarlyChunks,  \* ISAAC_NV_EARLY_TOPUP_CHUNKS
  Request,      \* frames the guest asks for
  MinFrames,    \* ISAAC_NV_SLOT_MIN_FRAMES, at most Request
  PassFrames,   \* ISAAC_NV_WORKER_FRAMES_PER_PASS
  MayBreak,     \* an assertion or an underrun may end a decode
  DecodesSoon   \* an opened or moved state is decoded within EVICT_IDLE_US

Mirrors == 1 .. MirrorCount

ASSUME VorbisMirrorAssumption ==
  /\ Streams \subseteq States /\ None \notin States
  /\ {MirrorCount, OggSlots, PcmSlots, CounterMod} \subseteq Nat \ {0}
  /\ {Chunk, EarlyChunks, Request, MinFrames, PassFrames} \subseteq Nat \ {0}
  /\ Length \in [States -> Nat \ {0}] /\ MinFrames <= Request
  /\ CounterMod % OggSlots = 0 /\ CounterMod % PcmSlots = 0
  /\ OggSlots < CounterMod /\ PcmSlots < CounterMod
  /\ MayBreak \in BOOLEAN /\ DecodesSoon \in BOOLEAN

VARIABLES
  \* the guest: its states, where each KAGE stream stands, and (history) the
  \* frame each state's listener is to hear next
  gs, phys, want,
  \* a mirror's flags
  busy, active, retiring, waiting,
  \* its identity and bookkeeping (game thread), decoder state and rings
  slot, dec, ogg, pcm,
  \* the game thread: place, state and mirror of the call, where a retire
  \* goes on, whether an open began it, and the locals of nv_serve_stream
  pc, cur, cm, ret, early, call,
  \* the worker: place, mirror, generation unchanged, frames of this pass,
  \* the frame it has decoded and not published
  wpc, wm, same, passed, hand

guest  == <<gs, phys, want>>
flags  == <<busy, active, retiring, waiting>>
mirror == <<slot, dec, ogg, pcm>>
game   == <<pc, cur, cm, ret, early, call>>
worker == <<wpc, wm, same, passed, hand>>
vars   == <<guest, flags, mirror, game, worker>>

-----------------------------------------------------------------------------
(* The rings: single producer, single consumer, free-running counters      *)

Avail(r)       == (r.head - r.tail) % CounterMod
Unused(r, C)   == C - Avail(r)
Front(r, C)    == r.data[r.tail % C]
Item(r, C, i)  == r.data[(r.tail + i) % C]
Offset(i, h, C) == (i - h) % C

(* n consecutive numbers from x; what has been read is not read again      *)
RingWrite(r, C, x, n) ==
  [r EXCEPT !.head = (@ + n) % CounterMod,
            !.data = [i \in 0 .. C - 1 |->
              IF Offset(i, r.head, C) < n THEN x + Offset(i, r.head, C) ELSE @[i]]]
RingRead(r, C, n) ==
  [r EXCEPT !.tail = (@ + n) % CounterMod,
            !.data = [i \in 0 .. C - 1 |-> IF Offset(i, r.tail, C) < n THEN -1 ELSE @[i]]]
RingReset(C) == [head |-> 0, tail |-> 0, data |-> [i \in 0 .. C - 1 |-> -1]]

-----------------------------------------------------------------------------
Least(a, b) == IF a <= b THEN a ELSE b
First(S)    == CHOOSE x \in S : \A y \in S : x <= y

Closed  == [open |-> FALSE, pos |-> 0, held |-> FALSE, eof |-> FALSE]
Opened  == [Closed EXCEPT !.open = TRUE, !.pos = 1]
Inert   == [gf |-> None, mode |-> "none", dirty |-> FALSE, stale |-> FALSE, poisoned |-> FALSE,
            logical |-> 0, head |-> 0, physOK |-> FALSE, physPos |-> 0, timedout |-> FALSE]
Decoder == [next |-> 0, broken |-> FALSE, pcm_eof |-> FALSE, ogg_eof |-> FALSE, eof |-> FALSE]
(* What a start sets before anything reads it is put back to its first     *)
(* value when the mirror is retired.                                       *)
Emptied(s) == [Inert EXCEPT !.poisoned = s.poisoned]
NoCall  == [n |-> 0, ended |-> FALSE, began |-> FALSE, waits |-> FALSE, late |-> FALSE,
            decoded |-> FALSE]

Init ==
  /\ gs = [f \in States |-> Closed] /\ phys = [f \in States |-> 0]
  /\ want = [f \in States |-> 0]
  /\ busy = [m \in Mirrors |-> "none"] /\ active = [m \in Mirrors |-> FALSE]
  /\ retiring = [m \in Mirrors |-> FALSE] /\ waiting = [m \in Mirrors |-> FALSE]
  /\ slot = [m \in Mirrors |-> Inert] /\ dec = [m \in Mirrors |-> Decoder]
  /\ ogg = [m \in Mirrors |-> RingReset(OggSlots)]
  /\ pcm = [m \in Mirrors |-> RingReset(PcmSlots)]
  /\ pc = "idle" /\ cur = None /\ cm = 1 /\ ret = "none" /\ early = FALSE /\ call = NoCall
  /\ wpc = "sample" /\ wm = 1 /\ same = FALSE /\ passed = 0 /\ hand = -1

Set(flag, m, v)   == flag' = [flag EXCEPT ![m] = v]
Moved(p, f, to) == IF f \in Streams THEN [p EXCEPT ![f] = to] ELSE p

(* The game thread's place and call                                        *)
Goto(l) == pc' = l /\ UNCHANGED <<cur, cm, ret, early, call>>
Back    == pc' = "idle" /\ cur' = None /\ cm' = 1 /\ ret' = "none" /\ early' = FALSE
           /\ call' = NoCall

(* nv_lookup                                                               *)
Lookup(f) == {m \in Mirrors : active[m] /\ slot[m].gf = f}

(* The guest has neither moved the state nor opened another in its place   *)
Current(m) == ~slot[m].dirty /\ ~slot[m].stale

(* nv_guest_seek, back to where the state was cloned: nv_guest_sync        *)
Stands(m, p) == slot[m].physOK /\ slot[m].physPos = p
SyncedPhys_TrustsTheMirror(m) ==
  IF slot[m].mode = "stream" /\ ~slot[m].physOK
  THEN [phys EXCEPT ![slot[m].gf] = slot[m].logical] ELSE phys
SyncedPhys(m) ==
  IF slot[m].mode = "stream" /\ ~Stands(m, slot[m].logical)
  THEN [phys EXCEPT ![slot[m].gf] = slot[m].logical] ELSE phys
SyncedSlot(m) ==
  IF slot[m].mode = "stream"
  THEN [slot EXCEPT ![m].physOK = TRUE, ![m].physPos = slot[m].logical] ELSE slot
Sync(m) == phys' = SyncedPhys(m) /\ slot' = SyncedSlot(m)

-----------------------------------------------------------------------------
(* What the guest does with a state between two decodes                    *)

(* stb_vorbis_open_file, perhaps over a state that was not closed: the     *)
(* translated body, then a stream is cloned at once.  open_memory is not   *)
(* wrapped.                                                                *)
Open(f) ==
  /\ pc = "idle"
  /\ gs' = [gs EXCEPT ![f] = Opened]
  /\ phys' = Moved(phys, f, 1) /\ want' = [want EXCEPT ![f] = 1]
  /\ IF f \in Streams /\ Lookup(f) = {}
     THEN pc' = "start" /\ cur' = f /\ early' = TRUE /\ UNCHANGED <<cm, ret, call>>
     ELSE UNCHANGED game
  /\ slot' = [m \in Mirrors |-> IF m \in Lookup(f) THEN [slot[m] EXCEPT !.stale = TRUE]
                                                   ELSE slot[m]]
  /\ UNCHANGED <<flags, dec, ogg, pcm, worker>>

(* set_file_offset to the first packet; the pump always follows            *)
Dirty_OnlyTheStream(f, sl) ==
  [m \in Mirrors |-> IF m \in Lookup(f) THEN [sl[m] EXCEPT !.physOK = FALSE] ELSE sl[m]]
Dirty(f, sl) ==
  [m \in Mirrors |-> IF m \in Lookup(f) THEN [sl[m] EXCEPT !.dirty = TRUE, !.physOK = FALSE]
                     ELSE sl[m]]
Seek(f) ==
  /\ pc = "idle" /\ gs[f].open
  /\ slot' = Dirty(f, slot)
  /\ gs' = [gs EXCEPT ![f].pos = 0, ![f].eof = FALSE]
  /\ phys' = Moved(phys, f, 0) /\ want' = [want EXCEPT ![f] = 0]
  /\ pc' = "pump" /\ cur' = f
  /\ UNCHANGED <<flags, dec, ogg, pcm, cm, ret, early, call, worker>>

(* vorbis_pump_first_frame, after a seek or by itself: the stream is put   *)
(* back under a state that has not moved, and one packet is decoded        *)
Pumped(f, s) ==
  IF s.eof \/ s.pos > Length[f] THEN [s EXCEPT !.held = FALSE, !.eof = TRUE]
                                ELSE [s EXCEPT !.held = FALSE, !.pos = @ + 1]
Pump(f) ==
  /\ \/ pc = "pump" /\ cur = f
     \/ pc = "idle" /\ gs[f].open /\ \A m \in Lookup(f) : ~slot[m].stale
  /\ LET behind == {m \in Lookup(f) : ~slot[m].dirty}
         stands == IF behind = {} THEN phys ELSE SyncedPhys(First(behind))
     IN phys' = Moved(stands, f, stands[f] + Pumped(f, gs[f]).pos - gs[f].pos)
  /\ slot' = Dirty(f, slot)
  /\ gs' = [gs EXCEPT ![f] = Pumped(f, @)] /\ want' = [want EXCEPT ![f] = Pumped(f, gs[f]).pos]
  /\ Back
  /\ UNCHANGED <<flags, dec, ogg, pcm, worker>>

(* vorbis_deinit, or the free of the buffer that holds the state, which    *)
(* retire the mirror first                                                 *)
Close(f) ==
  /\ pc = "idle" /\ gs[f].open /\ cur' = f
  /\ IF Lookup(f) = {} THEN pc' = "close" /\ UNCHANGED <<retiring, cm, ret>>
     ELSE /\ cm' = First(Lookup(f)) /\ Set(retiring, cm', TRUE)
          /\ pc' = "quiesce" /\ ret' = "close"
  /\ UNCHANGED <<guest, busy, active, waiting, mirror, early, call, worker>>
CloseState ==
  /\ pc = "close" /\ gs' = [gs EXCEPT ![cur] = Closed] /\ phys' = Moved(phys, cur, 0)
  /\ want' = [want EXCEPT ![cur] = 0] /\ Back
  /\ UNCHANGED <<flags, mirror, worker>>

-----------------------------------------------------------------------------
(* nv_resolve                                                              *)

(* The mirror is good, or it is quiesced and cloned again.  A state that   *)
(* was not moved gets its stream back first.                               *)
Decode(f) ==
  /\ pc = "idle" /\ gs[f].open /\ cur' = f
  /\ \/ Lookup(f) = {} /\ pc' = "start" /\ UNCHANGED <<phys, slot, retiring, cm, ret>>
     \/ \E m \in Lookup(f), channels \in BOOLEAN :    \* another layout is asked for
          /\ cm' = m
          /\ IF slot[m].dirty \/ slot[m].stale \/ channels
             THEN /\ pc' = "quiesce" /\ ret' = IF slot[m].stale THEN "reopen" ELSE "reclone"
                  /\ Set(retiring, m, TRUE)
                  /\ IF Current(m) THEN Sync(m) ELSE UNCHANGED <<phys, slot>>
             ELSE /\ pc' = IF slot[m].mode = "stream" THEN "topup" ELSE "memory"
                  /\ UNCHANGED <<phys, slot, retiring, ret>>
  /\ UNCHANGED <<gs, want, busy, active, waiting, dec, ogg, pcm, early, call, worker>>

-----------------------------------------------------------------------------
(* nv_quiesce and what follows it                                          *)

(* Where a decode goes on that has no mirror                               *)
Without == IF early THEN Back ELSE Goto("translated")

Quiesced ==
  /\ pc = "quiesce" /\ busy[cm] = "none" /\ Set(busy, cm, "game")
  /\ Goto(IF ret = "reclone" THEN "clone" ELSE "inert")
  /\ UNCHANGED <<guest, active, retiring, waiting, mirror, worker>>

After ==                \* the retire has returned
  CASE ret = "close"   -> Goto("close")
    [] ret = "reopen"  -> Goto("start")
    [] ret = "evict"   -> Goto("claim")
    [] ret = "zero"    -> Goto("translated")
    [] ret = "reclone" -> Goto("translated")

(* The worker has held the mirror for twice the time-out: poisoned         *)
QuiesceFails ==
  /\ pc = "quiesce" /\ busy[cm] # "none"
  /\ slot' = [slot EXCEPT ![cm] = [Inert EXCEPT !.poisoned = TRUE, !.mode = slot[cm].mode]]
  /\ Set(active, cm, FALSE)
  /\ IF ret = "reopen" THEN Goto("translated") ELSE After
  /\ UNCHANGED <<guest, busy, retiring, waiting, dec, ogg, pcm, worker>>

(* The slot changes hands                                                  *)
Changes(m) == same' = (same /\ wm # m) /\ UNCHANGED <<wpc, wm, passed, hand>>

Empties(m) ==
  /\ slot' = [slot EXCEPT ![m] = Emptied(@)] /\ dec' = [dec EXCEPT ![m] = Decoder]
  /\ ogg' = [ogg EXCEPT ![m] = RingReset(OggSlots)]
  /\ pcm' = [pcm EXCEPT ![m] = RingReset(PcmSlots)]

Retire ==
  /\ pc = "inert" /\ Set(active, cm, FALSE)
  /\ Empties(cm)
  /\ Changes(cm) /\ Goto("release")
  /\ UNCHANGED <<guest, busy, retiring, waiting>>
RetireReleases ==
  /\ pc = "release" /\ Set(busy, cm, "none") /\ Goto("clear")
  /\ UNCHANGED <<guest, active, retiring, waiting, mirror, worker>>
RetireClears ==
  /\ pc = "clear" /\ Set(retiring, cm, FALSE) /\ After
  /\ UNCHANGED <<guest, busy, active, waiting, mirror, worker>>

-----------------------------------------------------------------------------
(* nv_pool_take and nv_start                                               *)

Usable    == {m \in Mirrors : ~slot[m].poisoned}
Free      == {m \in Usable : ~active[m]}
Idle      == {m \in Usable : active[m] /\ (DecodesSoon => Current(m))}

Take ==
  /\ pc = "start" /\ Free # {}
  /\ pc' = "claim" /\ cm' = First(Free)
  /\ UNCHANGED <<guest, flags, mirror, cur, ret, early, call, worker>>
Evict ==                \* the one that has been idle longest
  /\ pc = "start" /\ Free = {}
  /\ \E m \in Idle : Sync(m) /\ Set(retiring, m, TRUE) /\ cm' = m
  /\ pc' = "quiesce" /\ ret' = "evict"
  /\ UNCHANGED <<gs, want, busy, active, waiting, dec, ogg, pcm, cur, early, call, worker>>
PoolFull ==             \* nothing has been idle long enough
  /\ pc = "start" /\ Free = {} /\ Without
  /\ UNCHANGED <<guest, flags, mirror, worker>>

Claim ==
  /\ pc = "claim" /\ busy[cm] = "none" /\ Set(busy, cm, "game") /\ Goto("clone")
  /\ UNCHANGED <<guest, active, retiring, waiting, mirror, worker>>
PoolBusy ==
  /\ pc = "claim" /\ busy[cm] # "none" /\ Without
  /\ UNCHANGED <<guest, flags, mirror, worker>>

(* nv_clone_into, the identity, the rings, the stream's position and the   *)
(* frame the guest's state holds decoded and has not handed out            *)
Clone ==
  /\ pc = "clone"
  /\ LET s == gs[cur]
         first == s.pos - (IF s.held THEN 1 ELSE 0)
     IN /\ slot' = [slot EXCEPT ![cm] =
             [@ EXCEPT !.gf = cur, !.mode = IF cur \in Streams THEN "stream" ELSE "memory",
                       !.dirty = FALSE, !.stale = FALSE, !.timedout = FALSE, !.logical = phys[cur],
                       !.head = phys[cur], !.physOK = cur \in Streams, !.physPos = phys[cur]]]
        /\ dec' = [dec EXCEPT ![cm] =
             [Decoder EXCEPT !.next = IF cur \in Streams THEN s.pos ELSE first]]
        /\ ogg' = [ogg EXCEPT ![cm] = RingReset(OggSlots)]
        /\ pcm' = [pcm EXCEPT ![cm] =
             IF s.held /\ cur \in Streams THEN RingWrite(RingReset(PcmSlots), PcmSlots, first, 1)
                                          ELSE RingReset(PcmSlots)]
        /\ want' = [want EXCEPT ![cur] = first]
  /\ Set(retiring, cm, FALSE) /\ Set(active, cm, TRUE)
  /\ Changes(cm) /\ Goto("ready")
  /\ UNCHANGED <<gs, phys, busy, waiting>>
Ready ==
  /\ pc = "ready" /\ Set(busy, cm, "none")
  /\ Goto(IF slot[cm].mode = "stream" THEN "topup" ELSE "memory")
  /\ UNCHANGED <<guest, active, retiring, waiting, mirror, worker>>

(* The clone is rejected, memory is short or the stream does not answer    *)
Reject ==
  /\ pc = "clone" /\ Set(active, cm, FALSE)
  /\ Empties(cm) /\ Changes(cm) /\ Goto("reject")
  /\ UNCHANGED <<guest, busy, retiring, waiting>>
RejectReleases ==
  /\ pc = "reject" /\ Set(busy, cm, "none") /\ Goto("rejected")
  /\ UNCHANGED <<guest, active, retiring, waiting, mirror, worker>>
Rejected ==
  /\ pc = "rejected" /\ Set(retiring, cm, FALSE) /\ Without
  /\ UNCHANGED <<guest, busy, active, waiting, mirror, worker>>

-----------------------------------------------------------------------------
(* nv_topup: one block of the stream into the ring, then its end           *)

TopUpSize(m) == Least(Unused(ogg[m], OggSlots), Chunk)
ReadsAt(m)   == IF Stands(m, slot[m].head) THEN phys[slot[m].gf] ELSE slot[m].head
Got(m)       == Least(TopUpSize(m), Length[slot[m].gf] + 1 - ReadsAt(m))
CanTopUp(m)  == ~dec[m].ogg_eof /\ TopUpSize(m) > 0

ToppedUp(m)  == RingWrite(ogg[m], OggSlots, ReadsAt(m), Got(m))
TopUpMoves(m) ==
  /\ phys' = [phys EXCEPT ![slot[m].gf] = ReadsAt(m) + Got(m)]
  /\ slot' = [slot EXCEPT ![m].head = @ + Got(m), ![m].physOK = TRUE,
                          ![m].physPos = slot[m].head + Got(m)]

(* An open tops up a few times, a decode once                              *)
ToppedUpTo ==
  IF ~early THEN Goto("take")
  ELSE IF call.n + 1 >= EarlyChunks THEN Back
  ELSE pc' = "topup" /\ call' = [call EXCEPT !.n = @ + 1] /\ UNCHANGED <<cur, cm, ret, early>>

TopUp ==
  /\ pc = "topup"
  /\ IF CanTopUp(cm)
     THEN /\ ogg' = [ogg EXCEPT ![cm] = ToppedUp(cm)] /\ TopUpMoves(cm)
          /\ IF Got(cm) < TopUpSize(cm) THEN Goto("topupEnd") ELSE ToppedUpTo
     ELSE UNCHANGED <<ogg, phys, slot>> /\ ToppedUpTo
  /\ UNCHANGED <<gs, want, flags, dec, pcm, worker>>
TopUpEnd ==
  /\ pc = "topupEnd" /\ dec' = [dec EXCEPT ![cm].ogg_eof = TRUE] /\ ToppedUpTo
  /\ UNCHANGED <<guest, flags, slot, ogg, pcm, worker>>

-----------------------------------------------------------------------------
(* nv_serve_stream                                                         *)

Call(l, c) == pc' = l /\ call' = c /\ UNCHANGED <<cur, cm, ret, early>>

TakeReady ==
  /\ pc = "take"
  /\ LET k == Least(Avail(pcm[cm]), Request - call.n) IN
       /\ pcm' = [pcm EXCEPT ![cm] = RingRead(@, PcmSlots, k)]
       /\ want' = [want EXCEPT ![cur] = @ + k]
       /\ Call(IF call.n + k >= MinFrames THEN "leave" ELSE "look", [call EXCEPT !.n = @ + k])
  /\ UNCHANGED <<gs, phys, flags, slot, dec, ogg, worker>>

(* The last frame is published before pcm_eof: it is taken first           *)
AtEnd ==
  /\ pc = "look" /\ dec[cm].pcm_eof
  /\ IF Avail(pcm[cm]) > 0 THEN Goto("take") ELSE Call("leave", [call EXCEPT !.ended = TRUE])
  /\ UNCHANGED <<guest, flags, mirror, worker>>

(* Some frames, and the budget is spent                                    *)
BudgetSpent ==
  /\ pc = "look" /\ ~dec[cm].pcm_eof /\ call.began /\ call.n > 0 /\ Goto("leave")
  /\ UNCHANGED <<guest, flags, mirror, worker>>

(* The game thread wants the decoder.  A wait for the worker that has been *)
(* too long is past the budget, too.                                       *)
Look(late) ==
  /\ pc = "look" /\ ~dec[cm].pcm_eof /\ (late => call.waits /\ call.n = 0)
  /\ Set(waiting, cm, TRUE) /\ Call("try", [call EXCEPT !.began = TRUE, !.late = late])
  /\ UNCHANGED <<guest, busy, active, retiring, mirror, worker>>

TryAcquire ==
  /\ pc = "try" /\ busy[cm] = "none" /\ Set(busy, cm, "game")
  /\ Call("frame", [call EXCEPT !.waits = FALSE, !.late = FALSE])
  /\ UNCHANGED <<guest, active, retiring, waiting, mirror, worker>>
TryAgain ==
  /\ pc = "try" /\ busy[cm] # "none" /\ ~call.late
  /\ Call("take", [call EXCEPT !.waits = TRUE])
  /\ UNCHANGED <<guest, flags, mirror, worker>>
GiveUp_Never ==
  /\ pc = "try" /\ busy[cm] # "none" /\ call.late
  /\ Call("take", [call EXCEPT !.waits = TRUE, !.late = FALSE])
  /\ UNCHANGED <<guest, flags, mirror, worker>>
GiveUp ==
  /\ pc = "try" /\ busy[cm] # "none" /\ call.late
  /\ Set(waiting, cm, FALSE) /\ slot' = [slot EXCEPT ![cm].timedout = TRUE]
  /\ Call("leave", [call EXCEPT !.ended = TRUE, !.late = FALSE])
  /\ UNCHANGED <<guest, busy, active, retiring, dec, ogg, pcm, worker>>

(* nv_decode_frame: what one packet of ring r does to the decoder          *)
Broken(d)     == [d EXCEPT !.broken = TRUE]
RunsDry(d)    == [d EXCEPT !.broken = ~d.ogg_eof]
Decoded(d)    == [d EXCEPT !.next = @ + 1]
Sound(d, r)   == IF Front(r, OggSlots) = d.next THEN d.next ELSE 0

(* One frame on the game thread, which holds the decoder                   *)
CanDecode(m) == ~dec[m].broken /\ ~dec[m].pcm_eof /\ Unused(pcm[m], PcmSlots) > 0
FrameHere ==
  /\ pc = "frame" /\ CanDecode(cm)
  /\ LET short == Avail(ogg[cm]) = 0 /\ ~dec[cm].ogg_eof
         r == IF short THEN ToppedUp(cm) ELSE ogg[cm]
         d == [dec[cm] EXCEPT !.ogg_eof = @ \/ (short /\ Got(cm) < TopUpSize(cm))]
     IN /\ IF short THEN TopUpMoves(cm) ELSE UNCHANGED <<phys, slot>>
        /\ \/ /\ Avail(r) > 0
              /\ ogg' = [ogg EXCEPT ![cm] = RingRead(r, OggSlots, 1)]
              /\ pcm' = [pcm EXCEPT ![cm] = RingWrite(@, PcmSlots, Sound(d, r), 1)]
              /\ dec' = [dec EXCEPT ![cm] = Decoded(d)]
              /\ Call("unbusy", [call EXCEPT !.decoded = TRUE])
           \/ /\ Avail(r) = 0 \/ MayBreak
              /\ dec' = [dec EXCEPT ![cm] = [(IF Avail(r) = 0 THEN RunsDry(d) ELSE Broken(d))
                                               EXCEPT !.pcm_eof = TRUE]]
              /\ ogg' = [ogg EXCEPT ![cm] = r] /\ UNCHANGED pcm
              /\ Call("unbusy", [call EXCEPT !.decoded = FALSE])
  /\ UNCHANGED <<gs, want, flags, worker>>
NoFrameHere ==
  /\ pc = "frame" /\ ~CanDecode(cm) /\ Call("unbusy", [call EXCEPT !.decoded = FALSE])
  /\ UNCHANGED <<guest, flags, mirror, worker>>

Unbusy ==
  /\ pc = "unbusy" /\ Set(busy, cm, "none") /\ Goto("unwait")
  /\ UNCHANGED <<guest, active, retiring, waiting, mirror, worker>>
Unwait ==
  /\ pc = "unwait" /\ Set(waiting, cm, FALSE) /\ Goto("after")
  /\ UNCHANGED <<guest, busy, active, retiring, mirror, worker>>

AfterFrame ==
  /\ pc = "after"
  /\ LET empty == Avail(pcm[cm]) = 0
         ends  == dec[cm].pcm_eof \/ (dec[cm].broken /\ empty)
     IN /\ dec' = [dec EXCEPT ![cm].pcm_eof = ends]
        /\ Goto(IF ~call.decoded /\ ~ends /\ empty THEN "leave" ELSE "take")
  /\ UNCHANGED <<guest, flags, slot, ogg, pcm, worker>>

Leave ==                \* the worker must never stay excluded between calls
  /\ pc = "leave" /\ Set(waiting, cm, FALSE) /\ Goto("post")
  /\ UNCHANGED <<guest, busy, active, retiring, mirror, worker>>

-----------------------------------------------------------------------------
(* nv_serve_memory: the worker never takes a whole sample, and is shut out *)

MemoryAcquire ==
  /\ pc = "memory" /\ busy[cm] = "none" /\ Set(busy, cm, "game") /\ Goto("sample")
  /\ UNCHANGED <<guest, active, retiring, waiting, mirror, worker>>
MemoryTimesOut ==
  /\ pc = "memory" /\ busy[cm] # "none" /\ Call("post", [call EXCEPT !.ended = TRUE])
  /\ UNCHANGED <<guest, flags, mirror, worker>>
MemoryDecodes ==
  /\ pc = "sample"
  /\ LET k == Least(Request, Length[cur] + 1 - dec[cm].next)
         ends == k < Request \/ dec[cm].eof
     IN \/ /\ dec' = [dec EXCEPT ![cm].next = @ + k, ![cm].eof = ends]
           /\ want' = [want EXCEPT ![cur] = @ + k]
           /\ Call("unsample", [call EXCEPT !.n = k, !.ended = ends])
        \/ /\ MayBreak /\ dec' = [dec EXCEPT ![cm].broken = TRUE] /\ UNCHANGED want
           /\ Call("unsample", [call EXCEPT !.ended = TRUE])
  /\ UNCHANGED <<gs, phys, flags, slot, ogg, pcm, worker>>
MemoryReleases ==
  /\ pc = "unsample" /\ Set(busy, cm, "none") /\ Goto("post")
  /\ UNCHANGED <<guest, active, retiring, waiting, mirror, worker>>

-----------------------------------------------------------------------------
(* The end of __wrap_sub_005bdf80                                          *)

(* Nothing, and not because the file is over                               *)
ZeroNotEnd_TrustsTheRing ==
  /\ call.n = 0 /\ call.ended
  /\ \/ dec[cm].broken
     \/ slot[cm].mode = "stream" /\ ~dec[cm].ogg_eof
     \/ slot[cm].mode = "memory" /\ ~dec[cm].eof
ZeroNotEnd ==
  /\ call.n = 0 /\ call.ended
  /\ \/ dec[cm].broken \/ slot[cm].timedout
     \/ slot[cm].mode = "stream" /\ ~dec[cm].ogg_eof
     \/ slot[cm].mode = "memory" /\ ~dec[cm].eof

(* The mirror is dropped, and the translated decoder continues             *)
DropMirror ==
  /\ pc = "post" /\ ZeroNotEnd /\ Sync(cm) /\ Set(retiring, cm, TRUE)
  /\ pc' = "quiesce" /\ ret' = "zero"
  /\ UNCHANGED <<gs, want, busy, active, waiting, dec, ogg, pcm, cur, cm, early, call, worker>>

(* nv_writeback                                                            *)
Return ==
  /\ pc = "post" /\ ~ZeroNotEnd
  /\ gs' = [gs EXCEPT ![cur].eof = @ \/ call.ended] /\ Back
  /\ UNCHANGED <<phys, want, flags, mirror, worker>>

(* The translated decoder on the guest's own state; the last frame may be  *)
(* handed out in part                                                      *)
Translated ==
  /\ pc = "translated"
  /\ LET s == gs[cur]
         first == s.pos - (IF s.held THEN 1 ELSE 0)
         left  == IF s.eof THEN s.pos - first ELSE Length[cur] + 1 - first
         n     == Least(Request, left)
     IN \E part \in BOOLEAN :
          /\ part => n = Request
          /\ want' = [want EXCEPT ![cur] = first + n - (IF part THEN 1 ELSE 0)]
          /\ gs' = [gs EXCEPT ![cur].pos = first + n, ![cur].held = part,
                              ![cur].eof = @ \/ left < Request]
          /\ phys' = Moved(phys, cur, phys[cur] + first + n - s.pos)
  /\ Back
  /\ UNCHANGED <<flags, mirror, worker>>

-----------------------------------------------------------------------------
(* nv_worker_pass and nv_fill.  Between two passes without progress the    *)
(* worker sleeps until it is signalled or ISAAC_NV_WORKER_IDLE_US pass: it *)
(* then does the same pass, so the sleep is a step not yet taken.          *)

Work(l) == wpc' = l /\ UNCHANGED <<wm, same, passed, hand>>
NextMirror ==
  /\ wm' = IF wm = MirrorCount THEN 1 ELSE wm + 1
  /\ wpc' = "sample" /\ same' = FALSE /\ passed' = 0 /\ hand' = -1

Sample ==
  /\ wpc = "sample" /\ wpc' = "check" /\ same' = TRUE
  /\ UNCHANGED <<guest, flags, mirror, game, wm, passed, hand>>

Serviceable(m) == active[m] /\ ~retiring[m] /\ slot[m].mode = "stream"
PreCheck ==
  /\ wpc = "check"
  /\ IF Serviceable(wm) /\ ~waiting[wm] THEN Work("acquire") ELSE NextMirror
  /\ UNCHANGED <<guest, flags, mirror, game>>
Acquire_NoSwap ==
  /\ wpc = "acquire" /\ Set(busy, wm, "worker") /\ Work("validate")
  /\ UNCHANGED <<guest, active, retiring, waiting, mirror, game>>
Acquire ==
  /\ wpc = "acquire"
  /\ IF busy[wm] = "none" THEN Set(busy, wm, "worker") /\ Work("validate")
                          ELSE NextMirror /\ UNCHANGED busy
  /\ UNCHANGED <<guest, active, retiring, waiting, mirror, game>>
Validate ==
  /\ wpc = "validate" /\ Work(IF same /\ Serviceable(wm) THEN "fill" ELSE "yield")
  /\ UNCHANGED <<guest, flags, mirror, game>>

Fed_NotAtTheEnd(m) == Avail(ogg[m]) > 0
Fed(m) == Avail(ogg[m]) > 0 \/ dec[m].ogg_eof
Fill ==
  /\ wpc = "fill"
  /\ Work(IF /\ passed < PassFrames /\ ~dec[wm].broken /\ ~dec[wm].pcm_eof
             /\ ~waiting[wm] /\ ~retiring[wm] /\ Unused(pcm[wm], PcmSlots) > 0
             /\ Fed(wm)
          THEN "decode" ELSE "yield")
  /\ UNCHANGED <<guest, flags, mirror, game>>
WorkerDecodes ==
  /\ wpc = "decode" /\ Avail(ogg[wm]) > 0
  /\ hand' = Sound(dec[wm], ogg[wm]) /\ wpc' = "publish"
  /\ ogg' = [ogg EXCEPT ![wm] = RingRead(@, OggSlots, 1)]
  /\ dec' = [dec EXCEPT ![wm] = Decoded(@)]
  /\ UNCHANGED <<guest, flags, slot, pcm, game, wm, same, passed>>
WorkerEnds ==           \* no more packets, or the decoder breaks
  /\ wpc = "decode" /\ (Avail(ogg[wm]) = 0 \/ MayBreak) /\ Work("end")
  /\ dec' = [dec EXCEPT ![wm] = IF Avail(ogg[wm]) = 0 THEN RunsDry(@) ELSE Broken(@)]
  /\ UNCHANGED <<guest, flags, slot, ogg, pcm, game>>
Publish ==
  /\ wpc = "publish" /\ pcm' = [pcm EXCEPT ![wm] = RingWrite(@, PcmSlots, hand, 1)]
  /\ wpc' = "fill" /\ hand' = -1 /\ passed' = passed + 1
  /\ UNCHANGED <<guest, flags, slot, dec, ogg, game, wm, same>>
PublishEnd ==
  /\ wpc = "end" /\ dec' = [dec EXCEPT ![wm].pcm_eof = TRUE] /\ Work("yield")
  /\ UNCHANGED <<guest, flags, slot, ogg, pcm, game>>
Yield ==                \* of a poisoned mirror nothing is read again
  /\ wpc = "yield" /\ Set(busy, wm, "none") /\ NextMirror
  /\ IF slot[wm].poisoned /\ ~active[wm] THEN Empties(wm) ELSE UNCHANGED mirror
  /\ UNCHANGED <<guest, active, retiring, waiting, game>>

-----------------------------------------------------------------------------
Worker ==
  \/ Sample \/ PreCheck \/ Acquire \/ Validate \/ Fill
  \/ WorkerDecodes \/ WorkerEnds \/ Publish \/ PublishEnd \/ Yield

Guest == \E f \in States : Open(f) \/ Seek(f) \/ Close(f) \/ Decode(f)

(* What the game thread does once it is in a call                          *)
InCall ==
  \/ (\E f \in States : pc = "pump" /\ Pump(f)) \/ CloseState
  \/ Quiesced \/ QuiesceFails \/ Retire \/ RetireReleases \/ RetireClears
  \/ Take \/ Evict \/ PoolFull \/ Claim \/ PoolBusy \/ Clone \/ Ready
  \/ Reject \/ RejectReleases \/ Rejected
  \/ TopUp \/ TopUpEnd \/ TakeReady \/ AtEnd \/ BudgetSpent \/ (\E late \in BOOLEAN : Look(late))
  \/ TryAcquire \/ TryAgain \/ GiveUp \/ FrameHere \/ NoFrameHere
  \/ Unbusy \/ Unwait \/ AfterFrame \/ Leave
  \/ MemoryAcquire \/ MemoryTimesOut \/ MemoryDecodes \/ MemoryReleases
  \/ DropMirror \/ Return \/ Translated

LonePump == pc = "idle" /\ \E f \in States : Pump(f)

Next == Guest \/ LonePump \/ InCall \/ Worker

Spec == Init /\ [][Next]_vars

(* The game thread runs, and time passes: a call that has some frames is   *)
(* at some look out of budget, and one that has none has waited too long.  *)
(* Of the worker nothing is assumed.                                       *)
GameRuns   == WF_vars(InCall) /\ SF_vars(Look(TRUE)) /\ SF_vars(BudgetSpent)
WorkerRuns == WF_vars(Worker)
FairSpec   == Spec /\ GameRuns

-----------------------------------------------------------------------------
(* Properties                                                              *)

Places == {"idle", "start", "pump", "close", "quiesce", "inert", "release", "clear", "claim",
           "clone", "ready", "reject", "rejected", "topup", "topupEnd", "take", "look", "try",
           "frame", "unbusy", "unwait", "after", "leave", "memory", "sample", "unsample",
           "post", "translated"}
Works  == {"sample", "check", "acquire", "validate", "fill", "decode", "publish", "end", "yield"}
Longest == CHOOSE n \in {Length[f] : f \in States} : \A f \in States : Length[f] <= n
Frames == -1 .. Longest
Spots  == 0 .. Longest + 1
Ring(C) == [head : 0 .. CounterMod - 1, tail : 0 .. CounterMod - 1, data : [0 .. C - 1 -> Frames]]

TypeOK ==
  /\ gs \in [States -> [open : BOOLEAN, pos : Spots, held : BOOLEAN,
                        eof : BOOLEAN]]
  /\ phys \in [States -> Spots] /\ want \in [States -> Spots]
  /\ busy \in [Mirrors -> {"none", "game", "worker"}]
  /\ active \in [Mirrors -> BOOLEAN] /\ retiring \in [Mirrors -> BOOLEAN]
  /\ waiting \in [Mirrors -> BOOLEAN]
  /\ slot \in [Mirrors -> [gf : States \cup {None}, mode : {"none", "stream", "memory"},
                           dirty : BOOLEAN, stale : BOOLEAN, poisoned : BOOLEAN, logical : Spots,
                           head : Spots, physOK : BOOLEAN, physPos : Spots,
                           timedout : BOOLEAN]]
  /\ dec \in [Mirrors -> [next : Spots, broken : BOOLEAN, pcm_eof : BOOLEAN,
                          ogg_eof : BOOLEAN, eof : BOOLEAN]]
  /\ ogg \in [Mirrors -> Ring(OggSlots)] /\ pcm \in [Mirrors -> Ring(PcmSlots)]
  /\ pc \in Places /\ cur \in States \cup {None} /\ cm \in Mirrors
  /\ ret \in {"none", "close", "reopen", "reclone", "evict", "zero"} /\ early \in BOOLEAN
  /\ call \in [n : 0 .. Request + EarlyChunks, ended : BOOLEAN, began : BOOLEAN,
               waits : BOOLEAN, late : BOOLEAN, decoded : BOOLEAN]
  /\ wpc \in Works /\ wm \in Mirrors /\ same \in BOOLEAN /\ passed \in 0 .. PassFrames
  /\ hand \in Frames

(* "the decoder role is exclusive", and the worker never decodes a slot    *)
(* that changed hands, a whole sample or a stream that is gone: while it   *)
(* decodes it alone has the mirror, which is the one it looked at.         *)
Decoding(m) == wm = m /\ wpc \in {"fill", "decode", "publish", "end"}
GameHas(m)  == cm = m /\ pc \in {"inert", "release", "clone", "ready", "reject", "frame",
                                 "unbusy", "sample", "unsample"}
OneDecoder ==
  \A m \in Mirrors :
    /\ Decoding(m) => busy[m] = "worker" /\ same /\ slot[m].mode = "stream" /\ ~GameHas(m)
    /\ GameHas(m) => busy[m] = "game"
    /\ Cardinality(Lookup(slot[m].gf)) <= 1

(* A listener hears the frames in order, each once: what the ring holds is *)
(* what comes next, whoever decoded it, and the decoder stands behind it.  *)
PcmInOrder ==
  \A m \in Mirrors :
    LET a == Avail(pcm[m])
        h == IF wm = m /\ wpc = "publish" THEN 1 ELSE 0
        w == want[slot[m].gf]
    IN active[m] /\ Current(m) =>
         /\ a <= PcmSlots /\ dec[m].next = w + a + h
         /\ \A i \in 0 .. a - 1 : Item(pcm[m], PcmSlots, i) = w + i
         /\ h = 1 => hand = w + a

(* When a state is decoded by the translated code, and between two calls   *)
(* for a state no mirror serves, its stream stands where the state is: the *)
(* read-ahead was undone.                                                  *)
HandsBack ==
  \A f \in Streams :
    /\ pc = "translated" /\ cur = f => phys[f] = gs[f].pos
    /\ pc = "idle" /\ gs[f].open /\ (\A m \in Lookup(f) : ~Current(m)) => phys[f] = gs[f].pos

(* "0 frames reach the guest only at a real end of stream"                 *)
ZeroOnlyAtEnd ==
  [][pc = "post" /\ pc' = "idle" /\ call.n = 0 => want[cur] = Length[cur] + 1]_vars

(* A call returns, even when the worker holds the mirror and never runs    *)
(* again.                                                                  *)
CallReturns == pc # "idle" ~> pc = "idle"

(* While the guest does something else, a worker that runs fills the ring. *)
CanFill(m) ==
  /\ active[m] /\ slot[m].mode = "stream" /\ ~dec[m].broken /\ ~dec[m].pcm_eof
  /\ Unused(pcm[m], PcmSlots) > 0 /\ (Avail(ogg[m]) > 0 \/ dec[m].ogg_eof)
RunsAhead ==
  WorkerRuns => \A m \in Mirrors : pc = "idle" /\ CanFill(m) ~> pc # "idle" \/ ~CanFill(m)
=============================================================================
