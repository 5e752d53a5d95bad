---------------------------- MODULE CrtFile_proof ----------------------------
(***************************************************************************)
(* Proofs about CrtFile, for every table, set of files and buffer size:    *)
(* its types, that every open FILE of newlib belongs to exactly one token  *)
(* or to the idle slot, and that a suspend alone never makes a read or a   *)
(* seek of an archive fail, for any number of suspends.                    *)
(***************************************************************************)
EXTENDS CrtFile, TLAPS, WellFoundedInduction, FiniteSetTheorems

-----------------------------------------------------------------------------
(* A set of naturals that is not empty has a least element: the search of  *)
(* s_file_tokens stops at one slot.                                        *)
LEMMA LeastElement ==
  ASSUME NEW S, S \subseteq Nat, S # {}
  PROVE  \E x \in S : \A y \in S : x <= y
<1>1. \E R : IsWellFoundedOn(R, Nat) /\ \A x, y \in Nat : <<y, x>> \in R <=> y < x
  <2>1. \A x, y \in Nat : <<y, x>> \in OpToRel(<, Nat) <=> y < x
    BY DEF OpToRel
  <2> QED
    BY <2>1, NatLessThanWellFounded
<1>2. PICK R : IsWellFoundedOn(R, Nat) /\ \A x, y \in Nat : <<y, x>> \in R <=> y < x
  BY <1>1
<1>3. \E x \in S : \A y \in S : ~(<<y, x>> \in R)
  BY <1>2, WFMin
<1>4. \A x, y \in S : ~(<<y, x>> \in R) => x <= y
  <2>1. \A x, y \in S : ~(<<y, x>> \in R) => ~(y < x)
    BY <1>2, Zenon
  <2> QED
    BY <2>1
<1> QED
  BY <1>3, <1>4, Zenon

(* A token that is live is found, in a slot that holds it.                 *)
LEMMA Found ==
  ASSUME NEW h \in Tokens
  PROVE  Lookup(h) \in Live /\ slots[Lookup(h)].token = h
<1> DEFINE S == {i \in Live : slots[i].token = h}
<1>1. S \subseteq Nat /\ S # {}
  BY CrtFileAssumption DEF Live, Tokens
<1>2. \E i \in S : \A j \in S : i <= j
  <2> HIDE DEF S
  <2> QED
    BY <1>1, LeastElement
<1>3. \E i \in Live : slots[i].token = h /\ \A j \in Live : slots[j].token = h => i <= j
  BY <1>2, Zenon
<1> QED
  BY <1>3, Zenon DEF Lookup

(* While a slot is free, the slot a stream is published in is free.        *)
LEMMA FreeFound ==
  ASSUME Live # Slots
  PROVE  FirstFree \in Slots \ Live
<1>1. Slots \ Live \subseteq Nat /\ Slots \ Live # {}
  BY CrtFileAssumption DEF Live
<1>2. \E i \in Slots \ Live : \A j \in Slots \ Live : i <= j
  BY <1>1, LeastElement
<1> QED
  BY <1>2, Zenon DEF FirstFree

-----------------------------------------------------------------------------
(* newlib.  A call on a stream leaves it a stream at the same address.     *)
Reasons == {"ok", "device", "range"}
SameStream(st, r) == r.st \in StreamType /\ r.st.addr = st.addr /\ r.why \in Reasons

(* The block an offset lies in does not begin before the file does.        *)
LEMMA BlockStart ==
  ASSUME NEW x \in Nat
  PROVE  x - (x % BufSize) \in Nat
<1>1. BufSize \in Nat /\ BufSize > 0
  BY CrtFileAssumption
<1>2. x \div BufSize \in Nat /\ x = BufSize * (x \div BufSize) + (x % BufSize)
  BY <1>1
<1>3. BufSize * (x \div BufSize) \in Nat
  BY <1>1, <1>2
<1>4. x % BufSize \in Nat
  BY <1>1
<1> QED
  BY <1>2, <1>3, <1>4

(* A stream that is placed is a stream.                                    *)
LEMMA PlacedType ==
  ASSUME NEW st \in StreamType, NEW x \in Nat, NEW len \in Nat
  PROVE  Placed(st, x, len) \in StreamType /\ Placed(st, x, len).addr = st.addr
<1> DEFINE lo == x - (x % BufSize)
           hi == Least(lo + BufSize, len)
<1>1. lo \in Nat
  BY BlockStart
<1>2. hi \in Nat
  BY <1>1, CrtFileAssumption DEF Least
<1>3. Placed(st, x, len) =
        [st EXCEPT !.lo = IF x \in lo + 1 .. hi THEN lo ELSE x,
                   !.hi = IF x \in lo + 1 .. hi THEN hi ELSE x,
                   !.cur = x, !.known = TRUE, !.eof = FALSE]
  BY DEF Placed
<1> HIDE DEF lo, hi
<1> QED
  BY <1>1, <1>2, <1>3 DEF StreamType

(* A stream that is emptied, or whose offset is in doubt, is a stream.     *)
LEMMA EmptiedType ==
  ASSUME NEW st \in StreamType
  PROVE  /\ Emptied(st) \in StreamType /\ Emptied(st).addr = st.addr
         /\ Unsure(st) \in StreamType /\ Unsure(st).addr = st.addr
         /\ SameStream(st, Fails(st))
BY DEF Emptied, Unsure, Fails, Result, StreamType, SameStream, Reasons

(* The seek to an offset.                                                  *)
LEMMA SeekType ==
  ASSUME NEW st \in StreamType, NEW x \in Int, NEW len \in Nat
  PROVE  SameStream(st, NativeSeek(st, x, len))
<1>1. CASE x \in st.lo .. st.hi - 1 /\ (st.known \/ ~st.dead)
  <2>1. x \in Nat
    BY <1>1 DEF StreamType
  <2> DEFINE t == [st EXCEPT !.cur = x, !.eof = FALSE, !.known = TRUE]
  <2>2. NativeSeek(st, x, len) = Result(t, 0, "ok")
    BY <1>1 DEF NativeSeek
  <2>3. t \in StreamType /\ t.addr = st.addr
    BY <2>1 DEF StreamType
  <2> HIDE DEF t
  <2> QED
    BY <2>2, <2>3 DEF SameStream, Result, Reasons
<1>2. CASE ~(x \in st.lo .. st.hi - 1 /\ (st.known \/ ~st.dead)) /\ st.dead
  BY <1>2, EmptiedType DEF NativeSeek
<1>3. CASE ~(x \in st.lo .. st.hi - 1 /\ (st.known \/ ~st.dead)) /\ ~st.dead /\ x < 0
  <2>1. NativeSeek(st, x, len) = Result(Unsure(Emptied(st)), 0, "range")
    BY <1>3 DEF NativeSeek
  <2> QED
    BY <2>1, EmptiedType DEF SameStream, Result, Reasons
<1>4. CASE ~(x \in st.lo .. st.hi - 1 /\ (st.known \/ ~st.dead)) /\ ~st.dead /\ ~(x < 0)
  <2>1. NativeSeek(st, x, len) = Result(Placed(st, x, len), 0, "ok") /\ x \in Nat
    BY <1>4 DEF NativeSeek
  <2> QED
    BY <2>1, PlacedType DEF SameStream, Result, Reasons
<1> QED
  BY <1>1, <1>2, <1>3, <1>4

(* The seek from the end.                                                  *)
LEMMA SeekEndType ==
  ASSUME NEW st \in StreamType, NEW off \in Int, NEW len \in Nat
  PROVE  SameStream(st, NativeSeekEnd(st, off, len))
BY EmptiedType, SeekType DEF NativeSeekEnd

(* The seek from the cursor.                                               *)
LEMMA SeekCurType ==
  ASSUME NEW st \in StreamType, NEW off \in Int, NEW len \in Nat
  PROVE  SameStream(st, NativeSeekCur(st, off, len))
<1>1. CASE st.dead
  BY <1>1, EmptiedType DEF NativeSeekCur
<1>2. CASE ~st.dead
  <2>1. st.cur + off \in Int
    BY DEF StreamType
  <2>2. SameStream(Emptied(st), NativeSeek(Emptied(st), st.cur + off, len))
    BY <2>1, EmptiedType, SeekType
  <2> QED
    BY <1>2, <2>2, EmptiedType DEF NativeSeekCur, SameStream
<1> QED
  BY <1>1, <1>2

(* The read of n bytes.                                                    *)
LEMMA ReadType ==
  ASSUME NEW st \in StreamType, NEW n \in Nat, NEW len \in Nat
  PROVE  SameStream(st, NativeRead(st, n, len))
<1> DEFINE held == st.hi - st.cur
           end  == IF st.cur + n <= len THEN st.cur + n ELSE IF st.cur > len THEN st.cur ELSE len
           k    == (end - 1 - st.hi) \div BufSize
           lo   == st.hi + k * BufSize
<1>0. BufSize \in Nat /\ BufSize > 0 /\ st.lo \in Nat /\ st.hi \in Nat /\ st.cur \in Nat
  BY CrtFileAssumption DEF StreamType
<1>1. end \in Nat
  BY <1>0
<1>2. NativeRead(st, n, len) =
        IF n <= held THEN Result([st EXCEPT !.cur = @ + n], n, "ok")
        ELSE IF st.eof THEN Result(st, 0, "ok")
        ELSE IF st.dead
             THEN Result(Unsure(Emptied([st EXCEPT !.cur = st.hi])), held, "device")
        ELSE IF end - st.cur < n
             THEN Result(Emptied([st EXCEPT !.cur = end, !.eof = TRUE]), end - st.cur, "ok")
        ELSE Result([st EXCEPT !.cur = end, !.lo = lo, !.hi = Least(lo + BufSize, len)], n, "ok")
  BY DEF NativeRead
<1>3. ASSUME ~(n <= held), ~(end - st.cur < n)
      PROVE  lo \in Nat /\ Least(lo + BufSize, len) \in Nat
  <2> DEFINE m == end - 1 - st.hi
  <2>1. m \in Nat
    BY <1>0, <1>3
  <2>2. m \div BufSize \in Nat
    <3> HIDE DEF m
    <3> QED
      BY <1>0, <2>1
  <2>3. k * BufSize \in Nat
    <3>1. k \in Nat
      BY <2>2
    <3> HIDE DEF k
    <3> QED
      BY <3>1, <1>0
  <2> HIDE DEF k
  <2> QED
    BY <1>0, <2>3 DEF Least
<1> DEFINE Same(t) == t \in StreamType /\ t.addr = st.addr
<1>4. Same([st EXCEPT !.cur = @ + n]) /\ Same([st EXCEPT !.cur = st.hi])
  BY <1>0 DEF StreamType
<1>5. \A m : SameStream(st, Result(st, m, "ok"))
  BY DEF SameStream, Result, Reasons
<1>6. ASSUME NEW t, Same(t), NEW m
      PROVE  /\ SameStream(st, Result(t, m, "ok"))
             /\ SameStream(st, Result(Emptied(t), m, "ok"))
             /\ SameStream(st, Result(Unsure(Emptied(t)), m, "device"))
  <2>1. Same(Emptied(t)) /\ Same(Unsure(Emptied(t)))
    BY <1>6, EmptiedType
  <2> QED
    BY <1>6, <2>1 DEF SameStream, Result, Reasons
<1> HIDE DEF end, lo, k, held
<1>7. Same([st EXCEPT !.cur = end, !.eof = TRUE])
  BY <1>1 DEF StreamType
<1>8. ASSUME lo \in Nat, Least(lo + BufSize, len) \in Nat
      PROVE  Same([st EXCEPT !.cur = end, !.lo = lo, !.hi = Least(lo + BufSize, len)])
  BY <1>1, <1>8 DEF StreamType
<1> HIDE DEF Same
<1> QED
  BY <1>2, <1>3, <1>4, <1>5, <1>6, <1>7, <1>8

(* ftell.                                                                  *)
LEMMA TellType ==
  ASSUME NEW st \in StreamType
  PROVE  SameStream(st, NativeTell(st))
BY EmptiedType DEF NativeTell, SameStream, Result, Reasons, StreamType

(* The flush of a reader.                                                  *)
LEMMA FlushType ==
  ASSUME NEW st \in StreamType
  PROVE  SameStream(st, NativeFlush(st))
<1>1. [Emptied(st) EXCEPT !.known = TRUE] \in StreamType
      /\ [Emptied(st) EXCEPT !.known = TRUE].addr = st.addr
  BY EmptiedType DEF StreamType
<1> QED
  BY <1>1, EmptiedType DEF NativeFlush, SameStream, Result, Reasons

-----------------------------------------------------------------------------
(* One slot.  A call on a slot leaves it in its lane, over the same FILE,  *)
(* with its pending seek in the file.                                      *)
SameSlot(s, t) ==
  SlotOK(t) /\ t.lane = s.lane /\ t.path = s.path /\ t.st.addr = s.st.addr

(* A slot whose stream was called, and whose pending seek is over or not.  *)
LEMMA StreamInSlot ==
  ASSUME NEW s, SlotOK(s), NEW st \in StreamType, st.addr = s.st.addr, NEW p \in BOOLEAN
  PROVE  SameSlot(s, [s EXCEPT !.st = st, !.pend = s.pend /\ p])
         /\ SameSlot(s, [s EXCEPT !.st = st])
<1> DEFINE t == [s EXCEPT !.st = st, !.pend = s.pend /\ p]
           u == [s EXCEPT !.st = st]
<1>1. s \in SlotType
  BY DEF SlotOK
<1>2. /\ t \in SlotType /\ t.lane = s.lane /\ t.st = st /\ t.pend = (s.pend /\ p)
      /\ t.seen = s.seen /\ t.off = s.off /\ t.path = s.path
  BY <1>1 DEF SlotType
<1>3. /\ u \in SlotType /\ u.lane = s.lane /\ u.st = st /\ u.pend = s.pend
      /\ u.seen = s.seen /\ u.off = s.off /\ u.path = s.path
  BY <1>1 DEF SlotType
<1> HIDE DEF t, u
<1>4. SameSlot(s, t) /\ SameSlot(s, u)
  BY <1>2, <1>3 DEF SlotOK, SameSlot
<1> QED
  BY <1>2, <1>4 DEF t, u

(* A call on the stream, and one that settles the pending seek.            *)
LEMMA CalledSlot ==
  ASSUME NEW s, SlotOK(s), NEW r, SameStream(s.st, r)
  PROVE  SameSlot(s, WithStream(s, r).slot) /\ SameSlot(s, Settled(s, r).slot)
<1>1. r.st \in StreamType /\ r.st.addr = s.st.addr /\ (r.why # "ok") \in BOOLEAN
  BY DEF SameStream
<1> QED
  BY <1>1, StreamInSlot DEF WithStream, Settled

(* Applying the pending seek.                                              *)
LEMMA AppliedSlot ==
  ASSUME NEW s, SlotOK(s), NEW len \in Nat
  PROVE  SameSlot(s, Apply(s, len)) /\ ~Apply(s, len).pend /\ Apply(s, len).st \in StreamType
<1>1. s \in SlotType /\ s.st \in StreamType /\ s.off \in Int
  BY DEF SlotOK, SlotType
<1>2. CASE ~s.pend
  BY <1>1, <1>2 DEF Apply, SameSlot
<1>3. CASE s.pend
  <2> DEFINE st == NativeSeekEnd(s.st, s.off, len).st
             t  == [s EXCEPT !.pend = FALSE, !.st = st]
  <2>1. st \in StreamType /\ st.addr = s.st.addr
    BY <1>1, SeekEndType DEF SameStream
  <2>2. Apply(s, len) = t
    BY <1>3 DEF Apply
  <2> HIDE DEF st
  <2>3. /\ t \in SlotType /\ t.lane = s.lane /\ t.st = st /\ ~t.pend
        /\ t.path = s.path /\ t.seen = s.seen
    BY <1>1, <2>1 DEF SlotType
  <2> HIDE DEF t
  <2> QED
    BY <2>1, <2>2, <2>3 DEF SameSlot, SlotOK
<1> QED
  BY <1>2, <1>3

(* A seek from the end: performed by newlib, or recorded when it is to an  *)
(* offset in the file.                                                     *)
LEMMA SeekEndSlot ==
  ASSUME NEW s, SlotOK(s), s.lane = "stream", size \in [Paths -> Nat], NEW off \in Int
  PROVE  SameSlot(s, ShadowSeekEnd(s, off, size[s.path]).slot)
<1> DEFINE len == size[s.path]
           t == IF SizeKnown(s) THEN s
                ELSE [s EXCEPT !.seen = len, !.valid = TRUE, !.fresh = TRUE]
           u == [s EXCEPT !.valid = FALSE]
           v == [t EXCEPT !.pend = TRUE, !.off = off]
<1>1. s \in SlotType /\ s.st \in StreamType /\ s.seen <= len /\ len \in Nat /\ s.path \in Paths
  BY DEF SlotOK, SlotType
<1>2. ShadowSeekEnd(s, off, len) =
        IF ~SizeKnown(s) /\ s.st.dead THEN Settled(u, NativeSeekEnd(s.st, off, len))
        ELSE IF t.seen + off < 0 THEN Settled(t, NativeSeekEnd(t.st, off, len))
        ELSE [slot |-> v, n |-> 0, why |-> "ok"]
  BY DEF ShadowSeekEnd
<1>3. u.st = s.st /\ SameSlot(s, u)
  <2>1. /\ u \in SlotType /\ u.lane = s.lane /\ u.st = s.st /\ u.pend = s.pend
        /\ u.seen = s.seen /\ u.off = s.off /\ u.path = s.path
    BY <1>1 DEF SlotType
  <2> HIDE DEF u
  <2> QED
    BY <2>1 DEF SameSlot, SlotOK
<1>4. t.st = s.st /\ SameSlot(s, t)
  <2>1. CASE SizeKnown(s)
    BY <2>1 DEF SameSlot
  <2>2. CASE ~SizeKnown(s)
    <3>1. /\ t \in SlotType /\ t.lane = s.lane /\ t.st = s.st /\ t.pend = s.pend
          /\ t.seen = len /\ t.off = s.off /\ t.path = s.path
      BY <1>1, <2>2 DEF SlotType
    <3>2. t.pend => t.seen + t.off >= 0
      <4>1. s.pend => s.seen + s.off >= 0
        BY DEF SlotOK
      <4>2. s.off \in Int /\ s.seen \in Nat
        BY <1>1 DEF SlotType
      <4> HIDE DEF t
      <4> QED
        BY <1>1, <3>1, <4>1, <4>2
    <3> HIDE DEF t
    <3> QED
      BY <1>1, <3>1, <3>2 DEF SameSlot, SlotOK
  <2> QED
    BY <2>1, <2>2
<1>5. ~(t.seen + off < 0) => SameSlot(s, v)
  <2>1. t \in SlotType
    BY <1>4 DEF SameSlot, SlotOK
  <2>2. /\ v \in SlotType /\ v.lane = t.lane /\ v.st = t.st /\ v.pend
        /\ v.seen = t.seen /\ v.off = off /\ v.path = t.path
    <3> HIDE DEF t
    <3> QED
      BY <2>1 DEF SlotType
  <2>3. t.seen \in Nat
    BY <2>1 DEF SlotType
  <2> HIDE DEF v, t
  <2> QED
    BY <1>4, <2>2, <2>3 DEF SameSlot, SlotOK
<1>6. SameStream(s.st, NativeSeekEnd(s.st, off, len))
  BY <1>1, SeekEndType
<1> HIDE DEF u, t, v, len
<1>7. SameSlot(u, Settled(u, NativeSeekEnd(s.st, off, len)).slot)
  BY <1>3, <1>6, CalledSlot DEF SameSlot
<1>8. SameSlot(t, Settled(t, NativeSeekEnd(t.st, off, len)).slot)
  BY <1>4, <1>6, CalledSlot DEF SameSlot
<1> QED
  BY <1>2, <1>3, <1>4, <1>5, <1>7, <1>8 DEF SameSlot, len

(* A seek from the cursor is counted from the pending one.                 *)
LEMMA SeekCurSlot ==
  ASSUME NEW s, SlotOK(s), NEW off \in Int, NEW len \in Nat
  PROVE  SameSlot(s, ShadowSeekCur(s, off, len).slot)
<1>1. s.st \in StreamType /\ s.off \in Int /\ s.seen \in Nat
  BY DEF SlotOK, SlotType
<1>2. SameSlot(s, Settled(s, NativeSeekCur(s.st, off, len)).slot)
  BY <1>1, SeekCurType, CalledSlot
<1>3. SameSlot(s, Settled(s, NativeSeek(s.st, s.seen + s.off + off, len)).slot)
  BY <1>1, SeekType, CalledSlot
<1> QED
  BY <1>2, <1>3 DEF ShadowSeekCur, SameSlot

(* The raw lane: its cursor is in the file, and it has no stream.          *)
LEMMA RawSlot ==
  ASSUME NEW s, SlotOK(s), NEW x \in Nat, NEW e \in BOOLEAN
  PROVE  SameSlot(s, [s EXCEPT !.st.cur = x, !.st.eof = e])
<1> DEFINE st == [s.st EXCEPT !.cur = x, !.eof = e]
<1>1. s \in SlotType /\ s.st \in StreamType
  BY DEF SlotOK, SlotType
<1>2. st \in StreamType /\ st.addr = s.st.addr
  BY <1>1 DEF StreamType
<1>3. [s EXCEPT !.st.cur = x, !.st.eof = e] = [s EXCEPT !.st = st]
  BY <1>1 DEF SlotType
<1> HIDE DEF st
<1> QED
  BY <1>2, <1>3, StreamInSlot

(* The raw lane's seek and read.                                           *)
LEMMA RawOps ==
  ASSUME NEW s, SlotOK(s), NEW len \in Nat
  PROVE  /\ \A x \in Int : SameSlot(s, RawSeek(s, x).slot)
         /\ \A n \in Nat : SameSlot(s, RawRead(s, n, len).slot)
<1>1. s \in SlotType /\ s.st \in StreamType /\ s.st.cur \in Nat
  BY DEF SlotOK, SlotType, StreamType
<1>2. ASSUME NEW x \in Int
      PROVE  SameSlot(s, RawSeek(s, x).slot)
  <2>1. CASE x < 0
    BY <2>1 DEF RawSeek, SameSlot
  <2>2. CASE ~(x < 0)
    <3>1. RawSeek(s, x).slot = [s EXCEPT !.st.cur = x, !.st.eof = FALSE] /\ x \in Nat
      BY <2>2 DEF RawSeek
    <3>2. \A e \in BOOLEAN : SameSlot(s, [s EXCEPT !.st.cur = x, !.st.eof = e])
      BY <3>1, RawSlot, Zenon
    <3>3. SameSlot(s, [s EXCEPT !.st.cur = x, !.st.eof = FALSE])
      BY <3>2, Zenon
    <3> QED
      BY <3>1, <3>3, Zenon
  <2> QED
    BY <2>1, <2>2
<1>3. ASSUME NEW n \in Nat
      PROVE  SameSlot(s, RawRead(s, n, len).slot)
  <2> DEFINE got == Least(n, IF s.st.cur < len THEN len - s.st.cur ELSE 0)
             x == s.st.cur + got
             e == got < n
  <2>1. x \in Nat /\ e \in BOOLEAN
    BY <1>1 DEF Least
  <2>2. RawRead(s, n, len).slot = s
        \/ RawRead(s, n, len).slot = [s EXCEPT !.st.cur = x, !.st.eof = e]
    BY DEF RawRead
  <2> HIDE DEF x, e
  <2>3. SameSlot(s, s) /\ SameSlot(s, [s EXCEPT !.st.cur = x, !.st.eof = e])
    BY <2>1, RawSlot DEF SameSlot
  <2> QED
    BY <2>2, <2>3
<1> QED
  BY <1>2, <1>3

(* What the guest may ask of a reader.                                     *)
Asks == {q \in [op : {"fread", "set", "cur", "end"}, by : Int] : q.op = "fread" => q.by \in Nat}
Lanes == {"stream", "raw"}

(* A read or a seek, in whichever lane.                                    *)
LEMMA DoneSlot ==
  ASSUME NEW s, SlotOK(s), s.lane \in Lanes, size \in [Paths -> Nat], NEW q \in Asks
  PROVE  SameSlot(s, Do(s, q, size[s.path]).slot)
<1> DEFINE len == size[s.path]
<1>1. /\ s.st \in StreamType /\ s.st.cur \in Nat /\ s.seen \in Nat
      /\ len \in Nat /\ q.by \in Int
  BY DEF SlotOK, SlotType, StreamType, Lanes, Asks
<1>2. CASE s.lane = "raw"
  <2>1. \A x \in Int : SameSlot(s, RawSeek(s, x).slot)
    BY <1>1, RawOps
  <2>2. q.op = "fread" => SameSlot(s, RawRead(s, q.by, len).slot)
    BY <1>1, RawOps DEF Asks
  <2>3. s.st.cur + q.by \in Int /\ s.seen + q.by \in Int
    BY <1>1
  <2> HIDE DEF len
  <2>4. q.op = "fread" => Do(s, q, len) = RawRead(s, q.by, len)
    BY <1>2 DEF Do
  <2>5. q.op = "set" => Do(s, q, len) = RawSeek(s, q.by)
    BY <1>2 DEF Do
  <2>6. q.op = "cur" => Do(s, q, len) = RawSeek(s, s.st.cur + q.by)
    BY <1>2 DEF Do
  <2>7. q.op = "end" => Do(s, q, len) = RawSeek(s, s.seen + q.by)
    BY <1>2 DEF Do
  <2>8. q.op \in {"fread", "set", "cur", "end"}
    BY DEF Asks
  <2>9. SameSlot(s, Do(s, q, len).slot)
    BY <1>1, <2>1, <2>2, <2>3, <2>4, <2>5, <2>6, <2>7, <2>8
  <2> QED
    BY <2>9 DEF len
<1>3. CASE s.lane = "stream"
  <2>1. ASSUME q.op = "fread"
        PROVE  SameSlot(s, Do(s, q, len).slot)
    <3> DEFINE t == Apply(s, len)
    <3>1. SameSlot(s, t) /\ t.st \in StreamType
      BY <1>1, AppliedSlot
    <3>2. SameStream(t.st, NativeRead(t.st, q.by, len))
      BY <1>1, <2>1, <3>1, ReadType DEF Asks
    <3>3. SameSlot(t, WithStream(t, NativeRead(t.st, q.by, len)).slot)
      BY <3>1, <3>2, CalledSlot DEF SameSlot
    <3>4. Do(s, q, len) = WithStream(t, NativeRead(t.st, q.by, len))
      BY <1>3, <2>1 DEF Do
    <3> HIDE DEF t, len
    <3> QED
      BY <3>1, <3>3, <3>4 DEF SameSlot
  <2>2. ASSUME q.op = "set"
        PROVE  SameSlot(s, Do(s, q, len).slot)
    <3>1. SameStream(s.st, NativeSeek(s.st, q.by, len))
      BY <1>1, SeekType
    <3>2. Do(s, q, len) = Settled(s, NativeSeek(s.st, q.by, len))
      BY <1>3, <2>2 DEF Do
    <3> QED
      BY <3>1, <3>2, CalledSlot
  <2>3. ASSUME q.op = "cur"
        PROVE  SameSlot(s, Do(s, q, len).slot)
    <3>1. Do(s, q, len) = ShadowSeekCur(s, q.by, len)
      BY <1>3, <2>3 DEF Do
    <3> QED
      BY <1>1, <3>1, SeekCurSlot
  <2>4. ASSUME q.op = "end"
        PROVE  SameSlot(s, Do(s, q, len).slot)
    <3>1. Do(s, q, len) = ShadowSeekEnd(s, q.by, len)
      BY <1>3, <2>4 DEF Do
    <3> QED
      BY <1>1, <1>3, <3>1, SeekEndSlot
  <2> HIDE DEF len
  <2>5. SameSlot(s, Do(s, q, len).slot)
    BY <2>1, <2>2, <2>3, <2>4 DEF Asks
  <2> QED
    BY <2>5 DEF len
<1> QED
  BY <1>2, <1>3 DEF Lanes

-----------------------------------------------------------------------------
(* Ownership.  The clauses of HandlesAreOwned that are inductive: every    *)
(* open FILE is that of a stream or of the idle slot, of one of them only. *)
(* That newlib has room for one more follows.                              *)
IdleAddr == IF idle = None THEN {} ELSE {idle.st.addr}
Owned ==
  /\ files = {slots[i].st.addr : i \in Streams} \cup IdleAddr
  /\ \A i, j \in Streams : slots[i].st.addr = slots[j].st.addr => i = j
  /\ idle # None => \A i \in Streams : slots[i].st.addr # idle.st.addr
IInv == TypeOK /\ Owned

(* Once the idle stream is closed, the open FILEs are those of the slots.  *)
LEMMA KeptAreStreams ==
  ASSUME Owned
  PROVE  Kept = {slots[i].st.addr : i \in Streams}
BY DEF Owned, Kept, IdleAddr

(* There are no more of them than slots, so newlib can open one more.      *)
LEMMA RoomForOne ==
  ASSUME Owned
  PROVE  Cardinality(Kept) < FopenMax
<1>1. IsFiniteSet(Slots) /\ Cardinality(Slots) < FopenMax /\ FopenMax \in Nat
  BY CrtFileAssumption
<1>2. IsFiniteSet(Streams) /\ Cardinality(Streams) <= Cardinality(Slots)
  BY <1>1, FS_Subset DEF Streams
<1> DEFINE f == [i \in Streams |-> slots[i].st.addr]
<1>3. f \in Surjection(Streams, Kept)
  BY KeptAreStreams DEF Surjection
<1>4. IsFiniteSet(Kept) /\ Cardinality(Kept) <= Cardinality(Streams)
  BY <1>2, <1>3, FS_Surjection
<1> QED
  BY <1>1, <1>2, <1>4, FS_CardinalityType

(* A stream is opened at an address where none is open.                    *)
LEMMA FreshName ==
  ASSUME NEW S, NEW a \in FreeNames(S)
  PROVE  a \in Names /\ a \notin S
BY DEF FreeNames, Unused

KeepsIdle ==
  /\ files' = files
  /\ IF idle = None THEN idle' = None ELSE idle' # None /\ idle'.st.addr = idle.st.addr
ClosesIdle == idle' = None /\ files' = Kept

(* The streams open now and the idle one, when nothing changes hands and   *)
(* the idle stream is kept or closed.                                      *)
LEMMA OwnersStay ==
  ASSUME Owned, KeepsIdle \/ ClosesIdle, Streams' = Streams,
         \A j \in Streams : slots'[j].st.addr = slots[j].st.addr
  PROVE  Owned'
<1>1. {slots'[j].st.addr : j \in Streams'} = {slots[j].st.addr : j \in Streams}
  OBVIOUS
<1>2. CASE KeepsIdle
  BY <1>1, <1>2 DEF Owned, KeepsIdle, IdleAddr
<1>3. CASE ClosesIdle
  BY <1>1, <1>3, KeptAreStreams DEF Owned, ClosesIdle, IdleAddr
<1> QED
  BY <1>2, <1>3

(* A slot gets the FILE at a, and loses the one it had: the recovery.      *)
LEMMA OwnerReplaced ==
  ASSUME Owned, Streams' = Streams, NEW i \in Streams, NEW a, a \notin Kept,
         \A j \in Streams \ {i} : slots'[j].st.addr = slots[j].st.addr,
         slots'[i].st.addr = a,
         idle' = None, files' = (Kept \cup {a}) \ {slots[i].st.addr}
  PROVE  Owned'
<1>1. Kept = {slots[j].st.addr : j \in Streams}
  BY KeptAreStreams
<1>2. \A j \in Streams \ {i} : slots[j].st.addr # slots[i].st.addr
  BY DEF Owned
<1>3. a # slots[i].st.addr /\ \A j \in Streams : slots[j].st.addr # a
  BY <1>1
<1>4. files' = {slots'[j].st.addr : j \in Streams}
  BY <1>1, <1>2, <1>3
<1>5. \A j, k \in Streams : slots'[j].st.addr = slots'[k].st.addr => j = k
  BY <1>3 DEF Owned
<1> QED
  BY <1>4, <1>5 DEF Owned, IdleAddr

(* A free slot gets the FILE at a: fopen.                                  *)
LEMMA OwnerAdded ==
  ASSUME Owned, NEW i \in Slots \ Live, Streams' = Streams \cup {i}, NEW a, a \notin Kept,
         \A j \in Streams : slots'[j].st.addr = slots[j].st.addr,
         slots'[i].st.addr = a, idle' = None, files' = Kept \cup {a}
  PROVE  Owned'
<1>1. Kept = {slots[j].st.addr : j \in Streams}
  BY KeptAreStreams
<1>2. i \notin Streams /\ \A j \in Streams : slots[j].st.addr # a
  BY <1>1 DEF Streams, Live
<1>3. files' = {slots'[j].st.addr : j \in Streams'}
  BY <1>1, <1>2
<1>4. \A j, k \in Streams' : slots'[j].st.addr = slots'[k].st.addr => j = k
  BY <1>2 DEF Owned
<1> QED
  BY <1>3, <1>4 DEF Owned, IdleAddr

(* A slot gives up its stream, which is closed or becomes the idle one:    *)
(* fclose.                                                                 *)
LEMMA OwnerRemoved ==
  ASSUME Owned, NEW i \in Streams, Streams' = Streams \ {i},
         \A j \in Streams \ {i} : slots'[j].st.addr = slots[j].st.addr,
         \/ idle' = idle /\ files' = files \ {slots[i].st.addr}
         \/ idle' # None /\ idle'.st.addr = slots[i].st.addr /\ files' = Kept
  PROVE  Owned'
<1> DEFINE a == slots[i].st.addr
<1>1. Kept = {slots[j].st.addr : j \in Streams}
  BY KeptAreStreams
<1>2. \A j \in Streams \ {i} : slots[j].st.addr # a
  BY DEF Owned
<1>3. {slots'[j].st.addr : j \in Streams'} = {slots[j].st.addr : j \in Streams} \ {a}
  BY <1>2
<1>4. \A j, k \in Streams' : slots'[j].st.addr = slots'[k].st.addr => j = k
  BY DEF Owned
<1>5. CASE idle' = idle /\ files' = files \ {a}
  <2>1. a \notin IdleAddr
    BY DEF Owned, IdleAddr
  <2>2. files' = {slots'[j].st.addr : j \in Streams'} \cup IdleAddr'
    BY <1>3, <1>5, <2>1 DEF Owned, IdleAddr
  <2>3. idle' # None => \A j \in Streams' : slots'[j].st.addr # idle'.st.addr
    BY <1>5 DEF Owned
  <2> QED
    BY <1>4, <2>2, <2>3 DEF Owned
<1>6. CASE idle' # None /\ idle'.st.addr = a /\ files' = Kept
  <2>1. files' = {slots'[j].st.addr : j \in Streams'} \cup IdleAddr'
    BY <1>1, <1>3, <1>6 DEF IdleAddr
  <2>2. idle' # None => \A j \in Streams' : slots'[j].st.addr # idle'.st.addr
    BY <1>2, <1>6
  <2> QED
    BY <1>4, <2>1, <2>2 DEF Owned
<1> QED
  BY <1>5, <1>6

-----------------------------------------------------------------------------
(* A stream just opened, at the beginning or placed at pos, is a stream.   *)
LEMMA NewStreamType ==
  ASSUME NEW a \in Names \cup {None}
  PROVE  NewStream(a) \in StreamType /\ NewStream(a).addr = a
BY DEF NewStream, NoStream, StreamType

(* A slot that gets a fresh stream stays a slot.                           *)
LEMMA FreshSlot ==
  ASSUME NEW s, SlotOK(s), s.lane = "stream", NEW a \in Names, NEW need \in BOOLEAN,
         NEW pos \in Int, need => pos >= 0, NEW len \in Nat
  PROVE  LET t == Fresh(s, a, pos, need, len) IN
         SlotOK(t) /\ t.lane = s.lane /\ t.path = s.path /\ t.st.addr = a
<1> DEFINE st == IF need THEN Placed(NewStream(a), pos, len) ELSE NewStream(a)
           t  == [s EXCEPT !.st = st, !.pend = s.pend /\ ~need]
<1>1. s \in SlotType
  BY DEF SlotOK
<1>2. st \in StreamType /\ st.addr = a
  <2>1. CASE need
    <3>1. pos \in Nat
      BY <2>1
    <3> QED
      BY <2>1, <3>1, NewStreamType, PlacedType
  <2>2. CASE ~need
    BY <2>2, NewStreamType
  <2> QED
    BY <2>1, <2>2
<1>3. Fresh(s, a, pos, need, len) = t
  BY DEF Fresh
<1> HIDE DEF st
<1>4. /\ t \in SlotType /\ t.lane = s.lane /\ t.st = st /\ t.pend = (s.pend /\ ~need)
      /\ t.seen = s.seen /\ t.off = s.off /\ t.path = s.path
  BY <1>1, <1>2 DEF SlotType
<1> HIDE DEF t
<1> QED
  BY <1>2, <1>3, <1>4 DEF SlotOK

Reopened(s, pos) == [s EXCEPT !.st = [s.st EXCEPT !.dead = FALSE, !.cur = pos]]

(* How a recovery may end, in each lane.                                   *)
LEMMA RawOutcomes ==
  ASSUME NEW s, SlotOK(s), s.lane = "raw", NEW pos, NEW need, NEW len,
         NEW r \in Recover(s, pos, need, len)
  PROVE  /\ r.idle = idle /\ r.files = files
         /\ \/ r.ok /\ r.failures = failures /\ r.slot = Reopened(s, pos)
            \/ ~r.ok /\ failures > 0 /\ r.failures = failures - 1 /\ r.slot = s
<1> DEFINE t == [s EXCEPT !.st = [s.st EXCEPT !.dead = FALSE, !.cur = pos]]
           won == [Unrecovered(s) EXCEPT !.ok = TRUE, !.slot = t]
           lost == [Unrecovered(s) EXCEPT !.failures = failures - 1]
<1>1. r = won \/ (failures > 0 /\ r = lost)
  <2>1. [Unrecovered(s) EXCEPT !.ok = TRUE, !.slot.st.dead = FALSE, !.slot.st.cur = pos] = won
    <3>1. s \in SlotType /\ s.st \in StreamType
      BY DEF SlotOK, SlotType
    <3> QED
      BY <3>1, ZenonT(60) DEF Unrecovered, SlotType, StreamType
  <2> QED
    BY <2>1 DEF Recover, RecoverRaw
<1> HIDE DEF t
<1>2. ASSUME r = won
      PROVE  r.idle = idle /\ r.files = files /\ r.ok /\ r.failures = failures /\ r.slot = t
  BY <1>2 DEF Unrecovered
<1>3. CASE failures > 0 /\ r = lost
  BY <1>3 DEF Unrecovered
<1> QED
  BY <1>1, <1>2, <1>3 DEF t, Reopened

(* A stream's: its cursor is unknown, no stream was opened, or one was.    *)
LEMMA StreamOutcomes ==
  ASSUME NEW s, s.lane = "stream", NEW pos \in Int, NEW need \in BOOLEAN, NEW len,
         NEW r \in Recover(s, pos, need, len)
  PROVE  \/ /\ need /\ pos < 0 /\ ~r.ok /\ r.slot = s /\ r.failures = failures
            /\ r.idle = idle /\ r.files = files
         \/ /\ ~r.ok /\ r.slot = s /\ r.idle = None /\ r.files = Kept
            /\ \/ r.failures = failures /\ FreeNames(Kept) = {}
               \/ failures > 0 /\ r.failures = failures - 1
         \/ /\ r.ok /\ (need => pos >= 0) /\ r.idle = None /\ r.failures = failures
            /\ \E a \in FreeNames(Kept) : /\ r.slot = Fresh(s, a, pos, need, len)
                                         /\ r.files = (Kept \cup {a}) \ {s.st.addr}
<1> DEFINE evicted == [Unrecovered(s) EXCEPT !.idle = None, !.files = Kept]
           fresh(a) == [evicted EXCEPT !.ok = TRUE, !.slot = Fresh(s, a, pos, need, len),
                                       !.files = (Kept \cup {a}) \ {s.st.addr}]
           failed == [evicted EXCEPT !.failures = failures - 1]
<1>1. r \in RecoverStream(s, pos, need, len)
  BY DEF Recover
<1>2. RecoverStream(s, pos, need, len) =
        IF need /\ pos < 0 THEN {Unrecovered(s)}
        ELSE {fresh(a) : a \in FreeNames(Kept)}
          \cup (IF FreeNames(Kept) = {} THEN {evicted} ELSE {})
          \cup (IF failures > 0 THEN {failed} ELSE {})
  BY DEF RecoverStream
<1> HIDE DEF evicted, fresh, failed
<1>3. \/ need /\ pos < 0 /\ r = Unrecovered(s)
      \/ FreeNames(Kept) = {} /\ r = evicted
      \/ failures > 0 /\ r = failed
      \/ (need => pos >= 0) /\ \E a \in FreeNames(Kept) : r = fresh(a)
  BY <1>1, <1>2
<1>4. CASE need /\ pos < 0 /\ r = Unrecovered(s)
  BY <1>4 DEF Unrecovered
<1>5. CASE FreeNames(Kept) = {} /\ r = evicted
  BY <1>5 DEF evicted, Unrecovered
<1>6. CASE failures > 0 /\ r = failed
  BY <1>6 DEF failed, evicted, Unrecovered
<1>7. ASSUME need => pos >= 0, NEW a \in FreeNames(Kept), r = fresh(a)
      PROVE  /\ r.ok /\ r.idle = None /\ r.failures = failures
             /\ r.slot = Fresh(s, a, pos, need, len) /\ r.files = (Kept \cup {a}) \ {s.st.addr}
  BY <1>7 DEF fresh, evicted, Unrecovered
<1> QED
  BY <1>3, <1>4, <1>5, <1>6, <1>7

(* What a recovery leaves: nothing changed hands, and the idle stream is   *)
(* kept or closed; or the slot has a FILE no other had, in place of its    *)
(* own.                                                                    *)
LEMMA Recovered ==
  ASSUME IInv, NEW s, SlotOK(s), s.lane \in Lanes,
         NEW pos \in Int, s.lane = "raw" => pos >= 0, NEW need \in BOOLEAN,
         NEW r \in Recover(s, pos, need, size[s.path])
  PROVE  /\ SlotOK(r.slot) /\ r.slot.lane = s.lane /\ r.slot.path = s.path
         /\ r.failures \in 0 .. failures
         /\ \/ /\ r.slot.st.addr = s.st.addr
               /\ \/ r.idle = idle /\ r.files = files
                  \/ r.idle = None /\ r.files = Kept
            \/ /\ r.ok /\ s.lane = "stream" /\ r.slot.st.addr \in Names \ Kept
               /\ r.idle = None /\ r.files = (Kept \cup {r.slot.st.addr}) \ {s.st.addr}
<1>0. failures \in Nat /\ size[s.path] \in Nat /\ s \in SlotType /\ s.st \in StreamType
  BY CrtFileAssumption DEF IInv, TypeOK, SlotOK, Lanes, SlotType
<1>1. failures \in 0 .. failures /\ (failures > 0 => failures - 1 \in 0 .. failures)
  BY <1>0
<1>2. CASE s.lane = "raw"
  <2> DEFINE st == [s.st EXCEPT !.dead = FALSE, !.cur = pos]
             t  == [s EXCEPT !.st = st]
  <2>1. st \in StreamType /\ st.addr = s.st.addr
    <3>1. pos \in Nat
      BY <1>2
    <3> QED
      BY <1>0, <3>1 DEF StreamType
  <2>2. SameSlot(s, t)
    <3> HIDE DEF st
    <3> QED
      BY <2>1, StreamInSlot
  <2>3. /\ r.slot = Reopened(s, pos) \/ r.slot = s
        /\ r.failures = failures \/ (failures > 0 /\ r.failures = failures - 1)
        /\ r.idle = idle /\ r.files = files
    BY <1>2, RawOutcomes
  <2>6. t = Reopened(s, pos)
    BY DEF Reopened
  <2> HIDE DEF t
  <2>4. /\ r.slot \in {s, t} /\ r.failures \in 0 .. failures
        /\ r.idle = idle /\ r.files = files
    BY <1>1, <2>3, <2>6
  <2>5. SameSlot(s, r.slot)
    BY <2>2, <2>4 DEF SameSlot
  <2> QED
    BY <2>4, <2>5 DEF SameSlot
<1>3. CASE s.lane = "stream"
  <2> DEFINE len == size[s.path]
  <2>1. ASSUME need => pos >= 0, NEW a \in FreeNames(Kept), r.slot = Fresh(s, a, pos, need, len)
        PROVE  /\ SlotOK(r.slot) /\ r.slot.lane = s.lane /\ r.slot.path = s.path
               /\ r.slot.st.addr = a /\ a \in Names \ Kept
    <3>1. a \in Names \ Kept
      BY FreshName
    <3> DEFINE t == Fresh(s, a, pos, need, len)
    <3>2. SlotOK(t) /\ t.lane = s.lane /\ t.path = s.path /\ t.st.addr = a
      BY <1>0, <1>3, <2>1, <3>1, FreshSlot
    <3> QED
      BY <2>1, <3>1, <3>2
  <2> QED
    BY <1>1, <1>3, <2>1, StreamOutcomes
<1> QED
  BY <1>2, <1>3 DEF Lanes

-----------------------------------------------------------------------------
Grown == size' \in [Paths -> Nat] /\ \A p \in Paths : size[p] <= size'[p]

(* Steps.  A slot stays one while the files do not shrink.                 *)
LEMMA SlotsStay ==
  ASSUME size \in [Paths -> Nat], Grown, NEW t, SlotOK(t)
  PROVE  SlotOK(t)'
<1>1. t \in SlotType
  BY DEF SlotOK
<1>2. t.lane # "free" => t.path \in Paths /\ t.seen <= size'[t.path]
  <2>1. t.seen \in Nat
    BY <1>1 DEF SlotType
  <2> QED
    BY <2>1 DEF SlotOK, Grown
<1> QED
  BY <1>1, <1>2 DEF SlotOK

(* Every cached size becomes doubtful.                                     *)
LEMMA NotedSlot ==
  ASSUME NEW s, SlotOK(s)
  PROVE  SameSlot(s, [s EXCEPT !.fresh = FALSE])
<1> DEFINE t == [s EXCEPT !.fresh = FALSE]
<1>1. s \in SlotType
  BY DEF SlotOK
<1>2. /\ t \in SlotType /\ t.lane = s.lane /\ t.st = s.st /\ t.pend = s.pend
      /\ t.seen = s.seen /\ t.off = s.off /\ t.path = s.path
  BY <1>1 DEF SlotType
<1> HIDE DEF t
<1>3. SameSlot(s, t)
  BY <1>2 DEF SlotOK, SameSlot
<1> QED
  BY <1>3 DEF t

(* A step that leaves every slot its lane and its FILE.                    *)
LEMMA ContentsStep ==
  ASSUME IInv, Grown, KeepsIdle \/ ClosesIdle, idle' \in {None} \cup IdleType,
         DOMAIN slots' = Slots, slots' = [j \in Slots |-> slots'[j]],
         \A j \in Slots : SameSlot(slots[j], slots'[j]),
         suspends' \in 0 .. MaxSuspends, failures' \in 0 .. MaxFailures
  PROVE  IInv'
<1>1. \A j \in Slots : slots'[j] \in SlotType /\ SlotOK(slots'[j])
  BY DEF SameSlot, SlotOK
<1>2. \A j \in Slots : SlotOK(slots[j])'
  <2>1. size \in [Paths -> Nat]
    BY DEF IInv, TypeOK
  <2> QED
    BY <1>1, <2>1, SlotsStay
<1>3. slots' \in [Slots -> SlotType]
  BY <1>1
<1>4. files' \subseteq Names
  BY DEF IInv, TypeOK, KeepsIdle, ClosesIdle, Kept
<1>5. TypeOK'
  BY <1>2, <1>3, <1>4 DEF TypeOK, Grown
<1>6. Streams' = Streams /\ \A j \in Streams : slots'[j].st.addr = slots[j].st.addr
  BY DEF Streams, SameSlot
<1>7. Owned'
  BY <1>6, OwnersStay DEF IInv
<1> QED
  BY <1>5, <1>7 DEF IInv

(* What holds of the slot a token is found in.                             *)
LEMMA FoundSlot ==
  ASSUME IInv, NEW h \in Tokens
  PROVE  /\ Lookup(h) \in Slots /\ slots[Lookup(h)].lane \in Lanes
         /\ SlotOK(slots[Lookup(h)]) /\ slots[Lookup(h)].path \in Paths
         /\ size[slots[Lookup(h)].path] \in Nat
<1>1. Lookup(h) \in Slots /\ slots[Lookup(h)].lane # "free"
  BY Found DEF Live
<1> DEFINE s == slots[Lookup(h)]
<1>2. s \in SlotType /\ SlotOK(s) /\ size \in [Paths -> Nat]
  BY <1>1 DEF IInv, TypeOK
<1> HIDE DEF s
<1>3. s.lane \in {"free", "stream", "raw"} /\ (s.lane # "free" => s.path \in Paths)
  BY <1>2 DEF SlotType, SlotOK
<1> QED
  BY <1>1, <1>2, <1>3 DEF s, Lanes

(* A call that changes the contents of one slot.                           *)
LEMMA OneSlotStep ==
  ASSUME IInv, NEW i \in Slots, NEW t, SameSlot(slots[i], t),
         slots' = [slots EXCEPT ![i] = t],
         KeepsIdle \/ ClosesIdle, idle' \in {None, idle}, size' = size,
         suspends' = suspends, failures' \in 0 .. MaxFailures
  PROVE  IInv'
<1>1. slots \in [Slots -> SlotType] /\ \A j \in Slots : SlotOK(slots[j])
  BY DEF IInv, TypeOK
<1>2. Grown /\ suspends' \in 0 .. MaxSuspends /\ idle' \in {None} \cup IdleType
  BY DEF IInv, TypeOK, Grown
<1>3. \A j \in Slots : SameSlot(slots[j], slots'[j])
  BY <1>1 DEF SameSlot
<1>4. DOMAIN slots' = Slots /\ slots' = [j \in Slots |-> slots'[j]]
  BY <1>1
<1> QED
  BY <1>2, <1>3, <1>4, ContentsStep

(* A call that leaves one slot with another FILE.                          *)
LEMMA ReplaceStep ==
  ASSUME IInv, NEW i \in Slots, slots[i].lane = "stream", NEW t, SlotOK(t),
         t.lane = "stream", t.st.addr \in Names \ Kept,
         slots' = [slots EXCEPT ![i] = t],
         idle' = None, files' = (Kept \cup {t.st.addr}) \ {slots[i].st.addr},
         size' = size, suspends' = suspends, failures' \in 0 .. MaxFailures
  PROVE  IInv'
<1>1. /\ slots \in [Slots -> SlotType] /\ \A j \in Slots : SlotOK(slots[j])
      /\ size \in [Paths -> Nat]
  BY DEF IInv, TypeOK
<1>2. slots' \in [Slots -> SlotType]
  BY <1>1 DEF SlotOK
<1>3. \A j \in Slots : SlotOK(slots[j])'
  <2>1. \A j \in Slots : SlotOK(slots'[j])
    BY <1>1
  <2> QED
    BY <1>1, <2>1, SlotsStay DEF Grown
<1>4. TypeOK'
  BY <1>2, <1>3 DEF IInv, TypeOK, Kept
<1>5. i \in Streams /\ Streams' = Streams
  BY <1>1 DEF Streams
<1>6. /\ slots'[i].st.addr = t.st.addr
      /\ \A j \in Streams \ {i} : slots'[j].st.addr = slots[j].st.addr
  BY <1>1 DEF Streams
<1>7. Owned'
  BY <1>5, <1>6, OwnerReplaced DEF IInv
<1> QED
  BY <1>4, <1>7 DEF IInv

(* fread and fseek, and what their recovery does.                          *)
LEMMA CallStep ==
  ASSUME IInv, NEW h \in Tokens, NEW q \in Asks, Call(h, q)
  PROVE  IInv'
<1> DEFINE i == Lookup(h)
           s == slots[i]
           len == size[s.path]
           first == Do(s, q, len)
<1>1. /\ i \in Slots /\ s.lane \in Lanes /\ SlotOK(s) /\ s.path \in Paths
      /\ len \in Nat /\ size \in [Paths -> Nat]
      /\ failures \in 0 .. MaxFailures
  BY FoundSlot DEF IInv, TypeOK
<1>2. SameSlot(s, first.slot)
  BY <1>1, DoneSlot
<1>3. \/ Finish(h, q, i, first, idle, files, failures)
      \/ \E r \in Recover(first.slot, Position(s), NeedsCursor(q), len) :
           Finish(h, q, i, IF r.ok THEN Do(r.slot, q, len) ELSE first,
                  r.idle, r.files, r.failures)
  BY DEF Call
<1> HIDE DEF first
<1>4. CASE Finish(h, q, i, first, idle, files, failures)
  <2>1. /\ slots' = [slots EXCEPT ![i] = first.slot] /\ idle' = idle /\ files' = files
        /\ failures' = failures /\ size' = size /\ suspends' = suspends
    BY <1>4 DEF Finish
  <2> QED
    BY <1>1, <1>2, <2>1, OneSlotStep DEF KeepsIdle
<1>5. ASSUME NEW r \in Recover(first.slot, Position(s), NeedsCursor(q), len),
             Finish(h, q, i, IF r.ok THEN Do(r.slot, q, len) ELSE first,
                    r.idle, r.files, r.failures)
      PROVE  IInv'
  <2> DEFINE c == IF r.ok THEN Do(r.slot, q, len) ELSE first
             pos == Position(s)
  <2>1. /\ slots' = [slots EXCEPT ![i] = c.slot] /\ idle' = r.idle /\ files' = r.files
        /\ failures' = r.failures /\ size' = size /\ suspends' = suspends
    BY <1>5 DEF Finish
  <2>2. pos \in Int /\ (s.lane = "raw" => pos >= 0)
    BY <1>1 DEF Position, SlotOK, SlotType, StreamType
  <2>3. /\ SlotOK(first.slot) /\ first.slot.lane = s.lane /\ first.slot.path = s.path
        /\ first.slot.st.addr = s.st.addr
    BY <1>2 DEF SameSlot
  <2>4. NeedsCursor(q) \in BOOLEAN
    BY DEF NeedsCursor
  <2> DEFINE u == first.slot
             need == NeedsCursor(q)
  <2> HIDE DEF c, i
  <2>5. /\ SlotOK(r.slot) /\ r.slot.lane = s.lane /\ r.slot.path = s.path
        /\ r.failures \in 0 .. failures
        /\ \/ /\ r.slot.st.addr = s.st.addr
              /\ \/ r.idle = idle /\ r.files = files
                 \/ r.idle = None /\ r.files = Kept
           \/ /\ r.ok /\ s.lane = "stream" /\ r.slot.st.addr \in Names \ Kept
              /\ r.idle = None /\ r.files = (Kept \cup {r.slot.st.addr}) \ {s.st.addr}
    <3>1. u.lane \in Lanes /\ (u.lane = "raw" => pos >= 0) /\ size[u.path] = len
      BY <1>1, <2>2, <2>3
    <3>2. r \in Recover(u, pos, need, size[u.path])
      BY <3>1
    <3>3. SlotOK(u) /\ pos \in Int /\ need \in BOOLEAN
      BY <2>2, <2>3, <2>4
    <3> HIDE DEF u, pos, need
    <3>4. /\ SlotOK(r.slot) /\ r.slot.lane = u.lane /\ r.slot.path = u.path
          /\ r.failures \in 0 .. failures
          /\ \/ /\ r.slot.st.addr = u.st.addr
                /\ \/ r.idle = idle /\ r.files = files
                   \/ r.idle = None /\ r.files = Kept
             \/ /\ r.ok /\ u.lane = "stream" /\ r.slot.st.addr \in Names \ Kept
                /\ r.idle = None /\ r.files = (Kept \cup {r.slot.st.addr}) \ {u.st.addr}
      BY <3>1, <3>2, <3>3, Recovered
    <3> QED
      BY <2>3, <3>4 DEF u
  <2>6. /\ SlotOK(c.slot) /\ c.slot.lane = s.lane /\ c.slot.path = s.path
        /\ c.slot.st.addr = IF r.ok THEN r.slot.st.addr ELSE s.st.addr
    <3>1. CASE r.ok
      <4>1. SameSlot(r.slot, Do(r.slot, q, size[r.slot.path]).slot)
        BY <1>1, <2>5, <3>1, DoneSlot
      <4> QED
        BY <2>5, <3>1, <4>1 DEF SameSlot, c
    <3>2. CASE ~r.ok
      BY <2>3, <3>2 DEF c
    <3> QED
      BY <3>1, <3>2
  <2>9. failures' \in 0 .. MaxFailures
    BY <1>1, <2>1, <2>5, CrtFileAssumption
  <2>7. CASE c.slot.st.addr = s.st.addr /\ \/ r.idle = idle /\ r.files = files
                                           \/ r.idle = None /\ r.files = Kept
    <3>1. SameSlot(s, c.slot)
      BY <2>6, <2>7 DEF SameSlot
    <3>2. (KeepsIdle \/ ClosesIdle) /\ idle' \in {None, idle}
      BY <2>1, <2>7 DEF KeepsIdle, ClosesIdle
    <3> DEFINE t == c.slot
    <3>3. SameSlot(slots[i], t) /\ slots' = [slots EXCEPT ![i] = t]
      BY <2>1, <3>1
    <3> HIDE DEF t
    <3> QED
      BY <1>1, <2>1, <2>9, <3>2, <3>3, OneSlotStep
  <2>8. CASE /\ r.ok /\ s.lane = "stream" /\ r.slot.st.addr \in Names \ Kept
             /\ r.idle = None /\ r.files = (Kept \cup {r.slot.st.addr}) \ {s.st.addr}
    <3> DEFINE t == c.slot
    <3>1. /\ SlotOK(t) /\ t.lane = "stream" /\ t.st.addr \in Names \ Kept
          /\ slots' = [slots EXCEPT ![i] = t] /\ slots[i].lane = "stream"
          /\ files' = (Kept \cup {t.st.addr}) \ {slots[i].st.addr}
      BY <2>1, <2>6, <2>8
    <3> HIDE DEF t
    <3> QED
      BY <1>1, <2>1, <2>9, <2>8, <3>1, ReplaceStep
  <2> QED
    BY <2>5, <2>6, <2>7, <2>8
<1> QED
  BY <1>3, <1>4, <1>5

(* ftell may ask newlib where the cursor is.                               *)
LEMMA FtellStep ==
  ASSUME IInv, NEW h \in Tokens, Ftell(h)
  PROVE  IInv'
<1> DEFINE i == Lookup(h)
           s == slots[i]
           st == NativeTell(s.st).st
           t == [s EXCEPT !.st = st]
<1>1. /\ i \in Slots /\ SlotOK(s) /\ s \in SlotType /\ s.st \in StreamType
      /\ failures \in 0 .. MaxFailures /\ slots \in [Slots -> SlotType]
  BY FoundSlot DEF IInv, TypeOK, SlotOK, SlotType
<1>2. /\ slots' = slots \/ slots' = [slots EXCEPT ![i].st = st]
      /\ size' = size /\ idle' = idle /\ files' = files /\ suspends' = suspends
      /\ failures' = failures
  BY DEF Ftell
<1>3. st \in StreamType /\ st.addr = s.st.addr
  BY <1>1, TellType DEF SameStream
<1> HIDE DEF st
<1>4. SameSlot(s, t) /\ SameSlot(s, s)
  BY <1>1, <1>3, StreamInSlot DEF SameSlot
<1>5. slots' = [slots EXCEPT ![i] = s] \/ slots' = [slots EXCEPT ![i] = t]
  BY <1>1, <1>2
<1> HIDE DEF t, i
<1> QED
  BY <1>1, <1>2, <1>4, <1>5, OneSlotStep DEF KeepsIdle

(* The flush of a reader applies its pending seek.                         *)
LEMMA FflushReaderStep ==
  ASSUME IInv, NEW h \in Tokens, FflushReader(h)
  PROVE  IInv'
<1> DEFINE i == Lookup(h)
           s == slots[i]
           u == Apply(s, size[s.path])
           st == NativeFlush(u.st).st
           t == [u EXCEPT !.st = st]
<1>1. /\ i \in Slots /\ SlotOK(s) /\ size[s.path] \in Nat
      /\ failures \in 0 .. MaxFailures
  BY FoundSlot DEF IInv, TypeOK
<1>2. /\ slots' = [slots EXCEPT ![i] = t]
      /\ size' = size /\ idle' = idle /\ files' = files /\ suspends' = suspends
      /\ failures' = failures
  BY DEF FflushReader
<1>3. SameSlot(s, u) /\ SlotOK(u) /\ u.st \in StreamType
  BY <1>1, AppliedSlot DEF SameSlot
<1> HIDE DEF u
<1>4. st \in StreamType /\ st.addr = u.st.addr
  BY <1>3, FlushType DEF SameStream
<1> HIDE DEF st
<1>5. SameSlot(u, t)
  BY <1>3, <1>4, StreamInSlot
<1> HIDE DEF t
<1>6. SameSlot(s, t)
  BY <1>3, <1>5 DEF SameSlot
<1> HIDE DEF i
<1> QED
  BY <1>1, <1>2, <1>6, OneSlotStep DEF KeepsIdle

(* What a writer holds makes its file grow.                                *)
LEMMA WrittenGrows ==
  ASSUME size \in [Paths -> Nat], NEW s, SlotOK(s), s.path \in Paths
  PROVE  /\ Written(s) \in [Paths -> Nat]
         /\ \A p \in Paths : size[p] <= Written(s)[p]
<1>1. s.st.wbuf \in Nat
  BY DEF SlotOK, SlotType, StreamType
<1> QED
  BY <1>1 DEF Written

(* A writer's buffer, as long as it gets.                                  *)
LEMMA BufferedSlot ==
  ASSUME NEW s, SlotOK(s), NEW n \in Nat
  PROVE  SameSlot(s, [s EXCEPT !.st.wbuf = n])
<1> DEFINE st == [s.st EXCEPT !.wbuf = n]
<1>1. s \in SlotType /\ s.st \in StreamType
  BY DEF SlotOK, SlotType
<1>2. st \in StreamType /\ st.addr = s.st.addr
  BY <1>1 DEF StreamType
<1>3. [s EXCEPT !.st.wbuf = n] = [s EXCEPT !.st = st]
  BY <1>1 DEF SlotType
<1> HIDE DEF st
<1> QED
  BY <1>2, <1>3, StreamInSlot

(* A write-side call: one slot's contents, every cached size.              *)
LEMMA WriterStep ==
  ASSUME IInv, NEW i \in Slots, NEW t, SameSlot(slots[i], t), Grown,
         \/ slots' = NoteWrite([slots EXCEPT ![i] = t])
         \/ slots' = [NoteWrite(slots) EXCEPT ![i] = t],
         idle' = idle, files' = files, suspends' = suspends, failures' = failures
  PROVE  IInv'
<1>1. slots \in [Slots -> SlotType] /\ \A j \in Slots : SlotOK(slots[j])
  BY DEF IInv, TypeOK
<1>2. /\ suspends' \in 0 .. MaxSuspends /\ failures' \in 0 .. MaxFailures
      /\ idle' \in {None} \cup IdleType
  BY DEF IInv, TypeOK
<1>3. DOMAIN slots' = Slots /\ slots' = [j \in Slots |-> slots'[j]]
  BY <1>1 DEF NoteWrite
<1>4. ASSUME NEW j \in Slots
      PROVE  SameSlot(slots[j], slots'[j])
  <2> DEFINE s == IF j = i THEN t ELSE slots[j]
  <2>1. SameSlot(slots[j], s) /\ SlotOK(s)
    BY <1>1 DEF SameSlot
  <2>2. slots'[j] = [s EXCEPT !.fresh = FALSE] \/ slots'[j] = s
    BY <1>1 DEF NoteWrite
  <2> HIDE DEF s
  <2>3. SameSlot(s, [s EXCEPT !.fresh = FALSE])
    BY <2>1, NotedSlot
  <2> QED
    BY <2>1, <2>2, <2>3 DEF SameSlot
<1> QED
  BY <1>2, <1>3, <1>4, ContentsStep DEF KeepsIdle

(* fwrite.                                                                 *)
LEMMA FwriteStep ==
  ASSUME IInv, NEW h \in Tokens, NEW full \in BOOLEAN, Fwrite(h, full)
  PROVE  IInv'
<1> DEFINE i == Lookup(h)
           n == slots[i].st.wbuf + 1
           s == [slots[i] EXCEPT !.st.wbuf = n]
           t == IF full THEN [s EXCEPT !.st.wbuf = 0] ELSE s
<1>1. /\ i \in Slots /\ SlotOK(slots[i]) /\ slots[i].path \in Paths
      /\ size \in [Paths -> Nat] /\ slots[i].st.wbuf \in Nat
  BY FoundSlot DEF IInv, TypeOK, SlotOK, SlotType, StreamType
<1>2. /\ size' = IF full THEN Written(s) ELSE size
      /\ slots' = NoteWrite([slots EXCEPT ![i] = t])
      /\ idle' = idle /\ files' = files /\ suspends' = suspends /\ failures' = failures
  BY DEF Fwrite
<1>3. SameSlot(slots[i], s)
  <2>1. n \in Nat
    BY <1>1
  <2> HIDE DEF n, i
  <2> QED
    BY <1>1, <2>1, BufferedSlot
<1> HIDE DEF s
<1>4. SlotOK(s) /\ s.path \in Paths
  BY <1>1, <1>3 DEF SameSlot
<1>5. SameSlot(s, [s EXCEPT !.st.wbuf = 0])
  BY <1>4, BufferedSlot
<1>6. SameSlot(slots[i], t)
  BY <1>3, <1>5 DEF SameSlot
<1>7. Grown
  BY <1>1, <1>2, <1>4, WrittenGrows DEF Grown
<1> HIDE DEF t, i
<1> QED
  BY <1>1, <1>2, <1>6, <1>7, WriterStep

(* The flush of a writer.                                                  *)
LEMMA FflushWriterStep ==
  ASSUME IInv, NEW h \in Tokens, FflushWriter(h)
  PROVE  IInv'
<1> DEFINE i == Lookup(h)
           s == [slots[i] EXCEPT !.fresh = FALSE]
<1>1. /\ i \in Slots /\ SlotOK(slots[i]) /\ slots[i].path \in Paths
      /\ size \in [Paths -> Nat]
  BY FoundSlot DEF IInv, TypeOK
<1>2. /\ size' = Written(slots[i])
      /\ slots' = [NoteWrite(slots) EXCEPT ![i] = [s EXCEPT !.st.wbuf = 0]]
      /\ idle' = idle /\ files' = files /\ suspends' = suspends /\ failures' = failures
  BY <1>1 DEF FflushWriter, NoteWrite
<1>3. SameSlot(slots[i], s) /\ SlotOK(s)
  BY <1>1, NotedSlot DEF SameSlot
<1> HIDE DEF s
<1>4. SameSlot(s, [s EXCEPT !.st.wbuf = 0])
  BY <1>3, BufferedSlot
<1> DEFINE u == [s EXCEPT !.st.wbuf = 0]
<1>5. SameSlot(slots[i], u)
  BY <1>3, <1>4 DEF SameSlot
<1>6. Grown
  BY <1>1, <1>2, WrittenGrows DEF Grown
<1> HIDE DEF u, i
<1>7. slots' = [NoteWrite(slots) EXCEPT ![i] = u]
  BY <1>2 DEF u
<1> QED
  BY <1>1, <1>2, <1>5, <1>6, <1>7, WriterStep

(* A suspend spares no descriptor, and takes no FILE from its owner.       *)
LEMMA SuspendStep ==
  ASSUME IInv, Suspend
  PROVE  IInv'
<1>1. /\ slots \in [Slots -> SlotType] /\ \A j \in Slots : SlotOK(slots[j])
      /\ idle \in {None} \cup IdleType /\ None \notin IdleType
      /\ size \in [Paths -> Nat] /\ failures \in 0 .. MaxFailures
      /\ suspends \in 0 .. MaxSuspends /\ MaxSuspends \in Nat
  BY CrtFileAssumption DEF IInv, TypeOK
<1>2. suspends' \in 0 .. MaxSuspends /\ failures' \in 0 .. MaxFailures /\ Grown
  BY <1>1 DEF Suspend, Grown
<1>3. ASSUME NEW j \in Slots
      PROVE  SameSlot(slots[j], slots'[j])
  <2> DEFINE s == slots[j]
             st == [s.st EXCEPT !.dead = TRUE]
  <2>1. s \in SlotType /\ s.st \in StreamType /\ SlotOK(s)
    BY <1>1 DEF SlotType
  <2>2. st \in StreamType /\ st.addr = s.st.addr
    BY <2>1 DEF StreamType
  <2>3. slots'[j] = s \/ slots'[j] = [s EXCEPT !.st = st]
    BY <2>1 DEF Suspend, SlotType
  <2> HIDE DEF st, s
  <2>4. SameSlot(s, s) /\ SameSlot(s, [s EXCEPT !.st = st])
    BY <2>1, <2>2, StreamInSlot DEF SameSlot
  <2> QED
    BY <2>3, <2>4 DEF s
<1>4. DOMAIN slots' = Slots /\ slots' = [j \in Slots |-> slots'[j]]
  BY DEF Suspend
<1>5. KeepsIdle /\ idle' \in {None} \cup IdleType
  <2>1. CASE idle = None
    BY <2>1 DEF Suspend, KeepsIdle
  <2>2. CASE idle # None
    <3> DEFINE k == [idle EXCEPT !.st.dead = TRUE]
    <3>1. idle \in IdleType
      BY <1>1, <2>2
    <3>2. k \in IdleType /\ k.st.addr = idle.st.addr
      BY <3>1 DEF IdleType, StreamType
    <3>3. idle' = k /\ files' = files
      BY <2>2 DEF Suspend
    <3> HIDE DEF k
    <3> QED
      BY <1>1, <2>2, <3>2, <3>3 DEF KeepsIdle
  <2> QED
    BY <2>1, <2>2
<1> QED
  BY <1>2, <1>3, <1>4, <1>5, ContentsStep

(* A free slot is a slot.                                                  *)
LEMMA FreeSlotOK ==
  FreeSlot \in SlotType /\ SlotOK(FreeSlot) /\ FreeSlot.lane = "free" /\ ~FreeSlot.pend
BY DEF FreeSlot, NoStream, SlotOK, SlotType, StreamType

(* fclose: the stream is closed, or an archive's kept idle.                *)
LEMMA FcloseStep ==
  ASSUME IInv, NEW h \in Tokens, Fclose(h)
  PROVE  IInv'
<1> DEFINE i == Lookup(h)
           s == slots[i]
           parks == s.lane = "stream" /\ s.path \in Archives
           ss == [slots EXCEPT ![i] = FreeSlot]
<1>1. /\ i \in Slots /\ s.lane \in Lanes /\ SlotOK(s) /\ s.path \in Paths
      /\ slots \in [Slots -> SlotType] /\ \A j \in Slots : SlotOK(slots[j])
      /\ size \in [Paths -> Nat] /\ files \subseteq Names
      /\ idle \in {None} \cup IdleType /\ None \notin IdleType \cup Names
      /\ suspends \in 0 .. MaxSuspends /\ failures \in 0 .. MaxFailures
      /\ s.st \in StreamType
  BY FoundSlot, CrtFileAssumption DEF IInv, TypeOK, SlotOK, SlotType
<1>2. /\ slots' = IF s.ro THEN ss ELSE NoteWrite(ss)
      /\ idle' = IF parks THEN [path |-> s.path, st |-> s.st] ELSE idle
      /\ files' = IF parks THEN Kept ELSE files \ {s.st.addr}
      /\ size' = Written(s) /\ suspends' = suspends /\ failures' = failures
  BY DEF Fclose
<1>3. Grown
  BY <1>1, <1>2, WrittenGrows DEF Grown
<1>4. ss \in [Slots -> SlotType] /\ \A j \in Slots : SlotOK(ss[j])
  BY <1>1, FreeSlotOK DEF SlotOK
<1>5. ASSUME NEW j \in Slots
      PROVE  SlotOK(slots'[j]) /\ SameSlot(ss[j], slots'[j])
  <2> DEFINE t == ss[j]
  <2>1. SlotOK(t)
    BY <1>4
  <2>2. slots'[j] = t \/ slots'[j] = [t EXCEPT !.fresh = FALSE]
    BY <1>2 DEF NoteWrite
  <2> HIDE DEF t
  <2>3. SameSlot(t, [t EXCEPT !.fresh = FALSE]) /\ SameSlot(t, t)
    BY <2>1, NotedSlot DEF SameSlot
  <2>4. SameSlot(t, slots'[j])
    BY <2>2, <2>3
  <2> QED
    BY <2>4 DEF SameSlot, t
<1>6. slots' \in [Slots -> SlotType]
  <2>1. DOMAIN slots' = Slots /\ slots' = [j \in Slots |-> slots'[j]]
    BY <1>1, <1>2 DEF NoteWrite
  <2>2. \A j \in Slots : slots'[j] \in SlotType
    BY <1>5 DEF SlotOK
  <2> QED
    BY <2>1, <2>2
<1>7. \A j \in Slots : SlotOK(slots[j])'
  BY <1>1, <1>3, <1>5, SlotsStay
<1>8. TypeOK'
  <2>1. idle' \in {None} \cup IdleType
    BY <1>1, <1>2 DEF IdleType
  <2>2. files' \subseteq Names
    BY <1>1, <1>2 DEF Kept
  <2> QED
    BY <1>1, <1>2, <1>3, <1>6, <1>7, <2>1, <2>2 DEF TypeOK, Grown
<1>9. /\ slots'[i].lane = "free"
      /\ \A j \in Slots \ {i} : /\ slots'[j].lane = slots[j].lane
                                /\ slots'[j].st.addr = slots[j].st.addr
  BY <1>1, <1>5, FreeSlotOK DEF SameSlot
<1> HIDE DEF i, ss
<1>10. CASE s.lane = "raw"
  <2>1. s.st.addr = None /\ ~parks
    BY <1>1, <1>10 DEF SlotOK
  <2>2. KeepsIdle
    BY <1>1, <1>2, <2>1 DEF KeepsIdle
  <2>3. Streams' = Streams /\ \A j \in Streams : slots'[j].st.addr = slots[j].st.addr
    BY <1>1, <1>9, <1>10 DEF Streams
  <2>4. Owned'
    BY <2>2, <2>3, OwnersStay DEF IInv
  <2> QED
    BY <1>8, <2>4 DEF IInv
<1>11. CASE s.lane = "stream"
  <2>1. /\ i \in Streams /\ Streams' = Streams \ {i}
        /\ \A j \in Streams \ {i} : slots'[j].st.addr = slots[j].st.addr
    BY <1>1, <1>9, <1>11 DEF Streams
  <2>2. \/ idle' = idle /\ files' = files \ {slots[i].st.addr}
        \/ idle' # None /\ idle'.st.addr = slots[i].st.addr /\ files' = Kept
    <3>1. CASE parks
      <4>1. [path |-> s.path, st |-> s.st] \in IdleType
        BY <1>1 DEF IdleType
      <4> QED
        BY <1>1, <1>2, <3>1, <4>1
    <3>2. CASE ~parks
      BY <1>2, <3>2
    <3> QED
      BY <3>1, <3>2
  <2>3. Owned'
    BY <2>1, <2>2, OwnerRemoved DEF IInv
  <2> QED
    BY <1>8, <2>3 DEF IInv
<1> QED
  BY <1>1, <1>10, <1>11 DEF Lanes

(* A stream, or a raw descriptor, is published in a free slot.             *)
LEMMA PublishStep ==
  ASSUME IInv, Live # Slots, NEW p \in Paths, NEW ro \in BOOLEAN, NEW lane \in Lanes,
         NEW token \in Int, NEW st \in StreamType,
         lane = "stream" => st.addr \in Names \ Kept, lane = "raw" => st.addr = None,
         Publish(p, ro, lane, token, st),
         idle' = None, files' = IF lane = "stream" THEN Kept \cup {st.addr} ELSE Kept,
         size' = size, suspends' = suspends, failures' \in 0 .. MaxFailures
  PROVE  IInv'
<1> DEFINE ss == IF ro THEN slots ELSE NoteWrite(slots)
           st2 == IF p \in Archives THEN [st EXCEPT !.known = TRUE] ELSE st
           seen == IF lane = "raw" THEN size[p] ELSE 0
           t == [FreeSlot EXCEPT !.lane = lane, !.token = token, !.path = p, !.ro = ro,
                                 !.st = st2, !.seen = seen]
           i == FirstFree
<1>1. /\ slots \in [Slots -> SlotType] /\ \A j \in Slots : SlotOK(slots[j])
      /\ size \in [Paths -> Nat] /\ files \subseteq Names
      /\ suspends \in 0 .. MaxSuspends /\ size[p] \in Nat
  BY DEF IInv, TypeOK
<1>2. i \in Slots \ Live
  BY FreeFound
<1>3. slots' = [ss EXCEPT ![i] = t]
  BY DEF Publish
<1>4. st2 \in StreamType /\ st2.addr = st.addr
  BY DEF StreamType
<1> HIDE DEF st2
<1>5. SlotOK(t) /\ t.lane = lane /\ t.st.addr = st.addr
  <2>1. /\ t \in SlotType /\ t.lane = lane /\ t.path = p /\ t.st = st2 /\ ~t.pend
        /\ t.seen = seen
    <3>1. seen \in Nat /\ lane \in {"free", "stream", "raw"}
      BY <1>1 DEF Lanes
    <3> HIDE DEF seen
    <3>2. t \in SlotType /\ t.pend = FreeSlot.pend
      BY <1>4, <3>1, FreeSlotOK DEF SlotType
    <3>3. t.lane = lane /\ t.path = p /\ t.st = st2 /\ t.seen = seen
      BY FreeSlotOK DEF SlotType
    <3> QED
      BY <3>2, <3>3, FreeSlotOK DEF seen
  <2>2. seen \in Nat /\ seen <= size[p]
    BY <1>1
  <2> HIDE DEF t, seen
  <2> QED
    BY <1>4, <2>1, <2>2 DEF SlotOK, Lanes
<1> HIDE DEF t, i
<1>6. ASSUME NEW j \in Slots \ {i}
      PROVE  SameSlot(slots[j], slots'[j])
  <2> DEFINE s == slots[j]
  <2>1. slots'[j] = s \/ slots'[j] = [s EXCEPT !.fresh = FALSE]
    BY <1>1, <1>3 DEF NoteWrite
  <2>2. SlotOK(s)
    BY <1>1
  <2> HIDE DEF s
  <2>3. SameSlot(s, [s EXCEPT !.fresh = FALSE]) /\ SameSlot(s, s)
    BY <2>2, NotedSlot DEF SameSlot
  <2>4. SameSlot(s, slots'[j])
    BY <2>1, <2>3
  <2> QED
    BY <2>4 DEF s
<1>7. slots'[i] = t /\ DOMAIN slots' = Slots /\ slots' = [j \in Slots |-> slots'[j]]
  BY <1>1, <1>2, <1>3 DEF NoteWrite
<1>8. \A j \in Slots : SlotOK(slots'[j])
  BY <1>5, <1>6, <1>7 DEF SameSlot
<1>9. TypeOK'
  <2>1. \A j \in Slots : SlotOK(slots[j])'
    BY <1>1, <1>8, SlotsStay DEF Grown
  <2>2. slots' \in [Slots -> SlotType]
    BY <1>7, <1>8 DEF SlotOK
  <2>3. files' \subseteq Names
    BY <1>1 DEF Kept
  <2> QED
    BY <1>1, <2>1, <2>2, <2>3 DEF TypeOK
<1>10. i \notin Streams /\ \A j \in Streams : slots'[j].st.addr = slots[j].st.addr
  BY <1>2, <1>6 DEF Streams, Live, SameSlot
<1>11. CASE lane = "stream"
  <2>1. Streams' = Streams \cup {i}
    BY <1>2, <1>5, <1>6, <1>7, <1>11 DEF Streams, SameSlot
  <2>2. slots'[i].st.addr = st.addr /\ st.addr \notin Kept /\ files' = Kept \cup {st.addr}
    BY <1>5, <1>7, <1>11
  <2>3. Owned'
    BY <1>2, <1>10, <2>1, <2>2, OwnerAdded DEF IInv
  <2> QED
    BY <1>9, <2>3 DEF IInv
<1>12. CASE lane = "raw"
  <2>1. Streams' = Streams
    BY <1>2, <1>5, <1>6, <1>7, <1>10, <1>12 DEF Streams, SameSlot
  <2>2. Owned'
    BY <1>10, <1>12, <2>1, OwnersStay DEF IInv, ClosesIdle
  <2> QED
    BY <1>9, <2>2 DEF IInv
<1> QED
  BY <1>11, <1>12 DEF Lanes

(* Addresses and slots are numbers.                                        *)
LEMMA NumberedNames == Names \subseteq Int /\ Slots \subseteq Int
BY CrtFileAssumption

(* fopen, from the idle stream.                                            *)
LEMMA FopenIdleStep ==
  ASSUME IInv, Live # Slots, NEW p \in Paths, NEW ro \in BOOLEAN, FopenIdle(p, ro),
         size' = size, suspends' = suspends
  PROVE  IInv'
<1> DEFINE st == NativeSeek(idle.st, 0, size[p]).st
<1>1. /\ idle \in IdleType /\ idle # None /\ size[p] \in Nat /\ failures \in 0 .. MaxFailures
      /\ files \subseteq Names
  BY DEF IInv, TypeOK, FopenIdle, Rewound
<1>2. SameStream(idle.st, NativeSeek(idle.st, 0, size[p]))
  BY <1>1, SeekType DEF IdleType
<1>3. st \in StreamType /\ st.addr = idle.st.addr
  BY <1>2 DEF SameStream
<1>4. /\ Publish(p, ro, "stream", st.addr, st) /\ idle' = None /\ files' = files
      /\ failures' = failures
  BY DEF FopenIdle
<1> HIDE DEF st
<1>5. st.addr \in files /\ Kept = files \ {st.addr}
  BY <1>1, <1>3 DEF IInv, Owned, IdleAddr, Kept
<1>6. st.addr \in Names \ Kept /\ files' = Kept \cup {st.addr}
  BY <1>1, <1>4, <1>5
<1>7. st.addr \in Int
  BY <1>6, NumberedNames
<1> QED
  BY <1>1, <1>3, <1>4, <1>6, <1>7, PublishStep DEF Lanes

(* fopen, by newlib, once the idle stream is closed.                       *)
LEMMA FopenNativeStep ==
  ASSUME IInv, Live # Slots, NEW p \in Paths, NEW ro \in BOOLEAN, FopenNative(p, ro),
         size' = size, suspends' = suspends
  PROVE  IInv'
<1>1. PICK a \in FreeNames(Kept) :
        Publish(p, ro, "stream", a, NewStream(a)) /\ files' = Kept \cup {a}
  BY DEF FopenNative
<1>2. a \in Names \ Kept /\ a \in Int
  BY <1>1, FreshName, NumberedNames
<1>3. NewStream(a) \in StreamType /\ NewStream(a).addr = a
  BY <1>2, NewStreamType
<1>4. idle' = None /\ failures' \in 0 .. MaxFailures
  BY DEF FopenNative, IInv, TypeOK
<1> QED
  BY <1>1, <1>2, <1>3, <1>4, PublishStep DEF Lanes

(* fopen of an archive newlib has no memory for, by the kernel.            *)
LEMMA FopenRawStep ==
  ASSUME IInv, Live # Slots, NEW p \in Paths, NEW ro \in BOOLEAN, FopenRaw(p, ro),
         size' = size, suspends' = suspends
  PROVE  IInv'
<1>1. /\ Publish(p, ro, "raw", -FirstFree, NoStream) /\ idle' = None /\ files' = Kept
      /\ failures' = failures \/ (failures > 0 /\ failures' = failures - 1)
  BY DEF FopenRaw, NoRoom, OpenFails
<1>2. failures' \in 0 .. MaxFailures
  BY <1>1, CrtFileAssumption DEF IInv, TypeOK
<1>3. -FirstFree \in Int
  <2>1. \A i \in Slots : -i \in Int
    BY NumberedNames
  <2> QED
    BY <2>1, FreeFound
<1>4. NoStream \in StreamType /\ NoStream.addr = None
  BY DEF NoStream, StreamType
<1> QED
  BY <1>1, <1>2, <1>3, <1>4, PublishStep DEF Lanes

(* fopen that fails: the idle stream is closed all the same.               *)
LEMMA FopenFailsStep ==
  ASSUME IInv, NEW p \in Paths, NEW ro \in BOOLEAN, FopenFails(p, ro),
         size' = size, suspends' = suspends
  PROVE  IInv'
<1>1. /\ slots' = (IF ro THEN slots ELSE NoteWrite(slots)) /\ idle' = None /\ files' = Kept
      /\ failures' = failures \/ (failures > 0 /\ failures' = failures - 1)
  BY DEF FopenFails, NoRoom, OpenFails
<1>2. failures' \in 0 .. MaxFailures /\ suspends' \in 0 .. MaxSuspends /\ Grown
  BY <1>1, CrtFileAssumption DEF IInv, TypeOK, Grown
<1>3. slots \in [Slots -> SlotType] /\ \A j \in Slots : SlotOK(slots[j])
  BY DEF IInv, TypeOK
<1>4. DOMAIN slots' = Slots /\ slots' = [j \in Slots |-> slots'[j]]
  BY <1>1, <1>3 DEF NoteWrite
<1>5. ASSUME NEW j \in Slots
      PROVE  SameSlot(slots[j], slots'[j])
  <2> DEFINE s == slots[j]
  <2>1. SlotOK(s) /\ (slots'[j] = s \/ slots'[j] = [s EXCEPT !.fresh = FALSE])
    BY <1>1, <1>3 DEF NoteWrite
  <2> HIDE DEF s
  <2>2. SameSlot(s, [s EXCEPT !.fresh = FALSE]) /\ SameSlot(s, s)
    BY <2>1, NotedSlot DEF SameSlot
  <2> QED
    BY <2>1, <2>2 DEF s
<1> QED
  BY <1>1, <1>2, <1>4, <1>5, ContentsStep DEF ClosesIdle

-----------------------------------------------------------------------------
(* Theorems.  The invariant holds at the start and every step keeps it.    *)
LEMMA InitInv == Init => IInv
<1> SUFFICES ASSUME Init PROVE IInv
  OBVIOUS
<1>1. Streams = {} /\ files = {} /\ idle = None
  BY FreeSlotOK DEF Init, Streams
<1>2. Owned
  BY <1>1 DEF Owned, IdleAddr
<1>3. size \in [Paths -> Nat]
  BY CrtFileAssumption DEF Init
<1>4. slots \in [Slots -> SlotType] /\ \A i \in Slots : SlotOK(slots[i])
  BY FreeSlotOK DEF Init
<1>5. suspends \in 0 .. MaxSuspends /\ failures \in 0 .. MaxFailures
  BY CrtFileAssumption DEF Init
<1> QED
  BY <1>1, <1>2, <1>3, <1>4, <1>5 DEF IInv, TypeOK

(* Every step of the file functions and every suspend keeps the invariant. *)
LEMMA NextInv == IInv /\ [Next]_vars => IInv'
<1> SUFFICES ASSUME IInv, [Next]_vars PROVE IInv'
  OBVIOUS
<1>1. ASSUME NEW p \in Paths, NEW ro \in BOOLEAN, Fopen(p, ro)
      PROVE  IInv'
  <2>1. Live # Slots /\ size' = size /\ suspends' = suspends
    BY <1>1 DEF Fopen
  <2>2. FopenIdle(p, ro) \/ FopenNative(p, ro) \/ FopenRaw(p, ro) \/ FopenFails(p, ro)
    BY <1>1 DEF Fopen
  <2> QED
    BY <2>1, <2>2, FopenIdleStep, FopenNativeStep, FopenRawStep, FopenFailsStep
<1>2. ASSUME NEW h \in Tokens, NEW n \in Requests, Fread(h, n)
      PROVE  IInv'
  <2> DEFINE q == [op |-> "fread", by |-> n]
  <2>1. q \in Asks /\ Call(h, q)
    BY <1>2, CrtFileAssumption DEF Asks, Fread
  <2> HIDE DEF q
  <2> QED
    BY <2>1, CallStep
<1>3. ASSUME NEW h \in Tokens, NEW x \in SetTo, FseekSet(h, x)
      PROVE  IInv'
  <2> DEFINE q == [op |-> "set", by |-> x]
  <2>1. q \in Asks /\ Call(h, q)
    BY <1>3, CrtFileAssumption DEF Asks, FseekSet
  <2> HIDE DEF q
  <2> QED
    BY <2>1, CallStep
<1>4. ASSUME NEW h \in Tokens, NEW off \in CurBy, FseekCur(h, off)
      PROVE  IInv'
  <2> DEFINE q == [op |-> "cur", by |-> off]
  <2>1. q \in Asks /\ Call(h, q)
    BY <1>4, CrtFileAssumption DEF Asks, FseekCur
  <2> HIDE DEF q
  <2> QED
    BY <2>1, CallStep
<1>5. ASSUME NEW h \in Tokens, NEW off \in EndBy, FseekEnd(h, off)
      PROVE  IInv'
  <2> DEFINE q == [op |-> "end", by |-> off]
  <2>1. q \in Asks /\ Call(h, q)
    BY <1>5, CrtFileAssumption DEF Asks, FseekEnd
  <2> HIDE DEF q
  <2> QED
    BY <2>1, CallStep
<1>6. ASSUME UNCHANGED vars
      PROVE  IInv'
  BY <1>6 DEF vars, IInv, TypeOK, SlotOK, Owned, IdleAddr, Streams
<1> QED
  BY <1>1, <1>2, <1>3, <1>4, <1>5, <1>6, FwriteStep, FtellStep, FflushReaderStep,
     FflushWriterStep, FcloseStep, SuspendStep DEF Next

(* The invariant is one of the specification.                              *)
LEMMA Invariant == Spec => []IInv
  BY InitInv, NextInv, PTL DEF Spec

(* Every state is typed: no cursor is before the beginning of its file, a  *)
(* seek that is still pending is to an offset in the file, a size the      *)
(* shadow has recorded is never more than the file's, and only a stream    *)
(* has a FILE (host_vita_crt.c:1301).                                      *)
THEOREM TypeCorrect == Spec => []TypeOK
<1>1. IInv => TypeOK
  BY DEF IInv
<1> QED
  BY <1>1, Invariant, PTL

(* Every open FILE of newlib belongs to one token or to the idle slot, and *)
(* newlib can always open one more once the idle stream is closed: no      *)
(* recovery, cache hit or failed open leaks a FILE or closes one in use    *)
(* (host_vita_crt.c:1163, 1301).                                           *)
THEOREM HandlesOwned == Spec => []HandlesAreOwned
<1>1. IInv => HandlesAreOwned
  BY RoomForOne DEF IInv, Owned, HandlesAreOwned, IdleAddr
<1> QED
  BY <1>1, Invariant, PTL

-----------------------------------------------------------------------------
(* Suspends.                                                               *)

(* There is always an address for the stream a recovery opens.             *)
LEMMA CanOpen ==
  ASSUME IInv
  PROVE  FreeNames(Kept) # {}
<1> DEFINE n == Cardinality(Slots)
<1>1. IsFiniteSet(Slots) /\ n \in Nat
  BY CrtFileAssumption, FS_CardinalityType
<1>2. IsFiniteSet(Kept) /\ Cardinality(Kept) <= n /\ Cardinality(Kept) \in Nat
  <2> DEFINE f == [i \in Streams |-> slots[i].st.addr]
  <2>1. IsFiniteSet(Streams) /\ Cardinality(Streams) <= n /\ Cardinality(Streams) \in Nat
    BY <1>1, FS_Subset, FS_CardinalityType DEF Streams
  <2>2. f \in Surjection(Streams, Kept)
    BY KeptAreStreams DEF Surjection, IInv
  <2>3. IsFiniteSet(Kept) /\ Cardinality(Kept) <= Cardinality(Streams)
    BY <2>1, <2>2, FS_Surjection
  <2> QED
    BY <1>1, <2>1, <2>3, FS_CardinalityType
<1>3. IsFiniteSet(Tokens) /\ Cardinality(Tokens) <= n /\ Cardinality(Tokens) \in Nat
  <2> DEFINE f == [i \in Live |-> slots[i].token]
  <2>1. IsFiniteSet(Live) /\ Cardinality(Live) <= n /\ Cardinality(Live) \in Nat
    BY <1>1, FS_Subset, FS_CardinalityType DEF Live
  <2>2. f \in Surjection(Live, Tokens)
    BY DEF Surjection, Tokens
  <2>3. IsFiniteSet(Tokens) /\ Cardinality(Tokens) <= Cardinality(Live)
    BY <2>1, <2>2, FS_Surjection
  <2> QED
    BY <1>1, <2>1, <2>3, FS_CardinalityType
<1>4. Unused(Kept) # {}
  <2> SUFFICES ASSUME Unused(Kept) = {} PROVE FALSE
    OBVIOUS
  <2>1. CASE NamesReused
    <3>1. Names \subseteq Kept
      BY <2>1 DEF Unused
    <3>2. IsFiniteSet(Names) /\ Cardinality(Names) <= Cardinality(Kept)
          /\ Cardinality(Names) \in Nat
      BY <1>2, <3>1, FS_Subset, FS_CardinalityType
    <3>3. Cardinality(Names) > n
      BY <1>1, <2>1, <3>2, CrtFileAssumption
    <3> QED
      BY <1>1, <1>2, <3>2, <3>3
  <2>2. CASE ~NamesReused
    <3>1. Names \subseteq Kept \cup Tokens
      BY <2>2 DEF Unused
    <3>2. /\ IsFiniteSet(Kept \cup Tokens) /\ IsFiniteSet(Kept \cap Tokens)
          /\ Cardinality(Kept \cup Tokens)
               = Cardinality(Kept) + Cardinality(Tokens) - Cardinality(Kept \cap Tokens)
      BY <1>2, <1>3, FS_Union, FS_Subset
    <3>3. Cardinality(Kept \cap Tokens) \in Nat
      BY <3>2, FS_CardinalityType
    <3>4. IsFiniteSet(Names) /\ Cardinality(Names) <= Cardinality(Kept \cup Tokens)
          /\ Cardinality(Names) \in Nat
      BY <3>1, <3>2, FS_Subset, FS_CardinalityType
    <3>5. Cardinality(Names) > 2 * n
      BY <1>1, <2>2, <3>4, CrtFileAssumption
    <3> QED
      BY <1>1, <1>2, <1>3, <3>2, <3>3, <3>4, <3>5
  <2> QED
    BY <2>1, <2>2
<1>5. Unused(Kept) \subseteq Nat
  BY CrtFileAssumption DEF Unused
<1>6. PICK a \in Unused(Kept) : \A b \in Unused(Kept) : a <= b
  BY <1>4, <1>5, LeastElement
<1>7. ~(Cardinality(Kept) >= FopenMax)
  BY <1>2, RoomForOne, CrtFileAssumption DEF IInv
<1> QED
  BY <1>6, <1>7 DEF FreeNames

(* A recovery can place the cursor of the slot.                            *)
Placeable(s) == IF s.pend THEN s.valid ELSE s.st.known
(* What the guest asks of an archive: it reads with no seek pending, and   *)
(* seeks to no place before the beginning.                                 *)
Archival(s, q) ==
  CASE q.op = "fread" -> ~s.pend
    [] q.op = "set"   -> q.by >= 0
    [] q.op = "cur"   -> At(s) + q.by >= 0
    [] q.op = "end"   -> size[s.path] + q.by >= 0
(* A call that went well, and left the slot so.                            *)
Well(c) == c.why # "device" => Placeable(c.slot)

(* newlib, on a descriptor that is alive, never reports it dead; a seek    *)
(* that succeeds makes the offset exact.                                   *)
LEMMA AliveStream ==
  ASSUME NEW st \in StreamType, NEW len \in Nat
  PROVE  /\ \A x \in Int : LET r == NativeSeek(st, x, len) IN
              /\ ~st.dead => r.why # "device"
              /\ x >= 0 /\ r.why # "device" => r.why = "ok" /\ r.st.known
         /\ \A n \in Nat : LET r == NativeRead(st, n, len) IN
              /\ ~st.dead => r.why # "device"
              /\ st.known /\ r.why # "device" => r.st.known
<1>1. ASSUME NEW x \in Int
      PROVE  LET r == NativeSeek(st, x, len) IN
              /\ ~st.dead => r.why # "device"
              /\ x >= 0 /\ r.why # "device" => r.why = "ok" /\ r.st.known
  <2>1. [st EXCEPT !.cur = x, !.eof = FALSE, !.known = TRUE].known = TRUE
    BY DEF StreamType
  <2>2. Placed(st, x, len).known = TRUE
    BY DEF Placed, StreamType
  <2> QED
    BY <2>1, <2>2 DEF NativeSeek, Result, Fails
<1>2. ASSUME NEW n \in Nat
      PROVE  LET r == NativeRead(st, n, len) IN
              /\ ~st.dead => r.why # "device"
              /\ st.known /\ r.why # "device" => r.st.known
  BY DEF NativeRead, Result, Emptied, StreamType
<1> QED
  BY <1>1, <1>2

(* A seek of the stream that ends the pending one.                         *)
LEMMA SettledWell ==
  ASSUME NEW s, SlotOK(s), NEW r, r.why # "device" => r.why = "ok" /\ r.st.known
  PROVE  Well(Settled(s, r)) /\ Settled(s, r).why = r.why
<1>1. s \in SlotType
  BY DEF SlotOK
<1>2. ASSUME r.why = "ok"
      PROVE  Settled(s, r).slot.pend = FALSE /\ Settled(s, r).slot.st = r.st
  BY <1>1, <1>2 DEF Settled, SlotType
<1>3. Settled(s, r).why = r.why
  BY DEF Settled
<1> QED
  BY <1>2, <1>3 DEF Well, Placeable

(* A seek from the end of a stream: recorded, or performed.                *)
LEMMA SeekEndWell ==
  ASSUME NEW s, SlotOK(s), NEW off \in Int, NEW len \in Nat, len + off >= 0
  PROVE  /\ Well(ShadowSeekEnd(s, off, len))
         /\ ~s.st.dead => ShadowSeekEnd(s, off, len).why # "device"
<1> DEFINE t == IF SizeKnown(s) THEN s
                ELSE [s EXCEPT !.seen = len, !.valid = TRUE, !.fresh = TRUE]
           u == [s EXCEPT !.valid = FALSE]
           v == [t EXCEPT !.pend = TRUE, !.off = off]
           r == NativeSeekEnd(s.st, off, len)
<1>1. s \in SlotType /\ s.st \in StreamType
  BY DEF SlotOK, SlotType
<1>2. ShadowSeekEnd(s, off, len) =
        IF ~SizeKnown(s) /\ s.st.dead THEN Settled(u, NativeSeekEnd(s.st, off, len))
        ELSE IF t.seen + off < 0 THEN Settled(t, NativeSeekEnd(t.st, off, len))
        ELSE [slot |-> v, n |-> 0, why |-> "ok"]
  BY DEF ShadowSeekEnd
<1>3. /\ u.pend = s.pend /\ u.st = s.st /\ t.pend = s.pend /\ t.st = s.st
      /\ t \in SlotType /\ u \in SlotType
  BY <1>1 DEF SlotType
<1>4. v.pend /\ v.valid
  <2>1. t.valid
    BY <1>1 DEF SizeKnown, SlotType
  <2> HIDE DEF t
  <2> QED
    BY <1>3, <2>1 DEF SlotType
<1>5. (~s.st.dead => r.why # "device") /\ (r.why # "device" => r.why = "ok" /\ r.st.known)
  <2>1. CASE s.st.dead
    BY <2>1 DEF NativeSeekEnd, Fails, Result
  <2>2. CASE ~s.st.dead
    <3>1. r = NativeSeek(s.st, len + off, len) /\ len + off \in Int
      BY <2>2 DEF NativeSeekEnd
    <3> HIDE DEF r
    <3> QED
      BY <1>1, <2>2, <3>1, AliveStream
  <2> QED
    BY <2>1, <2>2
<1> HIDE DEF t, u, v, r
<1>6. ASSUME NEW w \in SlotType, w.st = s.st
      PROVE  Well(Settled(w, r)) /\ (~s.st.dead => Settled(w, r).why # "device")
  <2>1. Settled(w, r).why = r.why
    BY DEF Settled
  <2>2. r.why = "ok" => Settled(w, r).slot.pend = FALSE /\ Settled(w, r).slot.st = r.st
    BY DEF Settled, SlotType
  <2> QED
    BY <1>5, <2>1, <2>2 DEF Well, Placeable
<1>7. Well([slot |-> v, n |-> 0, why |-> "ok"])
  BY <1>4 DEF Well, Placeable
<1>8. NativeSeekEnd(s.st, off, len) = r /\ NativeSeekEnd(t.st, off, len) = r
  BY <1>3 DEF r
<1> QED
  BY <1>2, <1>3, <1>6, <1>7, <1>8

(* A call on an archive's stream: unless the descriptor is dead, it goes   *)
(* well.                                                                   *)
LEMMA DoneWell ==
  ASSUME NEW s, SlotOK(s), s.lane = "stream", size \in [Paths -> Nat], NEW q \in Asks,
         Archival(s, q), NeedsCursor(q) => Placeable(s)
  PROVE  /\ Well(Do(s, q, size[s.path]))
         /\ ~s.st.dead => Do(s, q, size[s.path]).why # "device"
<1> DEFINE len == size[s.path]
<1>1. /\ s \in SlotType /\ s.st \in StreamType /\ s.st.cur \in Nat /\ s.seen \in Nat
      /\ s.off \in Int /\ len \in Nat /\ q.by \in Int
  BY DEF SlotOK, SlotType, StreamType, Asks
<1>2. ASSUME q.op = "fread"
      PROVE  Well(Do(s, q, len)) /\ (~s.st.dead => Do(s, q, len).why # "device")
  <2> DEFINE r == NativeRead(s.st, q.by, len)
  <2>1. ~s.pend /\ s.st.known /\ q.by \in Nat
    BY <1>2 DEF Archival, NeedsCursor, Placeable, Asks
  <2>2. Do(s, q, len) = WithStream(s, r)
    BY <1>2, <2>1 DEF Do, Apply
  <2>3. (~s.st.dead => r.why # "device") /\ (r.why # "device" => r.st.known)
    BY <1>1, <2>1, AliveStream
  <2> HIDE DEF r, len
  <2>4. WithStream(s, r).why = r.why /\ WithStream(s, r).slot.pend = s.pend
        /\ WithStream(s, r).slot.st = r.st
    BY <1>1 DEF WithStream, SlotType
  <2> QED
    BY <2>1, <2>2, <2>3, <2>4 DEF Well, Placeable
<1>3. ASSUME q.op = "set"
      PROVE  Well(Do(s, q, len)) /\ (~s.st.dead => Do(s, q, len).why # "device")
  <2> DEFINE r == NativeSeek(s.st, q.by, len)
  <2>1. Do(s, q, len) = Settled(s, r) /\ q.by >= 0
    BY <1>3 DEF Do, Archival
  <2>2. (~s.st.dead => r.why # "device") /\ (r.why # "device" => r.why = "ok" /\ r.st.known)
    BY <1>1, <2>1, AliveStream
  <2> HIDE DEF r, len
  <2> QED
    BY <2>1, <2>2, SettledWell
<1>4. ASSUME q.op = "cur"
      PROVE  Well(Do(s, q, len)) /\ (~s.st.dead => Do(s, q, len).why # "device")
  <2>1. Do(s, q, len) = ShadowSeekCur(s, q.by, len) /\ At(s) + q.by >= 0
    BY <1>4 DEF Do, Archival
  <2>2. CASE s.pend
    <3> DEFINE x == s.seen + s.off + q.by
               r == NativeSeek(s.st, x, len)
    <3>1. x \in Int /\ x >= 0
      BY <1>1, <2>1, <2>2 DEF At
    <3>2. Do(s, q, len) = Settled(s, r)
      BY <2>1, <2>2, <3>1 DEF ShadowSeekCur
    <3>3. (~s.st.dead => r.why # "device") /\ (r.why # "device" => r.why = "ok" /\ r.st.known)
      <4> HIDE DEF x
      <4> QED
        BY <1>1, <3>1, AliveStream
    <3> HIDE DEF r, len
    <3> QED
      BY <3>2, <3>3, SettledWell
  <2>3. CASE ~s.pend
    <3> DEFINE r == NativeSeekCur(s.st, q.by, len)
               st == Emptied(s.st)
               x == s.st.cur + q.by
    <3>1. x \in Int /\ x >= 0
      BY <1>1, <2>1, <2>3 DEF At
    <3>2. Do(s, q, len) = Settled(s, r)
      BY <2>1, <2>3 DEF ShadowSeekCur
    <3>3. st \in StreamType /\ st.dead = s.st.dead
      BY <1>1, EmptiedType DEF Emptied, StreamType
    <3>4. (~s.st.dead => r.why # "device") /\ (r.why # "device" => r.why = "ok" /\ r.st.known)
      <4>1. CASE s.st.dead
        BY <4>1 DEF NativeSeekCur, Fails, Result
      <4>2. CASE ~s.st.dead
        <5>1. r = NativeSeek(st, x, len)
          BY <4>2 DEF NativeSeekCur
        <5> HIDE DEF r, st, x
        <5> QED
          BY <1>1, <3>1, <3>3, <4>2, <5>1, AliveStream
      <4> QED
        BY <4>1, <4>2
    <3> HIDE DEF r, len
    <3> QED
      BY <3>2, <3>4, SettledWell
  <2> QED
    BY <2>2, <2>3
<1>5. ASSUME q.op = "end"
      PROVE  Well(Do(s, q, len)) /\ (~s.st.dead => Do(s, q, len).why # "device")
  <2>1. Do(s, q, len) = ShadowSeekEnd(s, q.by, len) /\ len + q.by >= 0
    BY <1>5 DEF Do, Archival
  <2> HIDE DEF len
  <2> QED
    BY <1>1, <2>1, SeekEndWell
<1> HIDE DEF len
<1>6. Well(Do(s, q, len)) /\ (~s.st.dead => Do(s, q, len).why # "device")
  BY <1>2, <1>3, <1>4, <1>5 DEF Asks
<1> QED
  BY <1>6 DEF len

(* The raw lane, on a descriptor that is alive.                            *)
LEMMA RawAlive ==
  ASSUME NEW s, s.lane = "raw", ~s.st.dead, NEW q \in Asks, NEW len
  PROVE  Do(s, q, len).why # "device"
<1>1. \A x : RawSeek(s, x).why # "device"
  BY DEF RawSeek
<1>2. \A n : RawRead(s, n, len).why # "device"
  BY DEF RawRead
<1>3. CASE q.op = "fread"
  BY <1>2, <1>3 DEF Do
<1>4. CASE q.op = "set"
  BY <1>1, <1>4 DEF Do
<1>5. CASE q.op = "cur"
  BY <1>1, <1>5 DEF Do
<1>6. CASE q.op = "end"
  BY <1>1, <1>6 DEF Do
<1> QED
  BY <1>3, <1>4, <1>5, <1>6 DEF Asks

(* After a recovery that no failed open has spoiled, the call goes well.   *)
(* u is the slot s after the call that found its descriptor dead.          *)
LEMMA RecoveredWell ==
  ASSUME IInv, NEW s, SlotOK(s), s.lane \in Lanes, NEW q \in Asks, Archival(s, q),
         s.lane = "stream" => Placeable(s), NEW u, SameSlot(s, u),
         NEW r \in Recover(u, Position(s), NeedsCursor(q), size[s.path]),
         r.failures = failures
  PROVE  /\ r.ok /\ Do(r.slot, q, size[s.path]).why # "device"
         /\ s.lane = "stream" => Placeable(Do(r.slot, q, size[s.path]).slot)
<1> DEFINE len == size[s.path]
           pos == Position(s)
           need == NeedsCursor(q)
<1>1. /\ size \in [Paths -> Nat] /\ failures \in Nat /\ s.path \in Paths /\ len \in Nat
      /\ s \in SlotType /\ s.st.cur \in Nat /\ s.seen \in Nat /\ s.off \in Int
  BY CrtFileAssumption DEF IInv, TypeOK, SlotOK, SlotType, StreamType, Lanes
<1>2. /\ SlotOK(u) /\ u.lane = s.lane /\ u.path = s.path
      /\ u \in SlotType /\ u.st \in StreamType
  BY DEF SameSlot, SlotOK, SlotType
<1>3. need \in BOOLEAN /\ failures # failures - 1
  BY <1>1 DEF NeedsCursor
<1>4. CASE s.lane = "raw"
  <2>1. r.ok /\ r.slot = Reopened(u, pos)
    BY <1>2, <1>3, <1>4, RawOutcomes
  <2>2. Reopened(u, pos).lane = "raw" /\ ~Reopened(u, pos).st.dead
    BY <1>2, <1>4 DEF Reopened, SlotType, StreamType
  <2> QED
    BY <1>4, <2>1, <2>2, RawAlive
<1>5. CASE s.lane = "stream"
  <2>1. pos = At(s) /\ pos \in Nat
    BY <1>1, <1>5 DEF Position, Placeable, At, SlotOK
  <2>2. pos \in Int /\ ~(pos < 0)
    BY <2>1
  <2>3. r.ok /\ \E a \in FreeNames(Kept) : r.slot = Fresh(u, a, pos, need, len)
    <3>1. u.lane = "stream"
      BY <1>2, <1>5
    <3> HIDE DEF pos, need, len
    <3>2. r \in Recover(u, pos, need, len)
      BY DEF pos, need, len
    <3> QED
      BY <1>3, <2>2, <3>1, <3>2, CanOpen, StreamOutcomes
  <2>4. PICK a \in FreeNames(Kept) : r.slot = Fresh(u, a, pos, need, len)
    BY <2>3
  <2> DEFINE t == Fresh(u, a, pos, need, len)
  <2>5. SlotOK(t) /\ t.lane = "stream" /\ t.path = s.path
    <3>1. a \in Names
      BY FreshName
    <3> HIDE DEF pos, need, len
    <3> QED
      BY <1>1, <1>2, <1>3, <1>5, <2>1, <2>2, <3>1, FreshSlot
  <2>6. ~t.st.dead /\ (need => ~t.pend /\ t.st.known /\ t.st.cur = pos)
    <3> DEFINE st == IF need THEN Placed(NewStream(a), pos, len) ELSE NewStream(a)
    <3>1. t = [u EXCEPT !.st = st, !.pend = u.pend /\ ~need]
      BY DEF Fresh
    <3>2. ~st.dead /\ (need => st.known /\ st.cur = pos)
      BY DEF Placed, NewStream, NoStream
    <3> HIDE DEF st, need, t
    <3> QED
      BY <1>2, <3>1, <3>2 DEF SlotType
  <2> HIDE DEF t, pos
  <2>7. Archival(t, q) /\ (need => Placeable(t))
    <3>1. need => Placeable(t)
      BY <2>6 DEF Placeable
    <3>2. q.op = "fread" => ~t.pend
      BY <2>6 DEF NeedsCursor
    <3>3. q.op = "cur" => At(t) + q.by >= 0
      <4>1. q.op = "cur" => need /\ At(s) + q.by >= 0
        BY DEF NeedsCursor, Archival
      <4>2. need => At(t) = At(s)
        BY <2>1, <2>6 DEF At
      <4> QED
        BY <4>1, <4>2
    <3>4. (q.op = "set" => q.by >= 0) /\ (q.op = "end" => size[t.path] + q.by >= 0)
      BY <2>5 DEF Archival
    <3> QED
      BY <3>1, <3>2, <3>3, <3>4 DEF Archival, Asks
  <2>8. Well(Do(t, q, size[t.path])) /\ Do(t, q, size[t.path]).why # "device"
    BY <1>1, <2>5, <2>6, <2>7, DoneWell
  <2>9. r.slot = t
    BY <2>4 DEF t
  <2> QED
    BY <2>3, <2>5, <2>8, <2>9 DEF Well
<1> QED
  BY <1>4, <1>5 DEF Lanes

(* As long as no open has failed, the cursor of every archive's stream can *)
(* be placed again.                                                        *)
KInv ==
  failures = MaxFailures =>
    \A i \in Slots : slots[i].lane = "stream" /\ slots[i].path \in Archives => Placeable(slots[i])

(* A step that changes no stream's place, or publishes one with a place.   *)
LEMMA PlacesStay ==
  ASSUME IInv, KInv, failures' \in 0 .. failures,
         \A j \in Slots : slots'[j].lane = "stream" /\ slots'[j].path \in Archives =>
           \/ Placeable(slots'[j])
           \/ /\ slots[j].lane = "stream" /\ slots[j].path \in Archives
              /\ Placeable(slots[j]) => Placeable(slots'[j])
  PROVE  KInv'
<1>1. failures \in 0 .. MaxFailures /\ MaxFailures \in Nat
  BY CrtFileAssumption DEF IInv, TypeOK
<1>2. failures' = MaxFailures => failures = MaxFailures
  BY <1>1
<1> QED
  BY <1>2 DEF KInv

(* What a call answers.                                                    *)
LEMMA Answers ==
  ASSUME NEW h, NEW q \in Asks, NEW i, NEW c, NEW k, NEW f, NEW left,
         Finish(h, q, i, c, k, f, left)
  PROVE  out'.h = h /\ out'.why = c.why
<1>1. CASE q.op = "fread"
  BY <1>1 DEF Finish, Answer
<1>2. CASE q.op = "set"
  BY <1>2 DEF Finish, Answer
<1>3. CASE q.op \in {"cur", "end"}
  BY <1>3 DEF Finish, Answer
<1> QED
  BY <1>1, <1>2, <1>3 DEF Asks

(* A read or a seek of an archive: it fails only when an open has failed.  *)
LEMMA CallSurvives ==
  ASSUME IInv, KInv, NEW h \in Tokens, NEW q \in Asks, Call(h, q),
         Archive(h) => Archival(slots[Lookup(h)], q)
  PROVE  /\ KInv' /\ out'.h = h
         /\ Archive(h) /\ out'.why = "device" => failures' < MaxFailures
<1> DEFINE i == Lookup(h)
           s == slots[i]
           len == size[s.path]
           pos == Position(s)
           need == NeedsCursor(q)
           first == Do(s, q, len)
<1>1. /\ i \in Slots /\ s.lane \in Lanes /\ SlotOK(s) /\ s.path \in Paths
      /\ len \in Nat /\ size \in [Paths -> Nat] /\ slots \in [Slots -> SlotType]
      /\ failures \in 0 .. MaxFailures /\ MaxFailures \in Nat
  BY FoundSlot, CrtFileAssumption DEF IInv, TypeOK
<1>2. SameSlot(s, first.slot)
  BY <1>1, DoneSlot
<1>3. \/ first.why # "device" /\ Finish(h, q, i, first, idle, files, failures)
      \/ \E r \in Recover(first.slot, pos, need, len) :
           Finish(h, q, i, IF r.ok THEN Do(r.slot, q, len) ELSE first,
                  r.idle, r.files, r.failures)
  BY DEF Call
<1>4. Archive(h) <=> s.path \in Archives
  BY DEF Archive
<1>5. failures = MaxFailures /\ Archive(h) /\ s.lane = "stream" => Placeable(s)
  BY <1>1, <1>4 DEF KInv
<1>6. CASE first.why # "device" /\ Finish(h, q, i, first, idle, files, failures)
  <2>1. slots' = [slots EXCEPT ![i] = first.slot] /\ failures' = failures
    BY <1>6 DEF Finish
  <2>2. out'.h = h /\ out'.why # "device"
    BY <1>6, Answers
  <2>3. failures = MaxFailures /\ Archive(h) /\ s.lane = "stream" => Placeable(first.slot)
    <3> SUFFICES ASSUME failures = MaxFailures, Archive(h), s.lane = "stream"
                 PROVE  Placeable(first.slot)
      OBVIOUS
    <3>1. Archival(s, q) /\ Placeable(s)
      BY <1>5
    <3>2. Well(first)
      <4> HIDE DEF i
      <4> QED
        BY <1>1, <3>1, DoneWell
    <3> QED
      BY <1>6, <3>2 DEF Well
  <2> HIDE DEF first
  <2>4. first.slot.lane = s.lane /\ first.slot.path = s.path
    BY <1>2 DEF SameSlot
  <2>5. KInv'
    BY <1>1, <1>4, <2>1, <2>3, <2>4 DEF KInv
  <2> QED
    BY <2>2, <2>5
<1>7. ASSUME NEW r \in Recover(first.slot, pos, need, len),
             Finish(h, q, i, IF r.ok THEN Do(r.slot, q, len) ELSE first,
                    r.idle, r.files, r.failures)
      PROVE  /\ KInv' /\ out'.h = h
             /\ Archive(h) /\ out'.why = "device" => failures' < MaxFailures
  <2> DEFINE c == IF r.ok THEN Do(r.slot, q, len) ELSE first
             u == first.slot
  <2>1. slots' = [slots EXCEPT ![i] = c.slot] /\ failures' = r.failures
    BY <1>7 DEF Finish
  <2>2. out'.h = h /\ out'.why = c.why
    BY <1>7, Answers
  <2>3. /\ SlotOK(u) /\ u.lane = s.lane /\ u.path = s.path /\ SameSlot(s, u)
    BY <1>2 DEF SameSlot
  <2>4. pos \in Int /\ (s.lane = "raw" => pos >= 0) /\ need \in BOOLEAN
    BY <1>1 DEF Position, SlotOK, SlotType, StreamType, NeedsCursor
  <2>5. r \in Recover(u, pos, need, len)
    OBVIOUS
  <2>6. SlotOK(r.slot) /\ r.slot.lane = s.lane /\ r.slot.path = s.path /\ r.failures \in 0 .. failures
    <3>1. u.lane \in Lanes /\ (u.lane = "raw" => pos >= 0) /\ size[u.path] = len
      BY <1>1, <2>3, <2>4
    <3>2. r \in Recover(u, pos, need, size[u.path])
      BY <2>5, <3>1
    <3> HIDE DEF u, pos, need, len, i
    <3> QED
      BY <2>3, <2>4, <3>1, <3>2, Recovered
  <2>7. CASE failures' # MaxFailures
    <3>1. failures' < MaxFailures
      BY <1>1, <2>1, <2>6, <2>7
    <3> QED
      BY <2>2, <2>7, <3>1 DEF KInv
  <2>8. failures' = MaxFailures => r.failures = failures /\ failures = MaxFailures
    BY <1>1, <2>1, <2>6
  <2>9. CASE r.failures = failures /\ failures = MaxFailures
    <3>1. ASSUME Archive(h)
          PROVE  /\ c.why # "device"
                 /\ s.lane = "stream" => Placeable(c.slot)
      <4>1. Archival(s, q) /\ (s.lane = "stream" => Placeable(s))
        BY <1>5, <2>9, <3>1
      <4>2. /\ r.ok /\ Do(r.slot, q, len).why # "device"
            /\ s.lane = "stream" => Placeable(Do(r.slot, q, len).slot)
        <5> HIDE DEF u, i
        <5> QED
          BY <1>1, <2>3, <2>5, <2>9, <4>1, RecoveredWell
      <4> QED
        BY <4>2
    <3>2. c.slot.lane = s.lane /\ c.slot.path = s.path
      <4>1. r.slot.lane \in Lanes /\ size[r.slot.path] = len
        BY <1>1, <2>6
      <4>2. SameSlot(r.slot, Do(r.slot, q, size[r.slot.path]).slot)
        BY <1>1, <2>6, <4>1, DoneSlot
      <4> QED
        BY <2>3, <2>6, <4>1, <4>2 DEF SameSlot
    <3> HIDE DEF c
    <3>3. KInv'
      BY <1>1, <1>4, <2>1, <2>9, <3>1, <3>2 DEF KInv
    <3> QED
      BY <2>2, <3>1, <3>3
  <2> QED
    BY <2>7, <2>8, <2>9
<1> QED
  BY <1>3, <1>6, <1>7

(* What a step answers when no open has failed.                            *)
Survives ==
  /\ out'.op \in {"fread", "set", "cur", "end"} /\ out'.why = "device"
  /\ suspends' = suspends /\ slots[Lookup(out'.h)].path \in Archives
  => failures' < MaxFailures

(* The read and the seeks.                                                 *)
LEMMA AskSurvives ==
  ASSUME IInv, KInv, NEW h \in Tokens, NEW q \in Asks, Call(h, q),
         Archive(h) => Archival(slots[Lookup(h)], q)
  PROVE  KInv' /\ Survives
BY CallSurvives DEF Survives, Archive

(* A publication gives an archive's stream a place.                        *)
LEMMA PublishSurvives ==
  ASSUME IInv, KInv, Live # Slots, NEW p \in Paths, NEW ro, NEW lane \in Lanes, NEW token,
         NEW st \in StreamType, Publish(p, ro, lane, token, st), failures' \in 0 .. failures
  PROVE  KInv' /\ Survives
<1> DEFINE ss == IF ro THEN slots ELSE NoteWrite(slots)
           st2 == IF p \in Archives THEN [st EXCEPT !.known = TRUE] ELSE st
           t == [FreeSlot EXCEPT !.lane = lane, !.token = token, !.path = p, !.ro = ro, !.st = st2,
                                 !.seen = IF lane = "raw" THEN size[p] ELSE 0]
           i == FirstFree
<1>1. slots \in [Slots -> SlotType] /\ i \in Slots
  BY FreeFound DEF IInv, TypeOK
<1>2. slots' = [ss EXCEPT ![i] = t] /\ out'.op = "fopen"
  BY DEF Publish, Answer
<1>3. t.path = p /\ t.pend = FALSE /\ t.st = st2
  BY DEF FreeSlot
<1>4. p \in Archives => st2.known
  BY DEF StreamType
<1> HIDE DEF t, st2, i
<1>5. ASSUME NEW j \in Slots, slots'[j].path \in Archives, slots'[j].lane = "stream"
      PROVE  \/ Placeable(slots'[j])
             \/ /\ slots[j].lane = "stream" /\ slots[j].path \in Archives
                /\ Placeable(slots[j]) => Placeable(slots'[j])
  <2>1. CASE j = i
    <3>1. slots'[j] = t
      BY <1>1, <1>2, <2>1 DEF NoteWrite
    <3> QED
      BY <1>3, <1>4, <1>5, <3>1 DEF Placeable
  <2>2. CASE j # i
    <3> DEFINE s == slots[j]
    <3>1. s \in SlotType /\ (slots'[j] = s \/ slots'[j] = [s EXCEPT !.fresh = FALSE])
      BY <1>1, <1>2, <2>2 DEF NoteWrite
    <3> HIDE DEF s
    <3>2. /\ slots'[j].lane = s.lane /\ slots'[j].path = s.path /\ slots'[j].pend = s.pend
          /\ slots'[j].valid = s.valid /\ slots'[j].st = s.st
      BY <3>1 DEF SlotType
    <3> QED
      BY <1>5, <3>2 DEF s, Placeable
  <2> QED
    BY <2>1, <2>2
<1>6. KInv'
  BY <1>5, PlacesStay
<1> QED
  BY <1>2, <1>6 DEF Survives

SamePlace(s, t) ==
  \/ t.lane = "free" \/ t.path \notin Archives
  \/ /\ t.lane = s.lane /\ t.path = s.path /\ t.pend = s.pend /\ t.valid = s.valid
     /\ s.st.known => t.st.known

(* A step that only notes a write, ends a stream, or leaves each slot's    *)
(* place as it is.                                                         *)
LEMMA OthersSurvive ==
  ASSUME IInv, KInv, failures' \in 0 .. failures,
         \A j \in Slots : SamePlace(slots[j], slots'[j]),
         \/ out'.op \in {"fopen", "ftell", "fflush", "fwrite", "fclose"} \/ suspends' # suspends
  PROVE  KInv' /\ Survives
<1>1. ASSUME NEW j \in Slots, slots'[j].path \in Archives, slots'[j].lane = "stream"
      PROVE  /\ slots[j].lane = "stream" /\ slots[j].path \in Archives
             /\ Placeable(slots[j]) => Placeable(slots'[j])
  BY <1>1 DEF SamePlace, Placeable
<1>2. KInv'
  BY <1>1, PlacesStay
<1> QED
  BY <1>2 DEF Survives

(* Noting a write leaves every place.                                      *)
LEMMA NotedPlace ==
  ASSUME NEW s, NEW t \in SlotType, SamePlace(s, t)
  PROVE  SamePlace(s, [t EXCEPT !.fresh = FALSE])
<1>1. LET u == [t EXCEPT !.fresh = FALSE] IN
        /\ u.lane = t.lane /\ u.path = t.path /\ u.pend = t.pend /\ u.valid = t.valid
        /\ u.st = t.st
  BY DEF SlotType
<1> QED
  BY <1>1 DEF SamePlace

(* fopen.                                                                  *)
LEMMA FopenSurvives ==
  ASSUME IInv, KInv, NEW p \in Paths, NEW ro \in BOOLEAN, Fopen(p, ro)
  PROVE  KInv' /\ Survives
<1>1. /\ Live # Slots /\ failures \in Nat /\ slots \in [Slots -> SlotType]
      /\ idle \in {None} \cup IdleType /\ size[p] \in Nat
  BY CrtFileAssumption DEF Fopen, IInv, TypeOK
<1>2. failures' \in 0 .. failures
  BY <1>1 DEF Fopen, FopenIdle, FopenNative, FopenRaw, FopenFails, NoRoom, OpenFails
<1>3. CASE FopenIdle(p, ro)
  <2> DEFINE st == NativeSeek(idle.st, 0, size[p]).st
  <2>1. idle \in IdleType
    BY <1>1, <1>3 DEF FopenIdle, Rewound
  <2>2. st \in StreamType
    BY <1>1, <2>1, SeekType DEF SameStream, IdleType
  <2>3. Publish(p, ro, "stream", st.addr, st)
    BY <1>3 DEF FopenIdle
  <2> HIDE DEF st
  <2> QED
    BY <1>1, <1>2, <2>2, <2>3, PublishSurvives DEF Lanes
<1>4. CASE FopenNative(p, ro)
  <2>1. PICK a \in FreeNames(Kept) : Publish(p, ro, "stream", a, NewStream(a))
    BY <1>4 DEF FopenNative
  <2>2. NewStream(a) \in StreamType
    BY FreshName, NewStreamType
  <2> QED
    BY <1>1, <1>2, <2>1, <2>2, PublishSurvives DEF Lanes
<1>5. CASE FopenRaw(p, ro)
  <2>1. Publish(p, ro, "raw", -FirstFree, NoStream) /\ NoStream \in StreamType
    BY <1>5 DEF FopenRaw, NoStream, StreamType
  <2> QED
    BY <1>1, <1>2, <2>1, PublishSurvives DEF Lanes
<1>6. CASE FopenFails(p, ro)
  <2>1. out'.op = "fopen" /\ slots' = IF ro THEN slots ELSE NoteWrite(slots)
    BY <1>6 DEF FopenFails, Answer
  <2>2. ASSUME NEW j \in Slots
        PROVE  SamePlace(slots[j], slots'[j])
    <3> DEFINE s == slots[j]
    <3>1. s \in SlotType /\ (slots'[j] = s \/ slots'[j] = [s EXCEPT !.fresh = FALSE])
      BY <1>1, <2>1 DEF NoteWrite
    <3> HIDE DEF s
    <3>2. SamePlace(s, s)
      BY DEF SamePlace
    <3> QED
      BY <3>1, <3>2, NotedPlace DEF s
  <2> QED
    BY <1>2, <2>1, <2>2, OthersSurvive
<1> QED
  BY <1>3, <1>4, <1>5, <1>6 DEF Fopen

(* The calls of a writer, fclose and ftell, and the flush of a reader,     *)
(* which no archive is asked for.                                          *)
LEMMA FwriteSurvives ==
  ASSUME IInv, KInv, NEW h \in Tokens, NEW full \in BOOLEAN, Fwrite(h, full)
  PROVE  KInv' /\ Survives
<1> DEFINE i == Lookup(h)
           n == slots[i].st.wbuf + 1
           s == [slots[i] EXCEPT !.st.wbuf = n]
           t == IF full THEN [s EXCEPT !.st.wbuf = 0] ELSE s
<1>1. /\ failures \in Nat /\ slots \in [Slots -> SlotType] /\ i \in Slots
      /\ SlotOK(slots[i]) /\ slots[i].st.wbuf \in Nat
  BY FoundSlot, CrtFileAssumption DEF IInv, TypeOK, SlotOK, SlotType, StreamType
<1>2. out'.op = "fwrite" /\ slots' = NoteWrite([slots EXCEPT ![i] = t]) /\ failures' = failures
  BY DEF Fwrite, Answer
<1>3. SlotOK(s) /\ n \in Nat
  <2>1. n \in Nat
    BY <1>1
  <2> HIDE DEF n, i
  <2> QED
    BY <1>1, <2>1, BufferedSlot DEF SameSlot
<1>4. t \in SlotType /\ SamePlace(slots[i], t)
  <2>1. SlotOK(t)
    <3> HIDE DEF s
    <3> QED
      BY <1>3, BufferedSlot DEF SameSlot
  <2>2. s \in SlotType /\ SamePlace(slots[i], s)
    BY <1>1, <1>3 DEF SlotType, StreamType, SlotOK, SamePlace
  <2> HIDE DEF s, i
  <2>3. SamePlace(slots[i], [s EXCEPT !.st.wbuf = 0])
    BY <2>2 DEF SlotType, StreamType, SamePlace
  <2> QED
    BY <2>1, <2>2, <2>3 DEF SlotOK
<1> HIDE DEF t, i
<1>5. ASSUME NEW j \in Slots
      PROVE  SamePlace(slots[j], slots'[j])
  <2> DEFINE u == IF j = i THEN t ELSE slots[j]
  <2>1. u \in SlotType /\ SamePlace(slots[j], u) /\ slots'[j] = [u EXCEPT !.fresh = FALSE]
    BY <1>1, <1>2, <1>4 DEF NoteWrite, SamePlace
  <2> HIDE DEF u
  <2> QED
    BY <2>1, NotedPlace
<1>6. failures' \in 0 .. failures
  BY <1>1, <1>2
<1> QED
  BY <1>2, <1>5, <1>6, OthersSurvive

(* The flush of a writer.                                                  *)
LEMMA FflushWriterSurvives ==
  ASSUME IInv, KInv, NEW h \in Tokens, FflushWriter(h)
  PROVE  KInv' /\ Survives
<1> DEFINE i == Lookup(h)
<1>1. failures \in Nat /\ slots \in [Slots -> SlotType] /\ i \in Slots
  BY FoundSlot, CrtFileAssumption DEF IInv, TypeOK
<1>2. /\ out'.op = "fflush" /\ slots' = [NoteWrite(slots) EXCEPT ![i].st.wbuf = 0]
      /\ failures' = failures
  BY DEF FflushWriter, Answer
<1> HIDE DEF i
<1>3. ASSUME NEW j \in Slots
      PROVE  SamePlace(slots[j], slots'[j])
  <2> DEFINE s == slots[j]
             u == [s EXCEPT !.fresh = FALSE]
  <2>1. s \in SlotType /\ (slots'[j] = u \/ slots'[j] = [u EXCEPT !.st.wbuf = 0])
    BY <1>1, <1>2 DEF NoteWrite
  <2> HIDE DEF s
  <2>2. u \in SlotType /\ SamePlace(s, u)
    BY <2>1 DEF SamePlace, SlotType
  <2> HIDE DEF u
  <2>3. SamePlace(s, [u EXCEPT !.st.wbuf = 0])
    BY <2>2 DEF SamePlace, SlotType, StreamType
  <2> QED
    BY <2>1, <2>2, <2>3 DEF s
<1> QED
  BY <1>1, <1>2, <1>3, OthersSurvive

(* The flush of a reader, which is not an archive's.                       *)
LEMMA FflushReaderSurvives ==
  ASSUME IInv, KInv, NEW h \in Tokens, FflushReader(h)
  PROVE  KInv' /\ Survives
<1> DEFINE i == Lookup(h)
           s == slots[i]
           u == Apply(s, size[s.path])
           t == [u EXCEPT !.st = NativeFlush(u.st).st]
<1>1. /\ failures \in Nat /\ slots \in [Slots -> SlotType] /\ i \in Slots /\ SlotOK(s)
      /\ size[s.path] \in Nat /\ s.path \notin Archives
  BY FoundSlot, CrtFileAssumption DEF IInv, TypeOK, FflushReader, Archive
<1>2. out'.op = "fflush" /\ slots' = [slots EXCEPT ![i] = t] /\ failures' = failures
  BY DEF FflushReader, Answer
<1>3. t.path = s.path
  <2>1. SlotOK(u) /\ u.path = s.path
    BY <1>1, AppliedSlot DEF SameSlot
  <2> HIDE DEF u
  <2> QED
    BY <2>1 DEF SlotOK, SlotType
<1> HIDE DEF t
<1>4. \A j \in Slots : SamePlace(slots[j], slots'[j])
  BY <1>1, <1>2, <1>3 DEF SamePlace
<1> QED
  BY <1>1, <1>2, <1>4, OthersSurvive

(* ftell.                                                                  *)
LEMMA FtellSurvives ==
  ASSUME IInv, KInv, NEW h \in Tokens, Ftell(h)
  PROVE  KInv' /\ Survives
<1> DEFINE i == Lookup(h)
           s == slots[i]
           st == NativeTell(s.st).st
<1>1. /\ failures \in Nat /\ slots \in [Slots -> SlotType] /\ i \in Slots /\ s \in SlotType
      /\ s.st \in StreamType
  <2>1. failures \in Nat /\ slots \in [Slots -> SlotType] /\ i \in Slots
    BY FoundSlot, CrtFileAssumption DEF IInv, TypeOK
  <2>2. s \in SlotType
    BY <2>1
  <2> QED
    BY <2>1, <2>2 DEF SlotType
<1>2. /\ out'.op = "ftell" /\ failures' = failures
      /\ slots' = slots \/ slots' = [slots EXCEPT ![i].st = st]
  BY DEF Ftell, Answer
<1>3. s.st.known => st.known
  BY <1>1 DEF NativeTell, Result, Fails
<1> HIDE DEF st
<1>4. ASSUME NEW j \in Slots
      PROVE  SamePlace(slots[j], slots'[j])
  <2>1. CASE slots'[j] = slots[j]
    BY <2>1 DEF SamePlace
  <2>2. CASE j = i /\ slots' = [slots EXCEPT ![i].st = st]
    <3>1. slots'[j] = [s EXCEPT !.st = st]
      BY <1>1, <2>2
    <3> QED
      BY <1>1, <1>3, <2>2, <3>1 DEF SamePlace, SlotType
  <2> QED
    BY <1>1, <1>2, <2>1, <2>2
<1> QED
  BY <1>1, <1>2, <1>4, OthersSurvive

(* fclose.                                                                 *)
LEMMA FcloseSurvives ==
  ASSUME IInv, KInv, NEW h \in Tokens, Fclose(h)
  PROVE  KInv' /\ Survives
<1> DEFINE i == Lookup(h)
           ss == [slots EXCEPT ![i] = FreeSlot]
<1>1. failures \in Nat /\ slots \in [Slots -> SlotType] /\ i \in Slots
  BY FoundSlot, CrtFileAssumption DEF IInv, TypeOK
<1>2. /\ out'.op = "fclose" /\ failures' = failures /\ (slots' = ss \/ slots' = NoteWrite(ss))
  BY DEF Fclose, Answer
<1> HIDE DEF i
<1>3. ASSUME NEW j \in Slots
      PROVE  SamePlace(slots[j], slots'[j])
  <2> DEFINE t == ss[j]
  <2>1. t \in SlotType /\ SamePlace(slots[j], t)
    BY <1>1, FreeSlotOK DEF SamePlace
  <2>2. slots'[j] = t \/ slots'[j] = [t EXCEPT !.fresh = FALSE]
    BY <1>1, <1>2 DEF NoteWrite
  <2> HIDE DEF t
  <2> QED
    BY <2>1, <2>2, NotedPlace
<1> QED
  BY <1>1, <1>2, <1>3, OthersSurvive

(* A suspend itself.                                                       *)
LEMMA SuspendSurvives ==
  ASSUME IInv, KInv, Suspend
  PROVE  KInv' /\ Survives
<1>1. /\ failures \in Nat /\ suspends \in Nat /\ slots \in [Slots -> SlotType]
      /\ failures' = failures /\ suspends' = suspends - 1
  BY CrtFileAssumption DEF IInv, TypeOK, Suspend
<1>2. ASSUME NEW j \in Slots
      PROVE  SamePlace(slots[j], slots'[j])
  <2> DEFINE s == slots[j]
  <2>1. s \in SlotType /\ (slots'[j] = s \/ slots'[j] = [s EXCEPT !.st.dead = TRUE])
    BY <1>1 DEF Suspend
  <2> HIDE DEF s
  <2> QED
    BY <2>1 DEF s, SamePlace, SlotType, StreamType
<1> QED
  BY <1>1, <1>2, OthersSurvive

-----------------------------------------------------------------------------
(* Every step keeps the places and survives.                               *)
LEMMA NextSurvives == IInv /\ KInv /\ [Next]_vars => KInv' /\ [Survives]_vars
<1> SUFFICES ASSUME IInv, KInv, [Next]_vars PROVE KInv' /\ [Survives]_vars
  OBVIOUS
<1>1. ASSUME NEW h \in Tokens, NEW n \in Requests, Fread(h, n)
      PROVE  KInv' /\ Survives
  <2> DEFINE q == [op |-> "fread", by |-> n]
  <2>1. q \in Asks /\ Call(h, q) /\ (Archive(h) => Archival(slots[Lookup(h)], q))
    BY <1>1, CrtFileAssumption DEF Asks, Fread, Archival
  <2> HIDE DEF q
  <2> QED
    BY <2>1, AskSurvives
<1>2. ASSUME NEW h \in Tokens, NEW x \in SetTo, FseekSet(h, x)
      PROVE  KInv' /\ Survives
  <2> DEFINE q == [op |-> "set", by |-> x]
  <2>1. x \in Int /\ x >= 0
    BY CrtFileAssumption
  <2>2. q \in Asks /\ Call(h, q) /\ (Archive(h) => Archival(slots[Lookup(h)], q))
    BY <1>2, <2>1 DEF Asks, FseekSet, Archival
  <2> HIDE DEF q
  <2> QED
    BY <2>2, AskSurvives
<1>3. ASSUME NEW h \in Tokens, NEW off \in CurBy, FseekCur(h, off)
      PROVE  KInv' /\ Survives
  <2> DEFINE q == [op |-> "cur", by |-> off]
  <2>1. q \in Asks /\ Call(h, q) /\ (Archive(h) => Archival(slots[Lookup(h)], q))
    BY <1>3, CrtFileAssumption DEF Asks, FseekCur, Archival
  <2> HIDE DEF q
  <2> QED
    BY <2>1, AskSurvives
<1>4. ASSUME NEW h \in Tokens, NEW off \in EndBy, FseekEnd(h, off)
      PROVE  KInv' /\ Survives
  <2> DEFINE q == [op |-> "end", by |-> off]
  <2>1. q \in Asks /\ Call(h, q) /\ (Archive(h) => Archival(slots[Lookup(h)], q))
    BY <1>4, CrtFileAssumption DEF Asks, FseekEnd, Archival
  <2> HIDE DEF q
  <2> QED
    BY <2>1, AskSurvives
<1>5. ASSUME UNCHANGED vars
      PROVE  KInv'
  BY <1>5 DEF vars, KInv
<1> QED
  BY <1>1, <1>2, <1>3, <1>4, <1>5, FopenSurvives, FwriteSurvives, FtellSurvives,
     FflushReaderSurvives, FflushWriterSurvives, FcloseSurvives, SuspendSurvives DEF Next

(* Where a read or a seek of an archive fails, some open has failed: the   *)
(* descriptors a suspend drops are opened again, at the cursor, behind     *)
(* the guest's back (STATUS.md:198).                                       *)
THEOREM ArchivesSurvive == Spec => SurvivesSuspend
<1>1. Init => KInv
  BY FreeSlotOK DEF Init, KInv
<1>2. [][Survives]_vars => SurvivesSuspend
  BY PTL DEF Survives, SurvivesSuspend
<1> QED
  BY <1>1, <1>2, Invariant, NextSurvives, PTL DEF Spec
=============================================================================
