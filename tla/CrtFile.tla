------------------------------- MODULE CrtFile -------------------------------
(***************************************************************************)
(* The guest's FILE functions (host_vita_crt.c): a table of tokens over    *)
(* newlib streams, one idle archive stream kept for the next fopen         *)
(* (host_vita_archive_cache.c), a descriptor of the kernel's own when      *)
(* newlib has no memory for an archive (the raw lane), a seek to the end   *)
(* that is recorded instead of performed (the seek shadow), and the        *)
(* recovery of a reader whose descriptor a suspend has invalidated.        *)
(*                                                                         *)
(* Every call runs under s_file_lock, so it is one step.  A file is its    *)
(* size: a byte is named by its offset.  Writers append.  newlib is        *)
(* external and modelled as the code relies on it: a buffer [lo, hi) of    *)
(* the file, the cursor in or at the end of it, and whether _offset is     *)
(* exact (__SOFF), which tells the recovery where the cursor is.           *)
(***************************************************************************)
EXTENDS Integers, FiniteSets

CONSTANTS
  Slots,        \* indices of s_file_tokens
  Paths,        \* files
  Archives,     \* those among them that are packed archives
  None,         \* no path, no stream, no token
  FirstSize,    \* sizes at the start
  MaxSize,      \* bound on what writers append
  BufSize,      \* size of a reader's buffer
  Requests,     \* lengths of reads
  SetTo, CurBy, EndBy,  \* offsets of the seeks
  Names,        \* addresses of newlib's FILE objects
  FopenMax,     \* streams newlib can open, the standard ones not counted
  NamesReused,  \* may a new stream lie where one with a live token lay?
  MaxSuspends, MaxFailures  \* bounds on suspends and failed opens

(* A stream, and what the idle slot keeps of one                           *)
StreamType ==
  [addr : Names \cup {None}, lo : Nat, hi : Nat, cur : Nat, known : BOOLEAN,
   eof : BOOLEAN, dead : BOOLEAN, wbuf : Nat]
IdleType == [path : Paths, st : StreamType]

ASSUME CrtFileAssumption ==
  /\ Slots \subseteq Nat \ {0} /\ IsFiniteSet(Slots)
  /\ Cardinality(Slots) < FopenMax    \* the assertion at host_vita_crt.c:1169
  /\ Archives \subseteq Paths /\ None \notin Paths \cup Names \cup IdleType
  /\ Names \subseteq Nat \ {0}
  /\ IsFiniteSet(Names) =>           \* the heap has room for one stream more
       Cardinality(Names) > (IF NamesReused THEN 1 ELSE 2) * Cardinality(Slots)
  /\ FirstSize \in [Paths -> 0 .. MaxSize] /\ MaxSize \in Nat
  /\ BufSize \in Nat \ {0} /\ FopenMax \in Nat /\ NamesReused \in BOOLEAN
  /\ Requests \subseteq Nat \ {0} /\ SetTo \subseteq 0 .. MaxSize
  /\ CurBy \subseteq Int /\ EndBy \subseteq Int
  /\ MaxSuspends \in Nat /\ MaxFailures \in Nat

VARIABLES
  size,      \* the files on the card
  slots,     \* s_file_tokens
  idle,      \* s_idle: the retained archive stream, or None
  files,     \* newlib's open FILE objects
  suspends,  \* suspends left
  failures,  \* failed opens left
  out        \* what the last call answered
vars == <<size, slots, idle, files, suspends, failures, out>>

Least(a, b) == IF a < b THEN a ELSE b
NoStream == [addr |-> None, lo |-> 0, hi |-> 0, cur |-> 0, known |-> FALSE,
             eof |-> FALSE, dead |-> FALSE, wbuf |-> 0]
FreeSlot == [lane |-> "free", token |-> None, path |-> None, ro |-> FALSE,
             st |-> NoStream, pend |-> FALSE, off |-> 0, seen |-> 0,
             valid |-> FALSE, fresh |-> FALSE]

(* The guest's cursor                                                      *)
At(s) == IF s.pend THEN s.seen + s.off ELSE s.st.cur
Live == {i \in Slots : slots[i].lane # "free"}
Tokens == {slots[i].token : i \in Live}
(* The first live slot with the token, as the search finds it              *)
Lookup(h) ==
  CHOOSE i \in Live : slots[i].token = h /\ \A j \in Live : slots[j].token = h => i <= j

Init ==
  /\ size = FirstSize /\ slots = [i \in Slots |-> FreeSlot]
  /\ idle = None /\ files = {} /\ suspends = MaxSuspends /\ failures = MaxFailures
  /\ out = [op |-> "none", h |-> 0, from |-> 0, n |-> 0, why |-> "ok"]

Answer(op, h, from, n, why) ==
  out' = [op |-> op, h |-> h, from |-> from, n |-> n, why |-> why]

-----------------------------------------------------------------------------
(* newlib: a call returns the stream, how many bytes, and why it failed    *)
Result(st, n, why) == [st |-> st, n |-> n, why |-> why]
Emptied(st) == [st EXCEPT !.lo = st.cur, !.hi = st.cur]
Unsure(st)  == [st EXCEPT !.known = FALSE]
Fails(st)   == Result(Unsure(st), 0, "device")

(* The stream at x: the block x lies in is read unless x begins it         *)
Placed(st, x, len) ==
  LET lo == x - (x % BufSize)
      hi == Least(lo + BufSize, len)
  IN [st EXCEPT !.lo = IF x \in lo + 1 .. hi THEN lo ELSE x,
                !.hi = IF x \in lo + 1 .. hi THEN hi ELSE x,
                !.cur = x, !.known = TRUE, !.eof = FALSE]

NativeSeek(st, x, len) ==
  IF x \in st.lo .. st.hi - 1 /\ (st.known \/ ~st.dead)
  THEN Result([st EXCEPT !.cur = x, !.eof = FALSE, !.known = TRUE], 0, "ok")
  ELSE IF st.dead THEN Fails(st)
  ELSE IF x < 0 THEN Result(Unsure(Emptied(st)), 0, "range")
  ELSE Result(Placed(st, x, len), 0, "ok")
NativeSeekEnd(st, off, len) ==
  IF st.dead THEN Fails(st) ELSE NativeSeek(st, len + off, len)
NativeSeekCur(st, off, len) ==
  IF st.dead THEN Fails(st) ELSE NativeSeek(Emptied(st), st.cur + off, len)

(* Buffered bytes are served first.  A dead descriptor is noticed by the   *)
(* next refill; a refill that finds the end is not tried again.            *)
NativeRead(st, n, len) ==
  LET held == st.hi - st.cur
      end  == IF st.cur + n <= len THEN st.cur + n ELSE IF st.cur > len THEN st.cur ELSE len
      lo   == st.hi + ((end - 1 - st.hi) \div BufSize) * BufSize
  IN IF n <= held THEN Result([st EXCEPT !.cur = @ + n], n, "ok")
     ELSE IF st.eof THEN Result(st, 0, "ok")
     ELSE IF st.dead THEN Result(Unsure(Emptied([st EXCEPT !.cur = st.hi])), held, "device")
     ELSE IF end - st.cur < n
          THEN Result(Emptied([st EXCEPT !.cur = end, !.eof = TRUE]), end - st.cur, "ok")
     ELSE Result([st EXCEPT !.cur = end, !.lo = lo, !.hi = Least(lo + BufSize, len)], n, "ok")

NativeTell(st) ==
  IF st.known THEN Result(st, st.cur, "ok")
  ELSE IF st.dead THEN Fails(st)
  ELSE Result([st EXCEPT !.known = TRUE], st.cur, "ok")
(* The flush of a reader gives back what was read ahead                    *)
NativeFlush(st) ==
  IF st.cur = st.hi THEN Result(st, 0, "ok")
  ELSE IF st.dead THEN Fails(st)
  ELSE Result([Emptied(st) EXCEPT !.known = TRUE], 0, "ok")

(* Where newlib puts a new FILE: the first that is free                    *)
Unused(open) == {a \in Names \ open : NamesReused \/ a \notin Tokens}
FreeNames(open) ==
  IF Cardinality(open) >= FopenMax THEN {}
  ELSE {a \in Unused(open) : \A b \in Unused(open) : a <= b}
NewStream(a) == [NoStream EXCEPT !.addr = a]

-----------------------------------------------------------------------------
(* The seek shadow and the raw lane, on one slot s of a file of len bytes  *)
WithStream(s, r) == [slot |-> [s EXCEPT !.st = r.st], n |-> r.n, why |-> r.why]
(* A successful seek of the stream ends the pending one; one that fails    *)
(* leaves it                                                               *)
Settled(s, r) ==
  [slot |-> [s EXCEPT !.st = r.st, !.pend = s.pend /\ r.why # "ok"], n |-> 0, why |-> r.why]

(* The pending seek is performed; that it failed is only counted           *)
Apply(s, len) ==
  IF ~s.pend THEN s
  ELSE [s EXCEPT !.pend = FALSE, !.st = NativeSeekEnd(s.st, s.off, len).st]

(* The size is asked again after any write-side call                       *)
SizeKnown(s) == s.valid /\ s.fresh
ShadowSeekEnd(s, off, len) ==
  LET t == IF SizeKnown(s) THEN s
           ELSE [s EXCEPT !.seen = len, !.valid = TRUE, !.fresh = TRUE]
  IN IF ~SizeKnown(s) /\ s.st.dead
     THEN Settled([s EXCEPT !.valid = FALSE], NativeSeekEnd(s.st, off, len))
     ELSE IF t.seen + off < 0 THEN Settled(t, NativeSeekEnd(t.st, off, len))
     ELSE [slot |-> [t EXCEPT !.pend = TRUE, !.off = off], n |-> 0, why |-> "ok"]
ShadowSeekCur(s, off, len) ==
  LET x == s.seen + s.off + off
  IN IF ~s.pend THEN Settled(s, NativeSeekCur(s.st, off, len))
     ELSE IF x < 0 THEN [slot |-> s, n |-> 0, why |-> "range"]
     ELSE Settled(s, NativeSeek(s.st, x, len))

RawSeek(s, x) ==
  IF x < 0 THEN [slot |-> s, n |-> 0, why |-> "range"]
  ELSE [slot |-> [s EXCEPT !.st.cur = x, !.st.eof = FALSE], n |-> 0, why |-> "ok"]
RawRead(s, n, len) ==
  LET left == IF s.st.cur < len THEN len - s.st.cur ELSE 0
      got  == Least(n, left)
  IN IF s.st.eof THEN [slot |-> s, n |-> 0, why |-> "ok"]
     ELSE IF s.st.dead THEN [slot |-> s, n |-> 0, why |-> "device"]
     ELSE [slot |-> [s EXCEPT !.st.cur = @ + got, !.st.eof = got < n], n |-> got, why |-> "ok"]

(* The lane dispatcher: q asks for a read of, or a seek by or to, q.by     *)
Do(s, q, len) ==
  CASE q.op = "fread" /\ s.lane = "raw"    -> RawRead(s, q.by, len)
    [] q.op = "fread" /\ s.lane = "stream" ->
         WithStream(Apply(s, len), NativeRead(Apply(s, len).st, q.by, len))
    [] q.op = "set" /\ s.lane = "raw"      -> RawSeek(s, q.by)
    [] q.op = "cur" /\ s.lane = "raw"      -> RawSeek(s, s.st.cur + q.by)
    [] q.op = "end" /\ s.lane = "raw"      -> RawSeek(s, s.seen + q.by)
    [] q.op = "set" /\ s.lane = "stream"   -> Settled(s, NativeSeek(s.st, q.by, len))
    [] q.op = "cur" /\ s.lane = "stream"   -> ShadowSeekCur(s, q.by, len)
    [] q.op = "end" /\ s.lane = "stream"   -> ShadowSeekEnd(s, q.by, len)

-----------------------------------------------------------------------------
(* Recovery: the cursor is taken before the call that fails                *)
Position(s) ==
  CASE s.lane = "raw"     -> s.st.cur
    [] s.pend /\ s.valid  -> s.seen + s.off
    [] OTHER              -> IF s.st.known THEN s.st.cur ELSE -1

(* The idle stream goes before any stream is opened                        *)
Kept == IF idle = None THEN files ELSE files \ {idle.st.addr}

(* What a recovery may leave: the slot as it was, or with a fresh handle,  *)
(* at pos when the call depends on it                                      *)
Unrecovered(s) ==
  [ok |-> FALSE, slot |-> s, idle |-> idle, files |-> files, failures |-> failures]
Fresh(s, a, pos, need, len) ==
  [s EXCEPT !.st = IF need THEN Placed(NewStream(a), pos, len) ELSE NewStream(a),
            !.pend = s.pend /\ ~need]
RecoverRaw(s, pos) ==
  {[Unrecovered(s) EXCEPT !.ok = TRUE, !.slot.st.dead = FALSE, !.slot.st.cur = pos]}
    \cup (IF failures > 0 THEN {[Unrecovered(s) EXCEPT !.failures = failures - 1]} ELSE {})
RecoverStream_KeepsTheDead(s, pos, need, len) ==
  IF need /\ pos < 0 THEN {Unrecovered(s)}
  ELSE {[Unrecovered(s) EXCEPT !.ok = TRUE, !.idle = None, !.files = Kept \cup {a},
           !.slot = Fresh(s, a, pos, need, len)] : a \in FreeNames(Kept)}
RecoverStream(s, pos, need, len) ==
  LET evicted == [Unrecovered(s) EXCEPT !.idle = None, !.files = Kept]
  IN IF need /\ pos < 0 THEN {Unrecovered(s)}
     ELSE {[evicted EXCEPT !.ok = TRUE, !.slot = Fresh(s, a, pos, need, len),
                           !.files = (Kept \cup {a}) \ {s.st.addr}] : a \in FreeNames(Kept)}
       \cup (IF FreeNames(Kept) = {} THEN {evicted} ELSE {})
       \cup (IF failures > 0 THEN {[evicted EXCEPT !.failures = failures - 1]} ELSE {})
Recover(s, pos, need, len) ==
  IF s.lane = "raw" THEN RecoverRaw(s, pos) ELSE RecoverStream(s, pos, need, len)

(* fread and fseek on a reader: once more after a recovery.  Only a seek   *)
(* to or from the end redone on a fresh stream needs no cursor.            *)
NeedsCursor(q) == q.op \in {"fread", "cur"}
Finish(h, q, i, c, k, f, left) ==
  /\ slots' = [slots EXCEPT ![i] = c.slot]
  /\ idle' = k /\ files' = f /\ failures' = left
  /\ CASE q.op = "fread" -> Answer("fread", h, At(c.slot) - c.n, c.n, c.why)
       [] q.op = "set" /\ c.why = "ok" -> Answer("set", h, q.by, 0, "ok")
       [] q.op \in {"cur", "end"} /\ c.why = "ok" -> Answer(q.op, h, At(c.slot), q.by, "ok")
       [] OTHER -> Answer(q.op, h, 0, 0, c.why)
  /\ UNCHANGED <<size, suspends>>
Call(h, q) ==
  LET i     == Lookup(h)
      s     == slots[i]
      len   == size[s.path]
      first == Do(s, q, len)
  IN /\ s.ro
     /\ \/ first.why # "device" /\ Finish(h, q, i, first, idle, files, failures)
        \/ /\ first.why = "device"
           /\ \E r \in Recover(first.slot, Position(s), NeedsCursor(q), len) :
                Finish(h, q, i,
                       IF r.ok THEN Do(r.slot, q, len) ELSE first,
                       r.idle, r.files, r.failures)

(* The guest asks an archive for its size and goes back before it reads,   *)
(* and never seeks before its beginning.                                   *)
Archive(h) == slots[Lookup(h)].path \in Archives
Fread(h, n) ==
  /\ Archive(h) => ~slots[Lookup(h)].pend
  /\ Call(h, [op |-> "fread", by |-> n])
FseekSet(h, x) == Call(h, [op |-> "set", by |-> x])
FseekCur(h, off) ==
  /\ Archive(h) => At(slots[Lookup(h)]) + off >= 0
  /\ At(slots[Lookup(h)]) + off <= MaxSize
  /\ Call(h, [op |-> "cur", by |-> off])
FseekEnd(h, off) ==
  /\ Archive(h) => size[slots[Lookup(h)].path] + off >= 0
  /\ Call(h, [op |-> "end", by |-> off])

Ftell(h) ==
  LET i == Lookup(h)
      s == slots[i]
      r == NativeTell(s.st)
  IN /\ s.ro
     /\ IF s.lane = "raw" \/ s.pend
        THEN Answer("ftell", h, At(s), 0, "ok") /\ UNCHANGED slots
        ELSE /\ slots' = [slots EXCEPT ![i].st = r.st]
             /\ Answer("ftell", h, r.n, 0, r.why)
     /\ UNCHANGED <<size, idle, files, suspends, failures>>

-----------------------------------------------------------------------------
(* Any write-side call makes every cached size doubtful                    *)
NoteWrite_Skipped(ss) == ss
NoteWrite(ss) == [i \in Slots |-> [ss[i] EXCEPT !.fresh = FALSE]]

(* A stream is published in the first free slot.  Its token is the address *)
(* of the FILE, that of a raw descriptor the address of the slot.  ftell   *)
(* is asked of an archive at once.                                         *)
FirstFree == CHOOSE i \in Slots \ Live : \A j \in Slots \ Live : i <= j
Publish_WithoutTell(p, ro, lane, token, st) ==
  /\ slots' = [(IF ro THEN slots ELSE NoteWrite(slots)) EXCEPT ![FirstFree] =
       [FreeSlot EXCEPT !.lane = lane, !.token = token, !.path = p, !.ro = ro, !.st = st,
                        !.seen = IF lane = "raw" THEN size[p] ELSE 0]]
  /\ Answer("fopen", token, 0, 0, "ok")
Publish(p, ro, lane, token, st) ==
  LET ss == IF ro THEN slots ELSE NoteWrite(slots)
      s  == [FreeSlot EXCEPT !.lane = lane, !.token = token, !.path = p, !.ro = ro,
               !.st = IF p \in Archives THEN [st EXCEPT !.known = TRUE] ELSE st,
               !.seen = IF lane = "raw" THEN size[p] ELSE 0]
  IN slots' = [ss EXCEPT ![FirstFree] = s] /\ Answer("fopen", token, 0, 0, "ok")

(* The idle stream of the same archive serves when it can be rewound       *)
Rewound(p, ro) ==
  ro /\ idle # None /\ idle.path = p /\ NativeSeek(idle.st, 0, size[p]).why = "ok"
FopenIdle(p, ro) ==
  /\ Rewound(p, ro)
  /\ LET st == NativeSeek(idle.st, 0, size[p]).st IN Publish(p, ro, "stream", st.addr, st)
  /\ idle' = None /\ UNCHANGED <<files, failures>>
FopenNative(p, ro) ==
  /\ ~Rewound(p, ro)
  /\ \E a \in FreeNames(Kept) :
       Publish(p, ro, "stream", a, NewStream(a)) /\ files' = Kept \cup {a}
  /\ idle' = None /\ UNCHANGED failures
(* newlib has no room, or an open fails and counts                         *)
NoRoom == FreeNames(Kept) = {} /\ UNCHANGED failures
OpenFails == failures > 0 /\ failures' = failures - 1
FopenRaw(p, ro) ==
  /\ ~Rewound(p, ro) /\ ro /\ p \in Archives
  /\ NoRoom \/ OpenFails
  /\ Publish(p, ro, "raw", -FirstFree, NoStream)
  /\ idle' = None /\ files' = Kept
FopenFails(p, ro) ==
  /\ ~Rewound(p, ro)
  /\ (NoRoom /\ p \notin Archives) \/ OpenFails
  /\ slots' = IF ro THEN slots ELSE NoteWrite(slots)
  /\ idle' = None /\ files' = Kept /\ Answer("fopen", 0, 0, 0, "device")

(* The guest opens an archive to read it, and a file to append in one slot *)
Fopen(p, ro) ==
  /\ Live # Slots
  /\ ~ro => p \notin Archives /\ \A i \in Live : slots[i].path = p => slots[i].ro
  /\ FopenIdle(p, ro) \/ FopenNative(p, ro) \/ FopenRaw(p, ro) \/ FopenFails(p, ro)
  /\ UNCHANGED <<size, suspends>>

(* What a writer holds goes to the file, or nowhere                        *)
Written(s) == IF s.st.dead THEN size ELSE [size EXCEPT ![s.path] = @ + s.st.wbuf]
Fclose(h) ==
  LET i == Lookup(h)
      s == slots[i]
      parks == s.lane = "stream" /\ s.path \in Archives
      ss == [slots EXCEPT ![i] = FreeSlot]
  IN /\ slots' = IF s.ro THEN ss ELSE NoteWrite(ss)
     /\ idle'  = IF parks THEN [path |-> s.path, st |-> s.st] ELSE idle
     /\ files' = IF parks THEN Kept ELSE files \ {s.st.addr}
     /\ size'  = Written(s)
     /\ Answer("fclose", h, 0, 0, IF s.st.dead /\ ~parks THEN "device" ELSE "ok")
     /\ UNCHANGED <<suspends, failures>>

(* The flush of a reader performs its pending seek; of a writer, its write *)
FflushReader(h) ==
  LET i == Lookup(h)
      s == slots[i]
      r == NativeFlush(Apply(s, size[s.path]).st)
  IN /\ s.ro /\ ~Archive(h)
     /\ slots' = [slots EXCEPT ![i] = [Apply(s, size[s.path]) EXCEPT !.st = r.st]]
     /\ Answer("fflush", h, 0, 0, r.why)
     /\ UNCHANGED <<size, idle, files, suspends, failures>>
FflushWriter(h) ==
  LET i == Lookup(h) IN
    /\ ~slots[i].ro /\ size' = Written(slots[i])
    /\ slots' = [NoteWrite(slots) EXCEPT ![i].st.wbuf = 0]
    /\ Answer("fflush", h, 0, 0, IF slots[i].st.dead THEN "device" ELSE "ok")
    /\ UNCHANGED <<idle, files, suspends, failures>>
(* One byte more; it may fill the buffer, which is then written            *)
Fwrite(h, full) ==
  LET i == Lookup(h)
      s == [slots[i] EXCEPT !.st.wbuf = @ + 1]
  IN /\ ~s.ro /\ size[s.path] + s.st.wbuf <= MaxSize
     /\ size' = IF full THEN Written(s) ELSE size
     /\ slots' = NoteWrite([slots EXCEPT ![i] = IF full THEN [s EXCEPT !.st.wbuf = 0] ELSE s])
     /\ Answer("fwrite", h, 0, 0, IF full /\ s.st.dead THEN "device" ELSE "ok")
     /\ UNCHANGED <<idle, files, suspends, failures>>

(* The kernel drops every descriptor of the process                        *)
Suspend ==
  /\ suspends > 0 /\ suspends' = suspends - 1
  /\ slots' = [i \in Slots |-> IF i \in Live THEN [slots[i] EXCEPT !.st.dead = TRUE] ELSE slots[i]]
  /\ idle' = IF idle = None THEN None ELSE [idle EXCEPT !.st.dead = TRUE]
  /\ UNCHANGED <<size, files, failures, out>>

Next ==
  \/ \E p \in Paths, ro \in BOOLEAN : Fopen(p, ro)
  \/ \E h \in Tokens :
       \/ \E n \in Requests : Fread(h, n)
       \/ \E x \in SetTo : FseekSet(h, x)
       \/ \E off \in CurBy : FseekCur(h, off)
       \/ \E off \in EndBy : FseekEnd(h, off)
       \/ \E full \in BOOLEAN : Fwrite(h, full)
       \/ Ftell(h) \/ FflushReader(h) \/ FflushWriter(h) \/ Fclose(h)
  \/ Suspend

Spec == Init /\ [][Next]_vars

-----------------------------------------------------------------------------
(* Types.  Only a stream has an address; a pending seek is to an offset    *)
(* in the file, and a recorded size is not more than the file's.           *)
SlotType ==
  [lane : {"free", "stream", "raw"}, token : Int \cup {None}, path : Paths \cup {None},
   ro : BOOLEAN, st : StreamType, pend : BOOLEAN, off : Int, seen : Nat,
   valid : BOOLEAN, fresh : BOOLEAN]
SlotOK(s) ==
  /\ s \in SlotType
  /\ s.lane # "free" => s.path \in Paths /\ s.seen <= size[s.path]
  /\ IF s.lane = "stream" THEN s.st.addr \in Names ELSE s.st.addr = None
  /\ s.pend => s.seen + s.off >= 0
TypeOK ==
  /\ size \in [Paths -> Nat]
  /\ slots \in [Slots -> SlotType] /\ \A i \in Slots : SlotOK(slots[i])
  /\ idle \in {None} \cup IdleType
  /\ files \subseteq Names
  /\ suspends \in 0 .. MaxSuspends /\ failures \in 0 .. MaxFailures

-----------------------------------------------------------------------------
(* Every open FILE belongs to one token or to the idle slot, and there is  *)
(* always room for the stream a recovery opens beside the dead one: neither *)
(* a recovery, a cache hit nor a failed open leaks one or frees one that   *)
(* is still used (host_vita_crt.c:1163, 1301).                             *)
Streams == {i \in Slots : slots[i].lane = "stream"}
HandlesAreOwned ==
  /\ Cardinality(Kept) < FopenMax
  /\ files = {slots[i].st.addr : i \in Streams} \cup (IF idle = None THEN {} ELSE {idle.st.addr})
  /\ \A i, j \in Streams : slots[i].st.addr = slots[j].st.addr => i = j
  /\ idle # None => \A i \in Streams : slots[i].st.addr # idle.st.addr

(* A suspend alone never makes a read or a seek of an archive fail: where  *)
(* one fails, some open has failed too (STATUS.md:198).                    *)
SurvivesSuspend ==
  [][/\ out'.op \in {"fread", "set", "cur", "end"} /\ out'.why = "device"
     /\ suspends' = suspends /\ slots[Lookup(out'.h)].path \in Archives
     => failures' < MaxFailures]_vars

(* Two open files never share a token (host_vita_crt.c:1189: "the          *)
(* published token value is the slot address and does not change").        *)
TokensDiffer == \A i, j \in Live : slots[i].token = slots[j].token => i = j

(* Whatever the cache, the shadow and the recovery do underneath, a token  *)
(* is a plain file: reads are of the bytes at the cursor, a size is never  *)
(* stale, and what a suspend may cost is what PlainFile says               *)
(* (host_vita_crt.c:493).                                                  *)
Seen(s) ==
  [path |-> s.path, at |-> At(s), tail |-> s.pend, off |-> IF s.pend THEN s.off ELSE 0,
   end |-> s.st.eof /\ ~s.pend]
Plain == INSTANCE PlainFile WITH
  Handles <- Names \cup {-i : i \in Slots},
  open    <- [h \in Tokens |-> Seen(slots[Lookup(h)])],
  shaken  <- {slots[i].token : i \in {j \in Live : slots[j].st.dead}}
PlainFileSpec == Plain!Spec
=============================================================================
