----------------------------- MODULE PlainFile -----------------------------
(***************************************************************************)
(* What the guest's FILE functions promise: a handle names one open file,  *)
(* a read returns the bytes at its cursor, once.  Bytes are named by their *)
(* offsets.  A seek to the end is carried out when the cursor is next      *)
(* used: if a writer lets the file grow in between, the read is of the     *)
(* old end or of the new one.                                              *)
(*                                                                         *)
(* A suspend shakes every open file.  A shaken file is read where it was,  *)
(* but a call may fail, and a pending seek to the end may be lost.         *)
(***************************************************************************)
EXTENDS Integers

CONSTANTS Handles, Paths, MaxSize

VARIABLES
  open,    \* for each open handle its path and cursor, whether the cursor
           \* is a pending seek to the end and how far from it, and whether
           \* a read has met the end of the file
  size,    \* the size of each file
  shaken,  \* handles opened before a suspend
  out      \* what the last call answered, and why it failed
vars == <<open, size, shaken, out>>

Answer(op, h, from, n, why) ==
  out' = [op |-> op, h |-> h, from |-> from, n |-> n, why |-> why]

Asked(op, h) == out'.op = op /\ out'.h = h

Init ==
  /\ open = [h \in {} |-> 0] /\ size \in [Paths -> 0 .. MaxSize] /\ shaken = {}
  /\ out = [op |-> "none", h |-> 0, from |-> 0, n |-> 0, why |-> "ok"]

(* A call on h leaves the others as they are; h may be whole again         *)
Whole(h) == shaken' \in {shaken, shaken \ {h}}
Moved(h, at, end) ==
  open' = [open EXCEPT ![h] =
    [path |-> open[h].path, at |-> at, tail |-> FALSE, off |-> 0, end |-> end]]
Pending(h, off) ==
  open' = [open EXCEPT ![h] =
    [path |-> open[h].path, at |-> size[open[h].path] + off, tail |-> TRUE,
     off |-> off, end |-> FALSE]]
Grows(h) ==
  LET p == open[h].path IN
    \E s \in size[p] .. MaxSize : size' = [size EXCEPT ![p] = s]

Open(h, p) ==
  /\ Answer("fopen", h, 0, 0, "ok") /\ h \notin DOMAIN open
  /\ open' = [g \in DOMAIN open \cup {h} |->
       IF g # h THEN open[g]
       ELSE [path |-> p, at |-> 0, tail |-> FALSE, off |-> 0, end |-> FALSE]]
  /\ shaken' \in {shaken, shaken \cup {h}} /\ UNCHANGED size
NotOpened == Answer("fopen", 0, 0, 0, "device") /\ UNCHANGED <<open, size, shaken>>

Starts(h) ==
  {open[h].at} \cup (IF open[h].tail THEN {size[open[h].path] + open[h].off} ELSE {})
Left(h, from) == IF from < size[open[h].path] THEN size[open[h].path] - from ELSE 0

(* n bytes, or all there are.  Fewer only when the file was shaken, or     *)
(* when the end was met before and no seek has left it since.              *)
Read(h, n) ==
  \E from \in 0 .. MaxSize, k \in 0 .. n, why \in {"ok", "device"} :
    /\ Answer("fread", h, from, k, why)
    /\ from \in Starts(h) /\ k <= Left(h, from) /\ (why = "device" => h \in shaken)
    /\ (k < n /\ why = "ok") =>
         k = Left(h, from) \/ (k = 0 /\ open[h].end /\ ~open[h].tail)
    /\ Moved(h, from + k, k < n /\ why = "ok") /\ Whole(h) /\ UNCHANGED size
(* The pending seek is lost: the bytes are those where the cursor was      *)
Slip(h, n) ==
  \E from \in 0 .. MaxSize, k \in 0 .. n, end \in BOOLEAN, why \in {"ok", "device"} :
    /\ Answer("fread", h, from, k, why)
    /\ h \in shaken /\ open[h].tail
    /\ Moved(h, from + k, end) /\ Whole(h) /\ UNCHANGED size

(* A seek names the offset it reaches, and from where it is counted        *)
SeekTo(h, at) ==
  /\ Answer("set", h, at, 0, "ok")
  /\ Moved(h, at, FALSE) /\ Whole(h) /\ UNCHANGED size
SeekBy(h, at, off) ==
  /\ Answer("cur", h, at, off, "ok") /\ at = open[h].at + off
  /\ Moved(h, at, FALSE) /\ Whole(h) /\ UNCHANGED size
SeekEnd(h, at, off) ==
  /\ Answer("end", h, at, off, "ok") /\ at = size[open[h].path] + off
  /\ Pending(h, off) \/ Moved(h, at, FALSE)
  /\ Whole(h) /\ UNCHANGED size
(* A seek that fails leaves the cursor, or brings a pending seek up to the *)
(* file's new end; in a shaken file the cursor may be lost.                *)
SeekFails(h) ==
  /\ \E op \in {"set", "cur", "end"}, why \in {"range", "device"} :
       Answer(op, h, 0, 0, why) /\ (why = "device" => h \in shaken)
  /\ \/ UNCHANGED open
     \/ open[h].tail /\ Pending(h, open[h].off)
     \/ h \in shaken /\ \E at \in 0 .. MaxSize : Moved(h, at, FALSE)
  /\ Whole(h) /\ UNCHANGED size
Tell(h) ==
  /\ \/ \E at \in 0 .. MaxSize : Answer("ftell", h, at, 0, "ok") /\ at = open[h].at
     \/ Answer("ftell", h, 0, 0, "device") /\ h \in shaken
  /\ UNCHANGED <<open, size, shaken>>

Returns(op, h) ==
  \E why \in {"ok", "device"} : Answer(op, h, 0, 0, why) /\ (why = "device" => h \in shaken)
(* What a writer holds reaches the file when it is written, flushed or     *)
(* closed; a flush of a reader carries out a pending seek.                 *)
Flush(h) ==
  /\ Returns("fflush", h)
  /\ \/ UNCHANGED open
     \/ open[h].tail /\ \E at \in Starts(h) : Moved(h, at, FALSE)
     \/ open[h].tail /\ h \in shaken /\ \E at \in 0 .. MaxSize, end \in BOOLEAN : Moved(h, at, end)
  /\ Grows(h) /\ UNCHANGED shaken
Write(h) ==
  /\ Returns("fwrite", h)
  /\ Grows(h) /\ UNCHANGED <<open, shaken>>
Close(h) ==
  /\ Returns("fclose", h)
  /\ open' = [g \in DOMAIN open \ {h} |-> open[g]] /\ shaken' = shaken \ {h}
  /\ Grows(h)

Suspend == UNCHANGED <<out, size, open>> /\ shaken' = DOMAIN open

(* A call on h answers for h                                               *)
Next ==
  \/ \E h \in Handles, p \in Paths : Asked("fopen", h) /\ Open(h, p)
  \/ NotOpened \/ Suspend
  \/ \E h \in DOMAIN open :
       \/ Asked("fread", h) /\ \E n \in 0 .. MaxSize : Read(h, n) \/ Slip(h, n)
       \/ Asked("set", h) /\ \E at \in 0 .. MaxSize : SeekTo(h, at)
       \/ Asked("cur", h) /\ \E at \in 0 .. MaxSize, off \in -MaxSize .. MaxSize : SeekBy(h, at, off)
       \/ Asked("end", h) /\ \E at \in 0 .. MaxSize, off \in -MaxSize .. MaxSize : SeekEnd(h, at, off)
       \/ Asked(out'.op, h) /\ out'.why # "ok" /\ SeekFails(h)
       \/ Asked("ftell", h) /\ Tell(h)
       \/ Asked("fflush", h) /\ Flush(h)
       \/ Asked("fwrite", h) /\ Write(h)
       \/ Asked("fclose", h) /\ Close(h)

Spec == Init /\ [][Next]_vars
=============================================================================
