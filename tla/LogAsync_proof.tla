--------------------------- MODULE LogAsync_proof ---------------------------
(***************************************************************************)
(* Proofs about LogAsync, for any producers, ring, line lengths, batches   *)
(* and numbers of lines: an accepted line is in one place until it is      *)
(* written once, the exit leaves none of its thread's behind, and until a  *)
(* drainer goes on without the sink lock the log is one queue.             *)
(***************************************************************************)
EXTENDS LogAsync, SequenceTheorems, WellFoundedInduction, TLAPS

-----------------------------------------------------------------------------
(* The inductive invariant.                                                *)

Draining == {"pop", "group", "sink", "report"}

Places == {"cold", "idle", "enqueue", "wake", "sync", "exit", "lock", "wait", "gone"}
            \cup Draining

Control ==
  /\ pc \in [Threads -> Places] /\ sinkLock \in Threads \cup {Nobody}
  /\ call \in [Threads -> [kind : {"none", "file", "printf", "exit"}, len : Nat]]
  /\ logged \in [Producers -> 0 .. MaxLines]
  /\ late \in BOOLEAN /\ started \in 0 .. 1 /\ booted \in 0 .. 1
Typed ==
  /\ ring \in Seq(Record) /\ hand \in [Threads -> Seq(Record)]
  /\ out \in Seq(Lines) /\ accepted \in Seq(Lines)
  /\ Control

(* The logger only drains and waits.  What a producer logs is a line.      *)
PlaceInv ==
  /\ pc[Logger] \in Draining \cup {"cold", "lock", "wait", "gone"}
  /\ \A t \in Producers : pc[t] \in {"idle", "enqueue", "wake", "sync", "exit", "lock", "gone"}
                                     \cup Draining
  /\ \A t \in Producers : pc[t] = "enqueue" =>
       call[t].kind \in {"file", "printf"} /\ call[t].len \in Lengths
  /\ exited # Nobody <=> \A t \in Threads : pc[t] = "gone"
  /\ \A t, u \in Threads : pc[t] = "gone" => pc[u] = "gone"
  /\ booted = 0 => \A t \in Producers : t # Main => pc[t] \in {"idle", "gone"}
  /\ booted = 0 => pc[Logger] \in {"cold", "gone"}
  /\ started = 1 => booted = 1
  /\ started = 0 => accepted = <<>>

(* A thread has lines in its hand from the moment it takes one until it    *)
(* writes them.                                                            *)
HandInv ==
  /\ \A t \in Threads : hand[t] # <<>> => pc[t] \in {"group", "sink", "gone"}
  /\ \A t \in Threads : pc[t] \in {"group", "sink"} => hand[t] # <<>>

(* The lines of a sequence of records, and that none is there twice.       *)
LinesOf(s)   == {s[i].line : i \in 1 .. Len(s)}
Distinct(s)  == \A i, j \in 1 .. Len(s) : s[i].line = s[j].line => i = j
Once(s)      == \A i, j \in 1 .. Len(s) : s[i] = s[j] => i = j

(* Every accepted line is in one place.                                    *)
CopyInv ==
  /\ \A l \in Members(accepted) : \/ l \in Members(out) \/ l \in LinesOf(ring)
                                  \/ \E t \in Threads : l \in LinesOf(hand[t])
  /\ LinesOf(ring) \subseteq Members(accepted)
  /\ \A t \in Threads : LinesOf(hand[t]) \subseteq Members(accepted)
  /\ Once(out) /\ Distinct(ring) /\ \A t \in Threads : Distinct(hand[t])
  /\ LinesOf(ring) \cap Members(out) = {}
  /\ \A t \in Threads : LinesOf(hand[t]) \cap (LinesOf(ring) \cup Members(out)) = {}
  /\ \A t, u \in Threads : t # u => LinesOf(hand[t]) \cap LinesOf(hand[u]) = {}

(* The line a producer has not put anywhere yet is a new one.              *)
Pending(t) ==
  \/ pc[t] \in {"enqueue", "sync"}
  \/ pc[t] \in Draining \cup {"lock"} /\ call[t].kind # "exit"
NewInv ==
  /\ \A l \in Members(accepted) \cup Members(out) : l[2] <= logged[l[1]]
  /\ \A t \in Producers : Pending(t) =>
       logged[t] # 0 /\ Line(t) \notin Members(accepted) \cup Members(out)

(* Until a drainer gives up waiting, the one that holds the sink lock is   *)
(* the only one; and a thread that has flushed has nothing left to write.  *)
Flushed(t) == \A l \in Members(accepted) : l[1] = t => l \in Members(out)
LockInv ==
  ~late => /\ \A t \in Threads : pc[t] \in Draining => sinkLock = t
           /\ \A t \in Producers : pc[t] \in {"sync", "exit"} => Flushed(t)
           /\ exited # Nobody => Flushed(exited)

IInv == Typed /\ PlaceInv /\ HandInv /\ CopyInv /\ NewInv /\ LockInv

-----------------------------------------------------------------------------
(* Lines and sequences                                                     *)

(* The lines of a sequence of records, as a sequence.                      *)
LEMMA NamesAre ==
  ASSUME NEW s \in Seq(Record)
  PROVE  /\ Names(s) \in Seq(Lines) /\ Len(Names(s)) = Len(s)
         /\ \A i \in 1 .. Len(s) : Names(s)[i] = s[i].line /\ s[i] \in Record
  <1>1. \A i \in 1 .. Len(s) : s[i] \in Record /\ s[i].line \in Lines
    <2>1. \A i \in 1 .. Len(s) : s[i] \in Record
      BY ElementOfSeq
    <2>2. \A r \in Record : r.line \in Lines
      BY DEF Record
    <2> QED BY <2>1, <2>2
  <1>2. Len(s) \in Nat
    BY LenProperties
  <1>3. Names(s) \in [1 .. Len(s) -> Lines]
    BY <1>1 DEF Names
  <1>4. Names(s) \in Seq(Lines)
    BY <1>2, <1>3, SeqDef
  <1> QED BY <1>1, <1>2, <1>3, <1>4, LenProperties DEF Names

(* A line is put at the end of a queue, or of what is written.             *)
LEMMA PutLines ==
  ASSUME NEW s \in Seq(Record), NEW r \in Record
  PROVE  /\ Append(s, r) \in Seq(Record) /\ LinesOf(Append(s, r)) = LinesOf(s) \cup {r.line}
         /\ Distinct(s) /\ r.line \notin LinesOf(s) => Distinct(Append(s, r))
  <1>1. Len(s) \in Nat
    BY LenProperties
  <1> QED BY <1>1, AppendProperties DEF LinesOf, Distinct

(* The same of a sequence of lines.                                        *)
LEMMA PutMembers ==
  ASSUME NEW s \in Seq(Lines), NEW l \in Lines
  PROVE  /\ Append(s, l) \in Seq(Lines) /\ Members(Append(s, l)) = Members(s) \cup {l}
         /\ Once(s) /\ l \notin Members(s) => Once(Append(s, l))
  <1>1. Len(s) \in Nat
    BY LenProperties
  <1> QED BY <1>1, AppendProperties DEF Members, Once

(* A queue is cut in two.                                                  *)
LEMMA CutLines ==
  ASSUME NEW s \in Seq(Record), NEW k \in 0 .. Len(s)
  PROVE  LET a == SubSeq(s, 1, k)
             b == SubSeq(s, k + 1, Len(s))
         IN  /\ a \in Seq(Record) /\ b \in Seq(Record) /\ a \o b = s
             /\ LinesOf(s) = LinesOf(a) \cup LinesOf(b)
             /\ Distinct(s) => Distinct(a) /\ Distinct(b) /\ LinesOf(a) \cap LinesOf(b) = {}
  <1> DEFINE a == SubSeq(s, 1, k)
             b == SubSeq(s, k + 1, Len(s))
  <1>1. Len(s) \in Nat /\ \A i \in 1 .. Len(s) : s[i] \in Record
    BY LenProperties, ElementOfSeq
  <1>2. a \in Seq(Record) /\ Len(a) = k /\ \A i \in 1 .. k : a[i] = s[i]
    BY <1>1, SubSeqProperties
  <1>3. /\ b \in Seq(Record) /\ Len(b) = Len(s) - k
        /\ \A i \in 1 .. Len(s) - k : b[i] = s[k + i]
    <2>1. \A i \in k + 1 .. Len(s) : s[i] \in Record
      BY <1>1
    <2>2. /\ b \in Seq(Record)
          /\ Len(b) = IF k + 1 <= Len(s) THEN Len(s) - (k + 1) + 1 ELSE 0
          /\ \A i \in 1 .. Len(s) - (k + 1) + 1 : b[i] = s[(k + 1) + i - 1]
      BY <1>1, <2>1, SubSeqProperties
    <2> QED BY <1>1, <2>2
  <1>4. a \o b = s
    <2>1. 1 \in 1 .. Len(s) + 1 /\ k \in 1 - 1 .. Len(s) /\ Len(s) \in k .. Len(s)
      BY <1>1
    <2>2. SubSeq(s, 1, k) \o SubSeq(s, k + 1, Len(s)) = SubSeq(s, 1, Len(s))
      BY <2>1, ConcatAdjacentSubSeq
    <2> QED BY <2>2, SubSeqFull
  <1>5. LinesOf(a) = {s[i].line : i \in 1 .. k}
    BY <1>2 DEF LinesOf
  <1>6. \A i \in k + 1 .. Len(s) : i - k \in 1 .. Len(b) /\ b[i - k] = s[i]
    BY <1>1, <1>3
  <1>7. LinesOf(b) = {s[i].line : i \in k + 1 .. Len(s)}
    <2>1. \A i \in 1 .. Len(b) : k + i \in k + 1 .. Len(s) /\ b[i] = s[k + i]
      BY <1>1, <1>3
    <2> HIDE DEF b
    <2>2. LinesOf(b) \subseteq {s[i].line : i \in k + 1 .. Len(s)}
      BY <2>1 DEF LinesOf
    <2>3. {s[i].line : i \in k + 1 .. Len(s)} \subseteq LinesOf(b)
      BY <1>6 DEF LinesOf
    <2> QED BY <2>2, <2>3
  <1>8. LinesOf(s) = LinesOf(a) \cup LinesOf(b)
    <2>1. \A i \in 1 .. Len(s) : i \in 1 .. k \/ i \in k + 1 .. Len(s)
      BY <1>1
    <2>2. (1 .. k) \cup (k + 1 .. Len(s)) = 1 .. Len(s)
      BY <1>1
    <2>3. {s[i].line : i \in 1 .. k} \cup {s[i].line : i \in k + 1 .. Len(s)} = LinesOf(s)
      BY <2>2 DEF LinesOf
    <2> QED BY <1>5, <1>7, <2>3
  <1>9. ASSUME Distinct(s)
        PROVE  Distinct(a) /\ Distinct(b) /\ LinesOf(a) \cap LinesOf(b) = {}
    <2>1. Distinct(a)
      BY <1>1, <1>2, <1>9 DEF Distinct
    <2>2. Distinct(b)
      BY <1>1, <1>3, <1>9 DEF Distinct
    <2>3. LinesOf(a) \cap LinesOf(b) = {}
      BY <1>1, <1>5, <1>7, <1>9 DEF Distinct
    <2> QED BY <2>1, <2>2, <2>3
  <1> QED BY <1>2, <1>3, <1>4, <1>8, <1>9

(* Two queues are joined.                                                  *)
LEMMA JoinLines ==
  ASSUME NEW a \in Seq(Record), NEW b \in Seq(Record)
  PROVE  /\ a \o b \in Seq(Record) /\ LinesOf(a \o b) = LinesOf(a) \cup LinesOf(b)
         /\ Distinct(a) /\ Distinct(b) /\ LinesOf(a) \cap LinesOf(b) = {} => Distinct(a \o b)
  <1> DEFINE c == a \o b
  <1>1. Len(a) \in Nat /\ Len(b) \in Nat
    BY LenProperties
  <1>2. /\ c \in Seq(Record) /\ Len(c) = Len(a) + Len(b)
        /\ \A i \in 1 .. Len(a) + Len(b) : c[i] = IF i <= Len(a) THEN a[i] ELSE b[i - Len(a)]
    BY ConcatProperties
  <1>3. /\ \A i \in 1 .. Len(a) : i \in 1 .. Len(c) /\ c[i] = a[i]
        /\ \A i \in 1 .. Len(b) : i + Len(a) \in 1 .. Len(c) /\ c[i + Len(a)] = b[i]
    BY <1>1, <1>2
  <1>4. \A i \in 1 .. Len(c) : \/ i \in 1 .. Len(a) /\ c[i] = a[i]
                               \/ i - Len(a) \in 1 .. Len(b) /\ c[i] = b[i - Len(a)]
    BY <1>1, <1>2
  <1> HIDE DEF c
  <1>5. LinesOf(c) = LinesOf(a) \cup LinesOf(b)
    <2>1. LinesOf(a) \cup LinesOf(b) \subseteq LinesOf(c)
      BY <1>3 DEF LinesOf
    <2>2. LinesOf(c) \subseteq LinesOf(a) \cup LinesOf(b)
      BY <1>4 DEF LinesOf
    <2> QED BY <2>1, <2>2
  <1>6. ASSUME Distinct(a), Distinct(b), LinesOf(a) \cap LinesOf(b) = {},
               NEW i \in 1 .. Len(c), NEW j \in 1 .. Len(c), c[i].line = c[j].line
        PROVE  i = j
    <2>1. CASE i \in 1 .. Len(a) /\ c[i] = a[i] /\ j \in 1 .. Len(a) /\ c[j] = a[j]
      BY <1>6, <2>1 DEF Distinct
    <2>2. CASE /\ i - Len(a) \in 1 .. Len(b) /\ c[i] = b[i - Len(a)]
               /\ j - Len(a) \in 1 .. Len(b) /\ c[j] = b[j - Len(a)]
      <3>1. i - Len(a) = j - Len(a)
        BY <1>6, <2>2 DEF Distinct
      <3> QED BY <1>1, <1>2, <3>1
    <2>3. CASE /\ i \in 1 .. Len(a) /\ c[i] = a[i]
               /\ j - Len(a) \in 1 .. Len(b) /\ c[j] = b[j - Len(a)]
      BY <1>6, <2>3 DEF LinesOf
    <2>4. CASE /\ i - Len(a) \in 1 .. Len(b) /\ c[i] = b[i - Len(a)]
               /\ j \in 1 .. Len(a) /\ c[j] = a[j]
      BY <1>6, <2>4 DEF LinesOf
    <2> QED BY <1>4, <2>1, <2>2, <2>3, <2>4
  <1> QED BY <1>2, <1>5, <1>6 DEF Distinct, c

(* The lines in a hand are written.                                        *)
LEMMA WriteLines ==
  ASSUME NEW s \in Seq(Lines), NEW h \in Seq(Record)
  PROVE  /\ s \o Names(h) \in Seq(Lines)
         /\ Members(s \o Names(h)) = Members(s) \cup LinesOf(h)
         /\ Once(s) /\ Distinct(h) /\ Members(s) \cap LinesOf(h) = {} => Once(s \o Names(h))
  <1> DEFINE c == s \o Names(h)
  <1>1. /\ Len(s) \in Nat /\ Len(h) \in Nat /\ Names(h) \in Seq(Lines) /\ Len(Names(h)) = Len(h)
        /\ \A i \in 1 .. Len(h) : Names(h)[i] = h[i].line
    BY NamesAre, LenProperties
  <1>2. /\ c \in Seq(Lines) /\ Len(c) = Len(s) + Len(h)
        /\ \A i \in 1 .. Len(s) + Len(h) :
             c[i] = IF i <= Len(s) THEN s[i] ELSE Names(h)[i - Len(s)]
    <2>1. /\ c \in Seq(Lines) /\ Len(c) = Len(s) + Len(Names(h))
          /\ \A i \in 1 .. Len(s) + Len(Names(h)) :
               c[i] = IF i <= Len(s) THEN s[i] ELSE Names(h)[i - Len(s)]
      BY <1>1, ConcatProperties
    <2> QED BY <1>1, <2>1
  <1>3. /\ \A i \in 1 .. Len(s) : i \in 1 .. Len(c) /\ c[i] = s[i]
        /\ \A i \in 1 .. Len(h) : i + Len(s) \in 1 .. Len(c) /\ c[i + Len(s)] = h[i].line
    BY <1>1, <1>2
  <1>4. ASSUME NEW i \in 1 .. Len(c)
        PROVE  \/ i \in 1 .. Len(s) /\ c[i] = s[i]
               \/ i - Len(s) \in 1 .. Len(h) /\ c[i] = h[i - Len(s)].line
    <2> HIDE DEF c
    <2>1. CASE i <= Len(s)
      BY <1>1, <1>2, <2>1
    <2>2. CASE ~(i <= Len(s))
      <3>1. i - Len(s) \in 1 .. Len(h) /\ c[i] = Names(h)[i - Len(s)]
        BY <1>1, <1>2, <2>2
      <3> QED BY <1>1, <3>1
    <2> QED BY <2>1, <2>2
  <1> HIDE DEF c
  <1>5. Members(c) = Members(s) \cup LinesOf(h)
    BY <1>3, <1>4 DEF Members, LinesOf
  <1>6. ASSUME Once(s), Distinct(h), Members(s) \cap LinesOf(h) = {},
               NEW i \in 1 .. Len(c), NEW j \in 1 .. Len(c), c[i] = c[j]
        PROVE  i = j
    <2>1. CASE i \in 1 .. Len(s) /\ c[i] = s[i] /\ j \in 1 .. Len(s) /\ c[j] = s[j]
      BY <1>6, <2>1 DEF Once
    <2>2. CASE /\ i - Len(s) \in 1 .. Len(h) /\ c[i] = h[i - Len(s)].line
               /\ j - Len(s) \in 1 .. Len(h) /\ c[j] = h[j - Len(s)].line
      <3>1. i - Len(s) = j - Len(s)
        BY <1>6, <2>2 DEF Distinct
      <3> QED BY <1>1, <1>2, <3>1
    <2>3. CASE /\ i \in 1 .. Len(s) /\ c[i] = s[i]
               /\ j - Len(s) \in 1 .. Len(h) /\ c[j] = h[j - Len(s)].line
      BY <1>6, <2>3 DEF LinesOf, Members
    <2>4. CASE /\ i - Len(s) \in 1 .. Len(h) /\ c[i] = h[i - Len(s)].line
               /\ j \in 1 .. Len(s) /\ c[j] = s[j]
      BY <1>6, <2>4 DEF LinesOf, Members
    <2> QED BY <1>4, <2>1, <2>2, <2>3, <2>4
  <1> QED BY <1>2, <1>5, <1>6 DEF Once, c

(* An empty sequence has no lines.                                         *)
LEMMA NoLines ==
  /\ LinesOf(<<>>) = {} /\ Members(<<>>) = {} /\ Distinct(<<>>) /\ Once(<<>>)
  /\ <<>> \in Seq(Record) /\ <<>> \in Seq(Lines)
  BY EmptySeq DEF LinesOf, Members, Distinct, Once

-----------------------------------------------------------------------------
(* What a step does to the lines: it puts a new one into the ring, takes   *)
(* some from it, writes those in a hand, writes its own, or does nothing   *)
(* to them.                                                                *)

lines == <<ring, hand, out, accepted>>

Puts(t) ==
  /\ t \in Producers /\ pc[t] = "enqueue" /\ started = 1 /\ pc'[t] \in {"wake", "idle"}
  /\ UNCHANGED <<hand, out, sinkLock>>
  /\ \E r \in Record : r.line = Line(t) /\ ring' = Append(ring, r)
  /\ accepted' = Append(accepted, Line(t))
Takes(t) ==
  /\ t \in Threads /\ pc[t] \in {"pop", "group"} /\ UNCHANGED <<out, accepted, sinkLock>>
  /\ \E k \in 0 .. Len(ring) :
       /\ hand' = [hand EXCEPT ![t] = hand[t] \o SubSeq(ring, 1, k)]
       /\ ring' = SubSeq(ring, k + 1, Len(ring))
Writes(t) ==
  /\ t \in Threads /\ pc[t] = "sink" /\ UNCHANGED <<ring, accepted, sinkLock>>
  /\ out' = out \o Names(hand[t]) /\ hand' = [hand EXCEPT ![t] = <<>>]
WritesOwn(t) ==
  /\ t \in Producers /\ pc[t] = "sync" /\ pc'[t] = "idle"
  /\ out' = Append(out, Line(t)) /\ UNCHANGED <<ring, hand, accepted, sinkLock>>
(* It moves no line; it may take or free the sink lock, with an empty hand. *)
Keeps ==
  /\ UNCHANGED lines
  /\ \/ UNCHANGED sinkLock
     \/ \E t \in Threads : /\ pc[t] \in {"lock", "pop"}
                           /\ \/ sinkLock = Nobody /\ sinkLock' = t
                              \/ sinkLock = t /\ sinkLock' = Nobody

(* The line a producer logs is one of the lines.                           *)
LEMMA LineType ==
  ASSUME IInv, NEW t \in Producers, Pending(t) PROVE Line(t) \in Lines
  BY LogAsyncAssumption DEF IInv, Typed, Control, NewInv, Line, Lines

(* Taking one line is taking a prefix of the queue.                        *)
LEMMA PopTakes == ASSUME IInv, NEW t \in Threads, Pop(t) PROVE Takes(t)
  <1>1. ring \in Seq(Record) /\ ring # <<>> /\ hand[t] = <<>> /\ hand \in [Threads -> Seq(Record)]
    BY DEF IInv, Typed, HandInv, Pop
  <1>2. Len(ring) \in Nat \ {0}
    BY <1>1, EmptySeq
  <1>3. Tail(ring) = SubSeq(ring, 1 + 1, Len(ring))
    BY <1>1, TailIsSubSeq
  <1>4. SubSeq(ring, 1, 1) = <<Head(ring)>>
    <2>1. SubSeq(ring, 1, 1) = <<ring[1]>> \o SubSeq(ring, 1 + 1, 1)
      BY <1>1, <1>2, SubSeqRecursiveFirst
    <2>2. SubSeq(ring, 1 + 1, 1) = <<>>
      BY SubSeqEmpty
    <2>3. ring[1] \in Record
      BY <1>1, <1>2, ElementOfSeq
    <2>4. <<ring[1]>> \in Seq(Record)
      BY <2>3
    <2>5. <<ring[1]>> \o <<>> = <<ring[1]>>
      BY <2>4, ConcatEmptySeq
    <2>6. Head(ring) = ring[1]
      BY DEF Head
    <2> QED BY <2>1, <2>2, <2>5, <2>6
  <1>5. hand[t] \o SubSeq(ring, 1, 1) = <<Head(ring)>>
    <2>1. <<Head(ring)>> \in Seq(Record)
      BY <1>1, HeadTailProperties
    <2>2. <<>> \o <<Head(ring)>> = <<Head(ring)>>
      BY <2>1, ConcatEmptySeq
    <2> QED BY <1>1, <1>4, <2>2
  <1>6. 1 \in 0 .. Len(ring)
    BY <1>2
  <1>7. /\ hand' = [hand EXCEPT ![t] = hand[t] \o SubSeq(ring, 1, 1)]
        /\ ring' = SubSeq(ring, 1 + 1, Len(ring))
    BY <1>3, <1>5 DEF Pop
  <1>8. pc[t] \in {"pop", "group"} /\ UNCHANGED <<out, accepted, sinkLock>>
    BY DEF Pop
  <1> QED BY <1>6, <1>7, <1>8 DEF Takes

(* The steps by what they do to the lines.                                 *)
LEMMA StepKinds ==
  ASSUME IInv, [Next]_vars
  PROVE  Keeps \/ \E t \in Threads : Puts(t) \/ Takes(t) \/ Writes(t) \/ WritesOwn(t)
  <1> USE DEF lines, ringVars, drainVars
  <1>0. pc \in [Threads -> Places] /\ Producers \subseteq Threads /\ Logger \in Threads
    BY DEF IInv, Typed, Control, Threads
  <1>1. ASSUME NEW t \in Threads, Drains(t)
        PROVE  Takes(t) \/ Writes(t) \/ Keeps
    <2>1. CASE Pop(t)
      BY <2>1, PopTakes
    <2>2. CASE Group(t)
      BY <2>2 DEF Group, Takes
    <2>3. CASE Sink(t)
      BY <2>3 DEF Sink, Writes
    <2>4. CASE SinkLock(t)
      BY <2>4 DEF SinkLock, Keeps
    <2>5. CASE FinishDrain(t)
      BY <2>5 DEF FinishDrain, Keeps
    <2>6. CASE SinkLockTimeout(t) \/ ReportMidway(t)
      BY <2>6 DEF SinkLockTimeout, ReportMidway, Keeps
    <2> QED BY <1>1, <2>1, <2>2, <2>3, <2>4, <2>5, <2>6 DEF Drains
  <1>2. ASSUME NEW t \in Producers, Enqueue(t) PROVE Puts(t)
    <2> DEFINE r == [line |-> Line(t), sink |-> call[t].kind, len |-> call[t].len]
    <2>1. r \in Record
      BY <1>2, LineType DEF Enqueue, Pending, IInv, PlaceInv, Record
    <2>2. pc'[t] \in {"wake", "idle"}
      BY <1>0, <1>2 DEF Enqueue, Goto, Return
    <2> QED BY <1>2, <2>1, <2>2 DEF Enqueue, Puts
  <1>3. ASSUME NEW t \in Producers, WriteSync(t) PROVE WritesOwn(t)
    BY <1>0, <1>3 DEF WriteSync, WritesOwn, Goto, Return
  <1>4. ASSUME NEW t \in Producers, Produces(t)
        PROVE  Puts(t) \/ Takes(t) \/ Writes(t) \/ WritesOwn(t) \/ Keeps
    <2>1. CASE EnqueueDrops(t) \/ EnqueueNotStarted(t) \/ Wake(t) \/ ExitProcess(t)
      BY <2>1 DEF EnqueueDrops, EnqueueNotStarted, Wake, ExitProcess, Keeps
    <2> QED BY <1>0, <1>1, <1>2, <1>3, <1>4, <2>1 DEF Produces
  <1>5. ASSUME Calls PROVE Keeps
    BY <1>5 DEF Calls, Start, Log, Exit, Keeps
  <1>6. ASSUME SecondPasses \/ LoggerWoken \/ LoggerTimeout \/ UNCHANGED vars
        PROVE  Keeps
    BY <1>6 DEF SecondPasses, LoggerWoken, LoggerTimeout, vars, Keeps
  <1>7. ASSUME Logs PROVE Keeps \/ \E t \in Threads : Takes(t) \/ Writes(t)
    BY <1>0, <1>1, <1>6, <1>7 DEF Logs
  <1> QED BY <1>0, <1>4, <1>5, <1>6, <1>7 DEF Next

(* The lines keep their types.                                             *)
LEMMA LinesTyped ==
  ASSUME IInv, [Next]_vars
  PROVE  /\ ring' \in Seq(Record) /\ hand' \in [Threads -> Seq(Record)]
         /\ out' \in Seq(Lines) /\ accepted' \in Seq(Lines)
  <1>0. /\ ring \in Seq(Record) /\ hand \in [Threads -> Seq(Record)]
        /\ out \in Seq(Lines) /\ accepted \in Seq(Lines)
    BY DEF IInv, Typed
  <1>1. ASSUME NEW t \in Threads, Puts(t) PROVE ring' \in Seq(Record) /\ accepted' \in Seq(Lines)
    BY <1>0, <1>1, LineType, PutLines, PutMembers DEF Puts, Pending
  <1>2. ASSUME NEW t \in Threads, Takes(t)
        PROVE  ring' \in Seq(Record) /\ hand' \in [Threads -> Seq(Record)]
    BY <1>0, <1>2, CutLines, JoinLines DEF Takes
  <1>3. ASSUME NEW t \in Threads, Writes(t)
        PROVE  out' \in Seq(Lines) /\ hand' \in [Threads -> Seq(Record)]
    BY <1>0, <1>3, WriteLines, NoLines DEF Writes
  <1>4. ASSUME NEW t \in Threads, WritesOwn(t) PROVE out' \in Seq(Lines)
    BY <1>0, <1>4, LineType, PutMembers DEF WritesOwn, Pending
  <1> QED BY <1>0, <1>1, <1>2, <1>3, <1>4, StepKinds
         DEF Keeps, lines, Puts, Takes, Writes, WritesOwn

(* Every accepted line stays in one place.                                 *)
LEMMA CopyStep == ASSUME IInv, [Next]_vars PROVE CopyInv'
  <1>0. /\ ring \in Seq(Record) /\ hand \in [Threads -> Seq(Record)]
        /\ out \in Seq(Lines) /\ accepted \in Seq(Lines) /\ CopyInv
        /\ \A t \in Threads : hand[t] \in Seq(Record)
    BY DEF IInv, Typed
  <1>1. ASSUME NEW t \in Threads, Puts(t) PROVE CopyInv'
    <2>1. /\ Line(t) \in Lines /\ Line(t) \notin Members(accepted) \cup Members(out)
          /\ UNCHANGED <<hand, out>>
      BY <1>1, LineType DEF Puts, Pending, IInv, NewInv
    <2>2. PICK r \in Record : r.line = Line(t) /\ ring' = Append(ring, r)
      BY <1>1 DEF Puts
    <2>3. Members(accepted') = Members(accepted) \cup {Line(t)}
      BY <1>0, <1>1, <2>1, PutMembers DEF Puts
    <2>4. LinesOf(ring') = LinesOf(ring) \cup {Line(t)} /\ Distinct(ring')
      BY <1>0, <2>1, <2>2, PutLines DEF CopyInv
    <2> QED BY <1>0, <2>1, <2>3, <2>4 DEF CopyInv
  <1>2. ASSUME NEW t \in Threads, Takes(t) PROVE CopyInv'
    <2>1. UNCHANGED <<out, accepted>>
      BY <1>2 DEF Takes
    <2>2. PICK k \in 0 .. Len(ring) :
            /\ hand' = [hand EXCEPT ![t] = hand[t] \o SubSeq(ring, 1, k)]
            /\ ring' = SubSeq(ring, k + 1, Len(ring))
      BY <1>2 DEF Takes
    <2> DEFINE a == SubSeq(ring, 1, k)
    <2>3. /\ a \in Seq(Record) /\ LinesOf(ring) = LinesOf(a) \cup LinesOf(ring')
          /\ Distinct(a) /\ Distinct(ring') /\ LinesOf(a) \cap LinesOf(ring') = {}
      BY <1>0, <2>2, CutLines DEF CopyInv
    <2>4. /\ hand'[t] = hand[t] \o a
          /\ \A u \in Threads : u # t => hand'[u] = hand[u]
      BY <1>0, <2>2
    <2> HIDE DEF a
    <2>5. LinesOf(hand'[t]) = LinesOf(hand[t]) \cup LinesOf(a) /\ Distinct(hand'[t])
      BY <1>0, <2>3, <2>4, JoinLines DEF CopyInv
    <2>6. /\ \A l \in Members(accepted) : \/ l \in Members(out) \/ l \in LinesOf(ring')
                                          \/ \E u \in Threads : l \in LinesOf(hand'[u])
      BY <1>0, <2>3, <2>4, <2>5 DEF CopyInv
    <2>7. /\ LinesOf(ring') \subseteq Members(accepted)
          /\ \A u \in Threads : LinesOf(hand'[u]) \subseteq Members(accepted)
          /\ \A u \in Threads : Distinct(hand'[u])
      BY <1>0, <2>3, <2>4, <2>5 DEF CopyInv
    <2>8. /\ LinesOf(ring') \cap Members(out) = {}
          /\ \A u \in Threads : LinesOf(hand'[u]) \cap (LinesOf(ring') \cup Members(out)) = {}
      BY <1>0, <2>3, <2>4, <2>5 DEF CopyInv
    <2>9. \A u, v \in Threads : u # v => LinesOf(hand'[u]) \cap LinesOf(hand'[v]) = {}
      BY <1>0, <2>3, <2>4, <2>5 DEF CopyInv
    <2> QED BY <1>0, <2>1, <2>3, <2>6, <2>7, <2>8, <2>9 DEF CopyInv
  <1>3. ASSUME NEW t \in Threads, Writes(t) PROVE CopyInv'
    <2>1. UNCHANGED <<ring, accepted>>
      BY <1>3 DEF Writes
    <2>2. Members(out') = Members(out) \cup LinesOf(hand[t]) /\ Once(out')
      BY <1>0, <1>3, WriteLines DEF Writes, CopyInv
    <2>3. /\ LinesOf(hand'[t]) = {} /\ Distinct(hand'[t])
          /\ \A u \in Threads : u # t => hand'[u] = hand[u]
      BY <1>0, <1>3, NoLines DEF Writes
    <2> QED BY <1>0, <2>1, <2>2, <2>3 DEF CopyInv
  <1>4. ASSUME NEW t \in Threads, WritesOwn(t) PROVE CopyInv'
    <2>1. /\ Line(t) \in Lines /\ Line(t) \notin Members(accepted) \cup Members(out)
          /\ UNCHANGED <<ring, hand, accepted>>
      BY <1>4, LineType DEF WritesOwn, Pending, IInv, NewInv
    <2>2. Members(out') = Members(out) \cup {Line(t)} /\ Once(out')
      BY <1>0, <1>4, <2>1, PutMembers DEF WritesOwn, CopyInv
    <2> QED BY <1>0, <2>1, <2>2 DEF CopyInv
  <1>5. ASSUME Keeps PROVE CopyInv'
    <2>1. ring' = ring /\ hand' = hand /\ out' = out /\ accepted' = accepted
      BY <1>5 DEF Keeps, lines
    <2> QED BY <1>0, <2>1 DEF CopyInv
  <1> QED BY <1>1, <1>2, <1>3, <1>4, <1>5, StepKinds

(* What has ever been accepted or written                                  *)
Ever == Members(accepted) \cup Members(out)

(* It grows by the line that the step puts or writes, if any.              *)
LEMMA EverGrows ==
  ASSUME IInv, [Next]_vars
  PROVE  /\ Ever' = Ever \/ \E t \in Producers : /\ pc'[t] \in {"wake", "idle"}
                                                 /\ Ever' = Ever \cup {Line(t)}
         /\ Members(out) \subseteq Members(out)'
         /\ \/ Members(accepted)' = Members(accepted)
            \/ \E t \in Producers : /\ pc[t] = "enqueue" /\ started = 1
                                    /\ Members(accepted)' = Members(accepted) \cup {Line(t)}
  <1>0. /\ ring \in Seq(Record) /\ hand \in [Threads -> Seq(Record)]
        /\ out \in Seq(Lines) /\ accepted \in Seq(Lines) /\ CopyInv
        /\ \A t \in Threads : hand[t] \in Seq(Record)
    BY DEF IInv, Typed
  <1>1. ASSUME NEW t \in Threads, Puts(t)
        PROVE  /\ Members(accepted)' = Members(accepted) \cup {Line(t)}
               /\ Members(out)' = Members(out)
               /\ t \in Producers /\ pc[t] = "enqueue" /\ started = 1
               /\ pc'[t] \in {"wake", "idle"}
    BY <1>0, <1>1, LineType, PutMembers DEF Puts, Pending
  <1>2. ASSUME NEW t \in Threads, Takes(t)
        PROVE  Members(out)' = Members(out) /\ Members(accepted)' = Members(accepted)
    BY <1>2 DEF Takes
  <1>3. ASSUME NEW t \in Threads, Writes(t)
        PROVE  /\ Members(accepted)' = Members(accepted)
               /\ Members(out)' = Members(out) \cup LinesOf(hand[t])
               /\ LinesOf(hand[t]) \subseteq Members(accepted)
    BY <1>0, <1>3, WriteLines DEF Writes, CopyInv
  <1>4. ASSUME NEW t \in Threads, WritesOwn(t)
        PROVE  /\ Members(accepted)' = Members(accepted)
               /\ Members(out)' = Members(out) \cup {Line(t)} /\ t \in Producers /\ pc'[t] = "idle"
    BY <1>0, <1>4, LineType, PutMembers DEF WritesOwn, Pending
  <1>5. ASSUME Keeps
        PROVE  Members(out)' = Members(out) /\ Members(accepted)' = Members(accepted)
    BY <1>5 DEF Keeps, lines
  <1> QED BY <1>1, <1>2, <1>3, <1>4, <1>5, StepKinds DEF Ever

-----------------------------------------------------------------------------
(* Where the threads are.                                                  *)

(* The steps by who takes them.                                            *)
LEMMA StepsOf ==
  ASSUME [Next]_vars
  PROVE  \/ Start \/ SecondPasses \/ LoggerWoken \/ LoggerTimeout \/ UNCHANGED vars
         \/ \E t \in Producers :
              \/ \E kind \in {"file", "printf"}, len \in Lengths : Log(t, kind, len)
              \/ Exit(t) \/ Enqueue(t) \/ EnqueueDrops(t) \/ EnqueueNotStarted(t)
              \/ Wake(t) \/ WriteSync(t) \/ ExitProcess(t)
         \/ \E t \in Threads : \/ SinkLock(t) \/ SinkLockTimeout(t) \/ Pop(t) \/ Group(t)
                               \/ Sink(t) \/ ReportMidway(t) \/ FinishDrain(t)
  BY DEF Next, Calls, Logs, Produces, Drains, Threads

(* The lock, the calls and the places keep their types.                    *)
LEMMA ControlStep == ASSUME IInv, [Next]_vars PROVE Control'
  <1>0. /\ Control /\ Producers \subseteq Threads /\ Logger \in Threads /\ Main \in Threads
        /\ Lengths \subseteq Nat /\ MaxLines \in Nat
    BY LogAsyncAssumption DEF IInv, Typed, Threads
  <1> USE DEF Control, Places, Draining, Goto, Return, NoCall, bootVars
  <1>1. CASE Start \/ SecondPasses \/ LoggerWoken \/ LoggerTimeout \/ UNCHANGED vars
    BY <1>0, <1>1 DEF Start, SecondPasses, LoggerWoken, LoggerTimeout, vars
  <1>2. ASSUME NEW t \in Producers, NEW kind \in {"file", "printf"}, NEW len \in Lengths,
               Log(t, kind, len)
        PROVE  Control'
    BY <1>0, <1>2 DEF Log
  <1>3. ASSUME NEW t \in Producers, Exit(t) PROVE Control'
    BY <1>0, <1>3 DEF Exit
  <1>4. ASSUME NEW t \in Producers, Enqueue(t) PROVE Control'
    <2>1. /\ UNCHANGED <<sinkLock, logged, late, started, booted>> /\ started = 1
      BY <1>4 DEF Enqueue
    <2>2. CASE used = 0
      <3>1. pc' = [pc EXCEPT ![t] = "wake"] /\ call' = call
        BY <1>4, <2>2 DEF Enqueue
      <3> QED BY <1>0, <2>1, <3>1
    <2>3. CASE used # 0
      <3>1. /\ pc' = [pc EXCEPT ![t] = "idle"]
            /\ call' = [call EXCEPT ![t] = [kind |-> "none", len |-> 0]]
        BY <1>4, <2>3 DEF Enqueue
      <3> QED BY <1>0, <2>1, <3>1
    <2> QED BY <2>2, <2>3
  <1>5. ASSUME NEW t \in Producers,
               EnqueueDrops(t) \/ EnqueueNotStarted(t) \/ Wake(t) \/ WriteSync(t) \/ ExitProcess(t)
        PROVE  Control'
    <2>1. CASE EnqueueDrops(t)
      BY <1>0, <2>1 DEF EnqueueDrops
    <2>2. CASE EnqueueNotStarted(t)
      BY <1>0, <2>2 DEF EnqueueNotStarted
    <2>3. CASE Wake(t)
      BY <1>0, <2>3 DEF Wake
    <2>4. CASE WriteSync(t)
      BY <1>0, <2>4 DEF WriteSync
    <2>5. CASE ExitProcess(t)
      BY <1>0, <2>5 DEF ExitProcess
    <2> QED BY <1>5, <2>1, <2>2, <2>3, <2>4, <2>5
  <1>6. ASSUME NEW t \in Threads,
               SinkLock(t) \/ SinkLockTimeout(t) \/ Pop(t) \/ Group(t) \/ ReportMidway(t)
        PROVE  Control'
    BY <1>0, <1>6 DEF SinkLock, SinkLockTimeout, Pop, Group, ReportMidway
  <1>7. ASSUME NEW t \in Threads, Sink(t) \/ FinishDrain(t) PROVE Control'
    BY <1>0, <1>7 DEF Sink, FinishDrain
  <1> QED BY <1>1, <1>2, <1>3, <1>4, <1>5, <1>6, <1>7, StepsOf

(* A producer drains to flush, the logger to empty the ring; no thread is  *)
(* gone before all are.                                                    *)
LEMMA PlaceStep == ASSUME IInv, [Next]_vars PROVE PlaceInv'
  <1>0. /\ Control /\ PlaceInv
        /\ Logger \in Threads /\ Main \in Producers /\ Logger \notin Producers
        /\ Nobody \notin Threads /\ Threads = Producers \cup {Logger}
    BY LogAsyncAssumption DEF IInv, Typed, Threads
  <1> USE DEF Control, PlaceInv, Places, Draining, Goto, Return, NoCall, bootVars, ringVars
  <1>1. CASE Start
    <2>1. /\ pc[Main] = "idle" /\ booted = 0 /\ booted' = 1
          /\ UNCHANGED <<call, accepted, exited>>
      BY <1>1 DEF Start
    <2>2. exited = Nobody /\ \A t \in Threads : pc[t] # "gone"
      BY <1>0, <2>1
    <2>3. CASE started' = 1 /\ pc' = [pc EXCEPT ![Logger] = "lock"]
      BY <1>0, <2>1, <2>2, <2>3
    <2>4. CASE UNCHANGED <<started, pc>>
      BY <1>0, <2>1, <2>2, <2>4
    <2> QED BY <1>1, <2>3, <2>4 DEF Start
  <1>2. CASE SecondPasses \/ LoggerWoken \/ LoggerTimeout \/ UNCHANGED vars
    <2>1. UNCHANGED <<call, accepted, started, booted, exited>>
      BY <1>2 DEF SecondPasses, LoggerWoken, LoggerTimeout, vars
    <2>2. CASE pc' = pc
      BY <1>0, <2>1, <2>2
    <2>3. CASE pc[Logger] = "wait" /\ pc' = [pc EXCEPT ![Logger] = "lock"]
      BY <1>0, <2>1, <2>3
    <2> QED BY <1>2, <2>2, <2>3 DEF SecondPasses, LoggerWoken, LoggerTimeout, vars
  <1>3. ASSUME NEW t \in Producers, NEW kind \in {"file", "printf"}, NEW len \in Lengths,
               Log(t, kind, len)
        PROVE  PlaceInv'
    BY <1>0, <1>3 DEF Log
  <1>4. ASSUME NEW t \in Producers, Exit(t) PROVE PlaceInv'
    BY <1>0, <1>4 DEF Exit
  <1>5. ASSUME NEW t \in Producers, Enqueue(t) PROVE PlaceInv'
    <2>1. /\ UNCHANGED <<exited, late, started, booted>> /\ started = 1 /\ pc[t] = "enqueue"
      BY <1>5 DEF Enqueue
    <2>2. CASE used = 0
      <3>1. pc' = [pc EXCEPT ![t] = "wake"] /\ call' = call
        BY <1>5, <2>2 DEF Enqueue
      <3> QED BY <1>0, <2>1, <3>1
    <2>3. CASE used # 0
      <3>1. /\ pc' = [pc EXCEPT ![t] = "idle"]
            /\ call' = [call EXCEPT ![t] = [kind |-> "none", len |-> 0]]
        BY <1>5, <2>3 DEF Enqueue
      <3> QED BY <1>0, <2>1, <3>1
    <2> QED BY <2>2, <2>3
  <1>6. ASSUME NEW t \in Producers,
               EnqueueDrops(t) \/ EnqueueNotStarted(t) \/ Wake(t) \/ WriteSync(t)
        PROVE  PlaceInv'
    <2>1. CASE EnqueueDrops(t)
      BY <1>0, <2>1 DEF EnqueueDrops
    <2>2. CASE EnqueueNotStarted(t)
      BY <1>0, <2>2 DEF EnqueueNotStarted
    <2>3. CASE Wake(t)
      BY <1>0, <2>3 DEF Wake
    <2>4. CASE WriteSync(t)
      BY <1>0, <2>4 DEF WriteSync
    <2> QED BY <1>6, <2>1, <2>2, <2>3, <2>4
  <1>7. ASSUME NEW t \in Producers, ExitProcess(t) PROVE PlaceInv'
    BY <1>0, <1>7 DEF ExitProcess
  <1>8. ASSUME NEW t \in Threads,
               SinkLock(t) \/ SinkLockTimeout(t) \/ Pop(t) \/ Group(t) \/ ReportMidway(t)
        PROVE  PlaceInv'
    <2>1. CASE SinkLock(t)
      BY <1>0, <2>1 DEF SinkLock
    <2>2. CASE SinkLockTimeout(t)
      BY <1>0, <2>2 DEF SinkLockTimeout
    <2>3. CASE Pop(t)
      BY <1>0, <2>3 DEF Pop
    <2>4. CASE Group(t)
      BY <1>0, <2>4 DEF Group
    <2>5. CASE ReportMidway(t)
      BY <1>0, <2>5 DEF ReportMidway
    <2> QED BY <1>8, <2>1, <2>2, <2>3, <2>4, <2>5
  <1>9. ASSUME NEW t \in Threads, Sink(t) PROVE PlaceInv'
    BY <1>0, <1>9 DEF Sink
  <1>10. ASSUME NEW t \in Threads, FinishDrain(t) PROVE PlaceInv'
    BY <1>0, <1>10 DEF FinishDrain
  <1> QED BY <1>1, <1>2, <1>3, <1>4, <1>5, <1>6, <1>7, <1>8, <1>9, <1>10, StepsOf

(* Only a drainer between its first take and its write has lines in hand.  *)
LEMMA HandStep == ASSUME IInv, [Next]_vars PROVE HandInv'
  <1>0. /\ pc \in [Threads -> Places] /\ hand \in [Threads -> Seq(Record)] /\ HandInv
        /\ Logger \in Threads /\ Producers \subseteq Threads /\ Main \in Threads
        /\ ring \in Seq(Record)
    BY LogAsyncAssumption DEF IInv, Typed, Control, Threads
  <1> USE DEF HandInv, Goto, Return, drainVars
  <1>1. CASE Start \/ SecondPasses \/ LoggerWoken \/ LoggerTimeout \/ UNCHANGED vars
    BY <1>0, <1>1, LogAsyncAssumption
       DEF Start, SecondPasses, LoggerWoken, LoggerTimeout, vars, IInv, PlaceInv, Draining
  <1>2. ASSUME NEW t \in Producers, NEW kind \in {"file", "printf"}, NEW len \in Lengths,
               Log(t, kind, len)
        PROVE  HandInv'
    BY <1>0, <1>2 DEF Log
  <1>3. ASSUME NEW t \in Producers, Exit(t) PROVE HandInv'
    BY <1>0, <1>3 DEF Exit
  <1>4. ASSUME NEW t \in Producers,
               \/ Enqueue(t) \/ EnqueueDrops(t) \/ EnqueueNotStarted(t) \/ Wake(t)
               \/ WriteSync(t) \/ ExitProcess(t)
        PROVE  HandInv'
    BY <1>0, <1>4 DEF Enqueue, EnqueueDrops, EnqueueNotStarted, Wake, WriteSync, ExitProcess
  <1>5. ASSUME NEW t \in Threads,
               SinkLock(t) \/ SinkLockTimeout(t) \/ ReportMidway(t) \/ FinishDrain(t)
        PROVE  HandInv'
    BY <1>0, <1>5 DEF SinkLock, SinkLockTimeout, ReportMidway, FinishDrain
  <1>6. ASSUME NEW t \in Threads, Pop(t) PROVE HandInv'
    <2>1. <<Head(ring)>> # <<>>
      OBVIOUS
    <2> QED BY <1>0, <1>6, <2>1 DEF Pop
  <1>7. ASSUME NEW t \in Threads, Group(t) PROVE HandInv'
    <2>1. PICK k \in 0 .. Len(ring) : hand' = [hand EXCEPT ![t] = hand[t] \o SubSeq(ring, 1, k)]
      BY <1>7 DEF Group
    <2>2. hand[t] \in Seq(Record) /\ hand[t] # <<>> /\ SubSeq(ring, 1, k) \in Seq(Record)
      BY <1>0, <1>7, CutLines DEF Group
    <2>3. hand[t] \o SubSeq(ring, 1, k) # <<>>
      BY <2>2, ConcatEqualIffEmpty
    <2> QED BY <1>0, <1>7, <2>1, <2>3 DEF Group
  <1>8. ASSUME NEW t \in Threads, Sink(t) PROVE HandInv'
    BY <1>0, <1>8 DEF Sink
  <1> QED BY <1>1, <1>2, <1>3, <1>4, <1>5, <1>6, <1>7, <1>8, StepsOf

-----------------------------------------------------------------------------
(* The line a producer is logging is new, and a flush leaves nothing.      *)

(* A number is taken by the call that logs it, which moves no line; until  *)
(* the producer has put the line somewhere it stays the one to put.        *)
LEMMA PendingStep ==
  ASSUME IInv, [Next]_vars, NEW u \in Producers
  PROVE  /\ logged[u] \in Nat /\ logged'[u] \in Nat /\ logged[u] <= logged'[u]
         /\ Pending(u)' => \/ Pending(u) /\ logged'[u] = logged[u]
                           \/ logged[u] < logged'[u] /\ Ever' = Ever
  <1>0. /\ Control /\ PlaceInv /\ Producers \subseteq Threads /\ Logger \in Threads
        /\ Logger \notin Producers /\ MaxLines \in Nat /\ u \in Threads /\ u # Logger
    BY LogAsyncAssumption DEF IInv, Typed, Threads
  <1>t. logged[u] \in Nat /\ logged'[u] \in Nat
    BY <1>0, ControlStep DEF Control
  <1> DEFINE P == /\ logged[u] <= logged'[u]
                  /\ Pending(u)' => \/ Pending(u) /\ logged'[u] = logged[u]
                                    \/ logged[u] < logged'[u] /\ Ever' = Ever
  <1> USE DEF Control, Goto, Return, Pending, Draining, Places
  <1>1. CASE Start \/ SecondPasses \/ LoggerWoken \/ LoggerTimeout \/ UNCHANGED vars
    BY <1>0, <1>1, <1>t DEF Start, SecondPasses, LoggerWoken, LoggerTimeout, vars
  <1>2. ASSUME NEW t \in Producers, NEW kind \in {"file", "printf"}, NEW len \in Lengths,
               Log(t, kind, len)
        PROVE  P
    <2>1. out' = out /\ accepted' = accepted /\ logged' = [logged EXCEPT ![t] = @ + 1]
      BY <1>2 DEF Log, ringVars
    <2>2. Ever' = Ever
      BY <2>1 DEF Ever, Members
    <2>3. CASE u = t
      BY <1>0, <1>t, <2>1, <2>2, <2>3
    <2>4. CASE u # t
      BY <1>0, <1>2, <1>t, <2>1, <2>4 DEF Log
    <2> QED BY <2>3, <2>4
  <1>3. ASSUME NEW t \in Producers, Exit(t) PROVE P
    BY <1>0, <1>t, <1>3 DEF Exit
  <1>4. ASSUME NEW t \in Producers, Enqueue(t) PROVE P
    <2>1. /\ logged' = logged
          /\ \/ pc' = [pc EXCEPT ![t] = "wake"] /\ call' = call
             \/ pc' = [pc EXCEPT ![t] = "idle"] /\ call' = [call EXCEPT ![t] = NoCall]
      BY <1>4 DEF Enqueue
    <2> QED BY <1>0, <1>t, <2>1
  <1>5. ASSUME NEW t \in Producers, EnqueueDrops(t) \/ Wake(t) \/ WriteSync(t) PROVE P
    BY <1>0, <1>t, <1>5 DEF EnqueueDrops, Wake, WriteSync
  <1>6. ASSUME NEW t \in Producers, EnqueueNotStarted(t) \/ ExitProcess(t) PROVE P
    BY <1>0, <1>t, <1>6 DEF EnqueueNotStarted, ExitProcess
  <1>7. ASSUME NEW t \in Threads,
               SinkLock(t) \/ SinkLockTimeout(t) \/ Pop(t) \/ Group(t) \/ ReportMidway(t)
        PROVE  P
    <2>1. CASE SinkLock(t)
      BY <1>0, <1>t, <2>1 DEF SinkLock
    <2>2. CASE SinkLockTimeout(t)
      BY <1>0, <1>t, <2>2 DEF SinkLockTimeout
    <2>3. CASE Pop(t)
      BY <1>0, <1>t, <2>3 DEF Pop
    <2>4. CASE Group(t)
      BY <1>0, <1>t, <2>4 DEF Group
    <2>5. CASE ReportMidway(t)
      BY <1>0, <1>t, <2>5 DEF ReportMidway
    <2> QED BY <1>7, <2>1, <2>2, <2>3, <2>4, <2>5
  <1>8. ASSUME NEW t \in Threads, Sink(t) \/ FinishDrain(t) PROVE P
    BY <1>0, <1>t, <1>8 DEF Sink, FinishDrain
  <1> QED BY <1>t, <1>1, <1>2, <1>3, <1>4, <1>5, <1>6, <1>7, <1>8, StepsOf

(* The line a producer has not put anywhere stays a new one.               *)
LEMMA NewStep == ASSUME IInv, [Next]_vars PROVE NewInv'
  <1>0. Ever \subseteq Lines /\ NewInv /\ logged \in [Producers -> Nat]
    <2>1. \A s \in Seq(Lines) : Members(s) \subseteq Lines
      BY ElementOfSeq DEF Members
    <2>2. logged \in [Producers -> Nat]
      BY LogAsyncAssumption DEF IInv, Typed, Control
    <2> QED BY <2>1, <2>2 DEF IInv, Typed, Ever
  <1>1. \A l \in Ever' : l[2] <= logged'[l[1]]
    <2>1. \A l \in Ever : l[1] \in Producers /\ l[2] \in Nat /\ l[2] <= logged[l[1]]
      BY <1>0, LogAsyncAssumption DEF NewInv, Lines, Ever
    <2>2. \A t \in Producers : Line(t)[1] = t /\ Line(t)[2] = logged[t]
      BY DEF Line
    <2>3. \A t \in Producers : logged[t] \in Nat /\ logged'[t] \in Nat /\ logged[t] <= logged'[t]
      BY PendingStep
    <2> QED BY <2>1, <2>2, <2>3, EverGrows
  <1>2. ASSUME NEW u \in Producers, Pending(u)'
        PROVE  logged'[u] # 0 /\ <<u, logged'[u]>> \notin Ever'
    <2>1. CASE Pending(u) /\ logged'[u] = logged[u]
      <3>1. logged[u] # 0 /\ <<u, logged[u]>> \notin Ever
        BY <1>0, <2>1 DEF NewInv, Ever, Line
      <3>2. ASSUME NEW t \in Producers, pc'[t] \in {"wake", "idle"}, Ever' = Ever \cup {Line(t)}
            PROVE  <<u, logged[u]>> \notin Ever'
        <4>1. t # u
          BY <1>2, <3>2 DEF Pending, Draining
        <4> QED BY <3>1, <3>2, <4>1 DEF Line
      <3> QED BY <2>1, <3>1, <3>2, EverGrows
    <2>2. CASE logged[u] < logged'[u] /\ Ever' = Ever
      <3>1. logged[u] \in Nat /\ logged'[u] \in Nat
        BY PendingStep
      <3>2. \A l \in Ever : l[2] <= logged[l[1]]
        BY <1>0 DEF NewInv, Ever
      <3>3. <<u, logged'[u]>> \notin Ever
        BY <2>2, <3>1, <3>2
      <3> QED BY <2>2, <3>1, <3>3
    <2> QED BY <1>2, <2>1, <2>2, PendingStep
  <1> QED BY <1>1, <1>2 DEF NewInv, Ever, Line

(* A thread that has flushed has flushed until it logs again.              *)
LEMMA FlushedStep ==
  ASSUME IInv, [Next]_vars, NEW t, Flushed(t), t \in Producers => pc[t] # "enqueue"
  PROVE  Flushed(t)'
  <1>1. ASSUME NEW u \in Producers, pc[u] = "enqueue",
               Members(accepted)' = Members(accepted) \cup {Line(u)}
        PROVE  Flushed(t)'
    <2>1. Line(u)[1] = u /\ u # t
      BY <1>1 DEF Line
    <2> QED BY <1>1, <2>1, EverGrows DEF Flushed
  <1> QED BY <1>1, EverGrows DEF Flushed

(* A drainer that holds the lock and finds the ring empty has nothing left *)
(* of any thread to write.                                                 *)
LEMMA DrainFlushes ==
  ASSUME IInv, NEW t \in Threads, ~late, pc[t] = "pop", ring = <<>>
  PROVE  \A u : Flushed(u)
  <1>1. LinesOf(ring) = {}
    BY NoLines
  <1>2. ASSUME NEW u \in Threads PROVE LinesOf(hand[u]) = {}
    <2>1. pc[u] # "gone"
      BY DEF IInv, PlaceInv
    <2>2. hand[u] # <<>> => pc[u] \in {"group", "sink"} /\ u = t
      BY <2>1 DEF IInv, HandInv, LockInv, Draining
    <2> QED BY <2>2, NoLines
  <1> QED BY <1>1, <1>2 DEF IInv, CopyInv, Flushed

(* How the flags move without a timeout: a thread gets to its own write or *)
(* to its exit from a logger that never ran or from an empty ring, and the *)
(* thread that ends the process is one that was about to.                  *)
Moves ==
  /\ late \in BOOLEAN /\ (late => late')
  /\ exited' = exited \/ \E t \in Producers : pc[t] = "exit" /\ exited' = t
  /\ ~late' => \A t \in Threads : pc'[t] \in Draining => sinkLock' = t
  /\ \A t \in Producers : pc'[t] \in {"sync", "exit"} =>
       \/ pc[t] = pc'[t]
       \/ accepted = <<>> /\ UNCHANGED <<accepted, out>>
       \/ pc[t] = "pop" /\ ring = <<>>

LEMMA MovesStep == ASSUME IInv, [Next]_vars PROVE Moves
  <1>0. /\ Control /\ LockInv /\ Producers \subseteq Threads /\ Logger \in Threads
        /\ Logger \notin Producers /\ Nobody \notin Threads /\ Main \in Threads
        /\ started = 0 => accepted = <<>>
    BY LogAsyncAssumption DEF IInv, Typed, PlaceInv, Threads
  <1> USE DEF Control, LockInv, Moves, Goto, Return, Draining, Places, bootVars
  <1>1. CASE Start \/ SecondPasses \/ LoggerWoken \/ LoggerTimeout \/ UNCHANGED vars
    BY <1>0, <1>1 DEF Start, SecondPasses, LoggerWoken, LoggerTimeout, vars
  <1>2. ASSUME NEW t \in Producers, NEW kind \in {"file", "printf"}, NEW len \in Lengths,
               Log(t, kind, len)
        PROVE  Moves
    BY <1>0, <1>2 DEF Log, ringVars
  <1>3. ASSUME NEW t \in Producers, Exit(t) PROVE Moves
    BY <1>0, <1>3 DEF Exit, ringVars
  <1>4. ASSUME NEW t \in Producers, Enqueue(t) PROVE Moves
    <2>1. /\ UNCHANGED <<sinkLock, late, exited>>
          /\ \/ pc' = [pc EXCEPT ![t] = "wake"]
             \/ pc' = [pc EXCEPT ![t] = "idle"]
      BY <1>4 DEF Enqueue
    <2> QED BY <1>0, <2>1
  <1>5. ASSUME NEW t \in Producers, EnqueueDrops(t) \/ Wake(t) \/ WriteSync(t) PROVE Moves
    BY <1>0, <1>5 DEF EnqueueDrops, Wake, WriteSync
  <1>6. ASSUME NEW t \in Producers, EnqueueNotStarted(t) \/ ExitProcess(t) PROVE Moves
    BY <1>0, <1>6 DEF EnqueueNotStarted, ExitProcess, ringVars
  <1>7. ASSUME NEW t \in Threads, SinkLock(t) \/ SinkLockTimeout(t) \/ ReportMidway(t)
        PROVE  Moves
    BY <1>0, <1>7 DEF SinkLock, SinkLockTimeout, ReportMidway
  <1>8. ASSUME NEW t \in Threads, Pop(t) \/ Group(t) PROVE Moves
    BY <1>0, <1>8 DEF Pop, Group
  <1>9. ASSUME NEW t \in Threads, Sink(t) PROVE Moves
    BY <1>0, <1>9 DEF Sink
  <1>10. ASSUME NEW t \in Threads, FinishDrain(t) PROVE Moves
    BY <1>0, <1>10 DEF FinishDrain
  <1> QED BY <1>1, <1>2, <1>3, <1>4, <1>5, <1>6, <1>7, <1>8, <1>9, <1>10, StepsOf

(* One drainer at a time, and nothing left behind, without a timeout.      *)
LEMMA LockStep == ASSUME IInv, [Next]_vars PROVE LockInv'
  <1>1. Moves /\ LockInv /\ PlaceInv
    BY MovesStep DEF IInv
  <1>2. ASSUME ~late', NEW t \in Producers, pc'[t] \in {"sync", "exit"} PROVE Flushed(t)'
    <2>1. CASE pc[t] = pc'[t]
      BY <1>1, <1>2, <2>1, FlushedStep DEF LockInv, Moves
    <2>2. CASE accepted = <<>> /\ UNCHANGED <<accepted, out>>
      <3>1. accepted' = <<>>
        BY <2>2
      <3>2. Members(accepted') = {}
        BY <3>1, NoLines
      <3> QED BY <3>2 DEF Flushed
    <2>3. CASE pc[t] = "pop" /\ ring = <<>>
      <3>1. t \in Threads /\ ~late
        BY <1>1, <1>2 DEF Moves, Threads
      <3>2. Flushed(t)
        BY <2>3, <3>1, DrainFlushes
      <3> QED BY <2>3, <3>2, FlushedStep
    <2> QED BY <1>1, <1>2, <2>1, <2>2, <2>3 DEF Moves
  <1>3. ASSUME ~late', NEW x, x = exited', x # Nobody PROVE Flushed(x)'
    <2>1. CASE exited' = exited
      <3>1. Flushed(x) /\ \A t \in Threads : pc[t] = "gone"
        BY <1>1, <1>3, <2>1 DEF LockInv, PlaceInv, Moves
      <3>2. x \in Producers => pc[x] # "enqueue"
        BY <3>1 DEF Threads
      <3> QED BY <3>1, <3>2, FlushedStep
    <2>2. ASSUME NEW t \in Producers, pc[t] = "exit", exited' = t PROVE Flushed(x)'
      <3>1. Flushed(t)
        BY <1>1, <1>3, <2>2 DEF LockInv, Moves
      <3>2. Flushed(t)'
        BY <2>2, <3>1, FlushedStep
      <3> QED BY <1>3, <2>2, <3>2
    <2> QED BY <1>1, <2>1, <2>2 DEF Moves
  <1>4. ~late' => /\ \A t \in Producers : pc'[t] \in {"sync", "exit"} => Flushed(t)'
                  /\ exited' # Nobody => Flushed(exited)'
    BY <1>2, <1>3 DEF Flushed
  <1> QED BY <1>1, <1>4 DEF LockInv, Moves

-----------------------------------------------------------------------------
(* The theorems                                                            *)

(* At the start nothing is accepted and no thread is on its way.           *)
LEMMA InitInv == ASSUME Init PROVE IInv
  <1>1. /\ LinesOf(ring) = {} /\ Members(accepted) = {} /\ Members(out) = {}
        /\ \A t \in Threads : LinesOf(hand[t]) = {} /\ Distinct(hand[t])
        /\ Distinct(ring) /\ Once(out)
        /\ ring \in Seq(Record) /\ out \in Seq(Lines) /\ accepted \in Seq(Lines)
        /\ hand \in [Threads -> Seq(Record)]
    BY NoLines DEF Init
  <1>2. /\ \A t \in Producers : pc[t] = "idle" /\ t \in Threads
        /\ pc[Logger] = "cold" /\ \A t \in Threads : pc[t] \in {"idle", "cold"}
        /\ Main \in Threads /\ Logger \in Threads
    BY LogAsyncAssumption DEF Init, Threads
  <1>3. Control
    <2>1. pc \in [Threads -> Places]
      BY <1>2 DEF Init, Places
    <2>2. call \in [Threads -> [kind : {"none", "file", "printf", "exit"}, len : Nat]]
      BY DEF Init, NoCall
    <2>3. logged \in [Producers -> 0 .. MaxLines]
      BY LogAsyncAssumption DEF Init
    <2>4. late \in BOOLEAN
      BY Zenon DEF Init
    <2>5. started \in 0 .. 1 /\ booted \in 0 .. 1 /\ sinkLock \in Threads \cup {Nobody}
      BY DEF Init
    <2> QED BY <2>1, <2>2, <2>3, <2>4, <2>5 DEF Control
  <1>4. PlaceInv
    BY <1>2, LogAsyncAssumption DEF Init, PlaceInv, Draining
  <1>5. HandInv /\ LockInv /\ NewInv
    BY <1>1, <1>2 DEF Init, HandInv, LockInv, NewInv, Flushed, Pending, Draining
  <1>6. CopyInv
    BY <1>1 DEF CopyInv
  <1> QED BY <1>1, <1>3, <1>4, <1>5, <1>6 DEF IInv, Typed

(* The inductive invariant is one of the specification.                    *)
THEOREM Invariance == Spec => []IInv
  <1>1. ASSUME IInv, [Next]_vars PROVE IInv'
    BY <1>1, LinesTyped, ControlStep, PlaceStep, HandStep, CopyStep, NewStep, LockStep
       DEF IInv, Typed
  <1> QED BY InitInv, <1>1, PTL DEF Spec

(* NothingLost: every line the ring accepted is in one place, and what the *)
(* exiting thread logged was written, unless a drainer had lost patience.  *)
THEOREM AcceptedLinesAreWritten == Spec => []NothingLost
  <1>1. ASSUME IInv PROVE OneCopy
    <2>1. ASSUME NEW s \in Seq(Record) PROVE Members(Names(s)) = LinesOf(s)
      BY <2>1, NamesAre DEF Members, LinesOf
    <2>2. /\ ring \in Seq(Record) /\ \A t \in Threads : hand[t] \in Seq(Record)
          /\ CopyInv
      BY <1>1 DEF IInv, Typed
    <2>3. InHand = UNION {LinesOf(hand[t]) : t \in Threads} /\ Members(Names(ring)) = LinesOf(ring)
      BY <2>1, <2>2 DEF InHand
    <2> QED BY <2>2, <2>3 DEF CopyInv, OneCopy, Once
  <1>2. ASSUME IInv PROVE FlushReachesSink
    <2>1. \A i \in 1 .. Len(accepted) : accepted[i] \in Members(accepted) /\ accepted[i] \in Lines
      BY <1>2, ElementOfSeq DEF IInv, Typed, Members
    <2>2. \A l \in Lines : l[1] # Nobody
      BY LogAsyncAssumption DEF Lines, Threads
    <2> QED BY <1>2, <2>1, <2>2 DEF IInv, LockInv, Flushed, FlushReachesSink
  <1> QED BY <1>1, <1>2, Invariance, PTL DEF NothingLost

-----------------------------------------------------------------------------
(* The bytes of the ring                                                   *)

(* A set of naturals that is not empty has a least element.                *)
LEMMA LeastElement ==
  ASSUME NEW S, S \subseteq Nat, S # {}
  PROVE  \E x \in S : \A y \in S : x <= y
<1>1. \E R : IsWellFoundedOn(R, Nat) /\ \A x, y \in Nat : <<y, x>> \in R <=> y < x
  <2>1. \A x, y \in Nat : <<y, x>> \in OpToRel(<, Nat) <=> y < x
    BY DEF OpToRel
  <2> QED
    BY <2>1, NatLessThanWellFounded
<1>2. PICK R : IsWellFoundedOn(R, Nat) /\ \A x, y \in Nat : <<y, x>> \in R <=> y < x
  BY <1>1
<1>3. \E x \in S : \A y \in S : ~(<<y, x>> \in R)
  BY <1>2, WFMin
<1>4. \A x, y \in S : ~(<<y, x>> \in R) => x <= y
  <2>1. \A x, y \in S : ~(<<y, x>> \in R) => ~(y < x)
    BY <1>2, Zenon
  <2> QED
    BY <2>1
<1> QED
  BY <1>3, <1>4, Zenon

(* f sums up the bytes of s: a record has a header and its text.           *)
Sums(f, s) ==
  /\ f \in [0 .. Len(s) -> Int] /\ f[0] = 0
  /\ \A k \in 1 .. Len(s) : f[k] = f[k - 1] + Header + s[k].len

(* s_used is the bytes of the queued records (host_vita_log_async.c).      *)
UsedInv == \E f : Sums(f, ring) /\ used = f[Len(ring)]

(* The text of a record has a length.                                      *)
LEMMA RecordLen == \A r \in Record : r.len \in Int
  <1>1. \A r \in Record : r.len \in Lengths
    BY DEF Record
  <1>2. Lengths \subseteq Int
    BY LogAsyncAssumption
  <1> QED BY <1>1, <1>2

(* The bytes a batch takes from the ring are those of its records.         *)
LEMMA BytesAre ==
  ASSUME IInv, NEW f, Sums(f, ring), NEW n \in 0 .. Len(ring)
  PROVE  Bytes(n) = f[n]
  <1> DEFINE m == [k \in Int |-> k * Header]
             p == [k \in 0 .. Len(ring) |-> f[k] - m[k]]
  <1>0. /\ Len(ring) \in Nat /\ Header \in Int
        /\ \A k \in 1 .. Len(ring) : ring[k].len \in Int
    <2>1. ring \in Seq(Record) /\ Header \in Int
      BY LogAsyncAssumption DEF IInv, Typed
    <2>2. \A k \in 1 .. Len(ring) : ring[k] \in Record
      BY <2>1, ElementOfSeq
    <2> QED BY <2>1, <2>2, RecordLen, LenProperties
  <1>m. m[0] = 0 /\ \A k \in Int : m[k] \in Int /\ m[k - 1] = m[k] - Header
    <2>1. Header \in Int
      BY <1>0
    <2>2. /\ 0 * Header = 0
          /\ \A k \in Int : k * Header \in Int /\ (k - 1) * Header = k * Header - Header
      BY <2>1
    <2>3. m[0] = 0 * Header
      OBVIOUS
    <2>4. ASSUME NEW k \in Int PROVE m[k] \in Int /\ m[k - 1] = m[k] - Header
      <3>1. m[k] = k * Header /\ m[k - 1] = (k - 1) * Header
        OBVIOUS
      <3> HIDE DEF m
      <3> QED BY <2>2, <3>1
    <2> QED BY <2>2, <2>3, <2>4
  <1>s. f \in [0 .. Len(ring) -> Int] /\ f[0] = 0
    BY DEF Sums
  <1> HIDE DEF m
  <1>1. /\ p \in [0 .. Len(ring) -> Int] /\ p[0] = 0
        /\ \A k \in 1 .. Len(ring) : p[k] = p[k - 1] + ring[k].len
    <2>1. ASSUME NEW k \in 1 .. Len(ring) PROVE p[k] = p[k - 1] + ring[k].len
      <3>1. k \in 0 .. Len(ring) /\ k - 1 \in 0 .. Len(ring) /\ k \in Int
        BY <1>0
      <3>2. f[k] \in Int /\ f[k - 1] \in Int /\ f[k] = f[k - 1] + Header + ring[k].len
        BY <3>1 DEF Sums
      <3>3. p[k] = f[k] - m[k] /\ p[k - 1] = f[k - 1] - m[k - 1]
        BY <3>1
      <3> DEFINE a == f[k]
                 b == f[k - 1]
                 c == m[k]
                 e == m[k - 1]
                 d == ring[k].len
      <3>4. a = b + Header + d /\ p[k] = a - c /\ p[k - 1] = b - e /\ e = c - Header
        BY <1>m, <3>1, <3>2, <3>3
      <3>5. a \in Int /\ b \in Int /\ c \in Int /\ d \in Int /\ Header \in Int
        BY <1>0, <1>m, <3>1, <3>2
      <3> HIDE DEF a, b, c, d, e, p
      <3>6. p[k] = p[k - 1] + d
        BY <3>4, <3>5
      <3> QED BY <3>6 DEF d
    <2>2. \A k \in 0 .. Len(ring) : f[k] - m[k] \in Int
      <3>1. ASSUME NEW k \in 0 .. Len(ring) PROVE f[k] - m[k] \in Int
        <4>0. k \in Int
          BY <1>0
        <4>1. f[k] \in Int /\ m[k] \in Int
          BY <1>s, <1>m, <4>0
        <4> QED BY <4>1
      <3> QED BY <3>1
    <2>3. p[0] = 0
      <3>1. p[0] = f[0] - m[0]
        BY <1>0
      <3> QED BY <1>s, <1>m, <3>1
    <2> QED BY <2>1, <2>2, <2>3
  <1> HIDE DEF p
  <1>2. p = [k \in 0 .. Len(ring) |-> IF k = 0 THEN 0 ELSE p[k - 1] + ring[k].len]
    <2>1. \A k \in 0 .. Len(ring) : k # 0 => k \in 1 .. Len(ring)
      BY <1>0
    <2>2. \A k \in 0 .. Len(ring) : p[k] = IF k = 0 THEN 0 ELSE p[k - 1] + ring[k].len
      BY <1>1, <2>1
    <2> QED BY <1>1, <2>2
  <1>3. Payload = [k \in 0 .. Len(ring) |-> IF k = 0 THEN 0 ELSE Payload[k - 1] + ring[k].len]
    BY <1>2, Zenon DEF Payload
  <1>4. /\ \A k \in 0 .. Len(ring) :
             Payload[k] = IF k = 0 THEN 0 ELSE Payload[k - 1] + ring[k].len
    BY <1>3, Zenon
  <1> DEFINE S == {k \in 0 .. Len(ring) : Payload[k] # p[k]}
  <1>5. S = {}
    <2> SUFFICES ASSUME S # {} PROVE FALSE
      OBVIOUS
    <2>1. S \subseteq Nat
      BY <1>0
    <2>2. PICK x \in S : \A y \in S : x <= y
      <3> HIDE DEF S
      <3> QED BY <2>1, LeastElement
    <2>3. x \in 0 .. Len(ring) /\ Payload[x] # p[x] /\ x # 0
      BY <1>0, <1>1, <1>4, <2>2
    <2>4. x \in 1 .. Len(ring) /\ x - 1 \in 0 .. Len(ring) /\ ~(x <= x - 1)
      BY <1>0, <2>3
    <2>5. Payload[x - 1] = p[x - 1]
      BY <2>2, <2>4
    <2>6. Payload[x] = Payload[x - 1] + ring[x].len
      BY <1>4, <2>3
    <2> QED BY <1>1, <2>3, <2>4, <2>5, <2>6
  <1>6. Payload[n] = p[n] /\ p[n] = f[n] - m[n]
    BY <1>5 DEF p
  <1>7. f[n] \in Int /\ m[n] \in Int
    <2>1. n \in Int
      BY <1>0
    <2> QED BY <1>s, <1>m, <2>1
  <1>8. Bytes(n) = Payload[n] + m[n]
    BY <1>0 DEF Bytes, m
  <1> DEFINE a == f[n]
             c == m[n]
  <1>9. Bytes(n) = (a - c) + c /\ a \in Int /\ c \in Int
    BY <1>6, <1>7, <1>8
  <1> HIDE DEF a, c
  <1>10. Bytes(n) = a
    BY <1>9
  <1> QED BY <1>10 DEF a

(* A prefix of the ring is taken with its bytes.                           *)
LEMMA CutBytes ==
  ASSUME IInv, NEW f, Sums(f, ring), used = f[Len(ring)], NEW k \in 0 .. Len(ring),
         ring' = SubSeq(ring, k + 1, Len(ring)), used' = used - f[k]
  PROVE  UsedInv'
  <1> DEFINE g == [j \in 0 .. Len(ring) - k |-> f[k + j] - f[k]]
  <1>0. Len(ring) \in Nat /\ Header \in Nat /\ ring \in Seq(Record)
    BY LenProperties, LogAsyncAssumption DEF IInv, Typed
  <1>1. Len(ring') = Len(ring) - k /\ \A i \in 1 .. Len(ring) - k : ring'[i] = ring[k + i]
    <2>1. \A i \in k + 1 .. Len(ring) : ring[i] \in Record
      BY <1>0, ElementOfSeq
    <2>2. /\ Len(ring') = IF k + 1 <= Len(ring) THEN Len(ring) - (k + 1) + 1 ELSE 0
          /\ \A i \in 1 .. Len(ring) - (k + 1) + 1 : ring'[i] = ring[(k + 1) + i - 1]
      BY <1>0, <2>1, SubSeqProperties
    <2> QED BY <1>0, <2>2
  <1>2. \A j \in 0 .. Len(ring) : f[j] \in Int
    BY DEF Sums
  <1>3. g \in [0 .. Len(ring) - k -> Int] /\ g[0] = 0
    BY <1>0, <1>2
  <1>4. ASSUME NEW j \in 1 .. Len(ring) - k PROVE g[j] = g[j - 1] + Header + ring'[j].len
    <2>1. f[k + j] = f[k + j - 1] + Header + ring[k + j].len
      BY <1>0 DEF Sums
    <2>2. g[j] = f[k + j] - f[k] /\ g[j - 1] = f[k + j - 1] - f[k] /\ ring'[j] = ring[k + j]
      BY <1>0, <1>1
    <2>3. ring[k + j].len \in Int
      <3>1. ring[k + j] \in Record
        BY <1>0, ElementOfSeq
      <3> QED BY <3>1, RecordLen
    <2>4. f[k + j] \in Int /\ f[k + j - 1] \in Int /\ f[k] \in Int
      BY <1>0, <1>2
    <2> DEFINE a == f[k + j]
               b == f[k + j - 1]
               c == f[k]
               d == ring[k + j].len
    <2>5. a = b + Header + d /\ g[j] = a - c /\ g[j - 1] = b - c /\ ring'[j].len = d
      BY <2>1, <2>2
    <2>6. a \in Int /\ b \in Int /\ c \in Int /\ d \in Int /\ Header \in Int
      BY <1>0, <2>3, <2>4
    <2> HIDE DEF a, b, c, d, g
    <2> QED BY <2>5, <2>6
  <1>5. used' = g[Len(ring) - k]
    BY <1>0, <1>2
  <1> HIDE DEF g
  <1>6. Sums(g, ring') /\ used' = g[Len(ring')]
    BY <1>1, <1>3, <1>4, <1>5 DEF Sums
  <1> QED BY <1>6 DEF UsedInv, Sums

(* Every step keeps the sum.                                               *)
LEMMA UsedStep == ASSUME IInv, UsedInv, [Next]_vars PROVE UsedInv'
  <1>0. Len(ring) \in Nat /\ Header \in Nat /\ ring \in Seq(Record)
    BY LenProperties, LogAsyncAssumption DEF IInv, Typed
  <1>f. PICK f : Sums(f, ring) /\ used = f[Len(ring)]
    BY DEF UsedInv
  <1>1. ASSUME NEW t \in Producers, Enqueue(t) PROVE UsedInv'
    <2> DEFINE r == [line |-> Line(t), sink |-> call[t].kind, len |-> call[t].len]
               g == [k \in 0 .. Len(ring) + 1 |->
                       IF k <= Len(ring) THEN f[k] ELSE f[Len(ring)] + Header + r.len]
    <2>1. r \in Record /\ r.len \in Int
      <3>1. r \in Record
        BY <1>1, LineType DEF Enqueue, Pending, IInv, PlaceInv, Record
      <3> QED BY <3>1, RecordLen
    <2>2. ring' = Append(ring, r) /\ used' = used + Header + r.len
      BY <1>1 DEF Enqueue
    <2> HIDE DEF r
    <2>3. /\ Len(ring') = Len(ring) + 1 /\ ring'[Len(ring) + 1] = r
          /\ \A k \in 1 .. Len(ring) : ring'[k] = ring[k]
      BY <1>0, <2>1, <2>2, AppendProperties
    <2>4. \A k \in 0 .. Len(ring) : f[k] \in Int
      BY <1>f DEF Sums
    <2>5. g \in [0 .. Len(ring) + 1 -> Int] /\ g[0] = 0
      BY <1>0, <1>f, <2>1, <2>4 DEF Sums
    <2>6. ASSUME NEW k \in 1 .. Len(ring) + 1 PROVE g[k] = g[k - 1] + Header + ring'[k].len
      <3>1. CASE k \in 1 .. Len(ring)
        BY <1>0, <1>f, <2>3, <3>1 DEF Sums
      <3>2. CASE k = Len(ring) + 1
        BY <1>0, <2>3, <3>2
      <3> QED BY <1>0, <3>1, <3>2
    <2>7. used' = g[Len(ring) + 1]
      BY <1>0, <1>f, <2>2
    <2> HIDE DEF g
    <2>8. Sums(g, ring') /\ used' = g[Len(ring')]
      BY <2>3, <2>5, <2>6, <2>7 DEF Sums
    <2> QED BY <2>8 DEF UsedInv, Sums
  <1>2. ASSUME NEW t \in Threads, Pop(t) PROVE UsedInv'
    <2>1. ring # <<>> /\ ring' = Tail(ring) /\ used' = used - (Header + Head(ring).len)
      BY <1>2 DEF Pop
    <2>2. 1 \in 0 .. Len(ring) /\ 1 \in 1 .. Len(ring) /\ ring' = SubSeq(ring, 1 + 1, Len(ring))
      BY <1>0, <2>1, EmptySeq, TailIsSubSeq
    <2>3. Head(ring) = ring[1] /\ Head(ring).len \in Int
      <3>1. Head(ring) \in Record
        BY <1>0, <2>1, HeadTailProperties
      <3>2. Head(ring) = ring[1]
        BY DEF Head
      <3> QED BY <3>1, <3>2, RecordLen
    <2>4. f[1] = Header + Head(ring).len
      BY <1>0, <1>f, <2>2, <2>3 DEF Sums
    <2>5. used' = used - f[1]
      BY <2>1, <2>4
    <2> QED BY <1>f, <2>2, <2>5, CutBytes
  <1>3. ASSUME NEW t \in Threads, Group(t) PROVE UsedInv'
    <2>1. PICK k \in 0 .. Len(ring) :
            ring' = SubSeq(ring, k + 1, Len(ring)) /\ used' = used - Bytes(k)
      BY <1>3 DEF Group
    <2>2. used' = used - f[k]
      BY <1>f, <2>1, BytesAre
    <2> QED BY <1>f, <2>1, <2>2, CutBytes
  <1>4. ASSUME ring' = ring, used' = used PROVE UsedInv'
    BY <1>f, <1>4 DEF UsedInv, Sums
  <1>5. ASSUME NEW t \in Producers,
               \/ Exit(t) \/ EnqueueDrops(t) \/ EnqueueNotStarted(t) \/ Wake(t)
               \/ WriteSync(t) \/ ExitProcess(t)
        PROVE  UsedInv'
    BY <1>4, <1>5 DEF Exit, EnqueueDrops, EnqueueNotStarted, Wake, WriteSync, ExitProcess, ringVars
  <1>6. ASSUME NEW t \in Threads,
               \/ SinkLock(t) \/ SinkLockTimeout(t) \/ Sink(t) \/ ReportMidway(t)
               \/ FinishDrain(t)
        PROVE  UsedInv'
    BY <1>4, <1>6 DEF SinkLock, SinkLockTimeout, Sink, ReportMidway, FinishDrain, ringVars
  <1>7. CASE Start \/ SecondPasses \/ LoggerWoken \/ LoggerTimeout \/ UNCHANGED vars
    BY <1>4, <1>7 DEF Start, SecondPasses, LoggerWoken, LoggerTimeout, vars, ringVars
  <1>8. ASSUME NEW t \in Producers, NEW kind \in {"file", "printf"}, NEW len \in Lengths,
               Log(t, kind, len)
        PROVE  UsedInv'
    BY <1>4, <1>8 DEF Log, ringVars
  <1> QED BY <1>1, <1>2, <1>3, <1>5, <1>6, <1>7, <1>8, StepsOf

(* NoLostWake keeps itself, given that a ring in use is not empty: only    *)
(* the put that finds it empty has to wake the logger.                     *)
LEMMA WakeStep == ASSUME IInv, UsedInv, NoLostWake, [Next]_vars PROVE NoLostWake'
  <1>0. /\ pc \in [Threads -> Places] /\ Logger \in Threads /\ Logger \notin Producers
        /\ Producers \subseteq Threads /\ Main \in Producers
        /\ used # 0 => ring # <<>>
    <2>1. ring = <<>> => used = 0
      BY EmptySeq DEF UsedInv, Sums
    <2> QED BY <2>1, LogAsyncAssumption DEF IInv, Typed, Control, Threads
  <1> USE DEF NoLostWake, Goto, Return, ringVars
  <1>1. CASE Start \/ SecondPasses \/ LoggerWoken \/ LoggerTimeout \/ UNCHANGED vars
    BY <1>0, <1>1 DEF Start, SecondPasses, LoggerWoken, LoggerTimeout, vars
  <1>2. ASSUME NEW t \in Producers, NEW kind \in {"file", "printf"}, NEW len \in Lengths,
               Log(t, kind, len)
        PROVE  NoLostWake'
    BY <1>0, <1>2 DEF Log
  <1>3. ASSUME NEW t \in Producers, Exit(t) PROVE NoLostWake'
    BY <1>0, <1>3 DEF Exit
  <1>4. ASSUME NEW t \in Producers, Enqueue(t) PROVE NoLostWake'
    <2>1. pc[t] = "enqueue" /\ wake' = wake
      BY <1>4 DEF Enqueue
    <2>2. CASE used = 0
      <3>1. pc' = [pc EXCEPT ![t] = "wake"]
        BY <1>4, <2>2 DEF Enqueue
      <3> QED BY <1>0, <3>1
    <2>3. CASE used # 0
      <3>1. pc' = [pc EXCEPT ![t] = "idle"] /\ ring # <<>>
        BY <1>0, <1>4, <2>3 DEF Enqueue
      <3> QED BY <1>0, <2>1, <3>1
    <2> QED BY <2>2, <2>3
  <1>5. ASSUME NEW t \in Producers, EnqueueDrops(t) \/ EnqueueNotStarted(t) \/ WriteSync(t)
        PROVE  NoLostWake'
    BY <1>0, <1>5 DEF EnqueueDrops, EnqueueNotStarted, WriteSync
  <1>6. ASSUME NEW t \in Producers, Wake(t) \/ ExitProcess(t) PROVE NoLostWake'
    BY <1>0, <1>6 DEF Wake, ExitProcess
  <1>7. ASSUME NEW t \in Threads, SinkLock(t) \/ SinkLockTimeout(t) \/ ReportMidway(t) \/ Sink(t)
        PROVE  NoLostWake'
    BY <1>0, <1>7 DEF SinkLock, SinkLockTimeout, ReportMidway, Sink, Threads
  <1>8. ASSUME NEW t \in Threads, Pop(t) \/ Group(t) PROVE NoLostWake'
    BY <1>0, <1>8 DEF Pop, Group, Threads
  <1>9. ASSUME NEW t \in Threads, FinishDrain(t) PROVE NoLostWake'
    BY <1>0, <1>9 DEF FinishDrain, Threads
  <1> QED BY <1>1, <1>2, <1>3, <1>4, <1>5, <1>6, <1>7, <1>8, <1>9, StepsOf

(* NoLostWake, without any timed wake-up of the logger: while it waits on  *)
(* queued lines, its wake bit is set or a producer is about to set it or   *)
(* drains the ring itself.                                                 *)
THEOREM WakesAreEnough == Spec => []NoLostWake
  <1>1. ASSUME Init PROVE UsedInv /\ NoLostWake
    <2>1. ring = <<>> /\ used = 0
      BY <1>1 DEF Init
    <2> DEFINE g == [k \in 0 .. 0 |-> 0]
    <2>2. Sums(g, ring) /\ used = g[Len(ring)]
      BY <2>1, EmptySeq DEF Sums
    <2> QED BY <2>1, <2>2 DEF UsedInv, NoLostWake
  <1>2. ASSUME IInv, UsedInv /\ NoLostWake, [Next]_vars PROVE (UsedInv /\ NoLostWake)'
    BY <1>2, UsedStep, WakeStep
  <1> QED BY <1>1, <1>2, Invariance, PTL DEF Spec

-----------------------------------------------------------------------------
(* The ring, the hands and the direct writes as one queue                  *)

(* Three queues are joined in either order.                                *)
LEMMA Associates ==
  ASSUME NEW a \in Seq(Record), NEW b \in Seq(Record), NEW c \in Seq(Record)
  PROVE  (a \o b) \o c = a \o (b \o c)
  BY ConcatAssociative

(* The lines of a queue with one more record are one more line.            *)
LEMMA NamesPut ==
  ASSUME NEW s \in Seq(Record), NEW r \in Record
  PROVE  Names(Append(s, r)) = Append(Names(s), r.line)
  <1> DEFINE a == Names(Append(s, r))
             b == Append(Names(s), r.line)
  <1>1. /\ Len(s) \in Nat /\ Append(s, r) \in Seq(Record) /\ Len(Append(s, r)) = Len(s) + 1
        /\ \A i \in 1 .. Len(s) : Append(s, r)[i] = s[i]
        /\ Append(s, r)[Len(s) + 1] = r
    BY AppendProperties, LenProperties
  <1>2. /\ a \in Seq(Lines) /\ Len(a) = Len(s) + 1
        /\ \A i \in 1 .. Len(s) + 1 : a[i] = Append(s, r)[i].line
    BY <1>1, NamesAre
  <1>3. r.line \in Lines
    BY DEF Record
  <1>4. /\ Names(s) \in Seq(Lines) /\ Len(Names(s)) = Len(s)
        /\ \A i \in 1 .. Len(s) : Names(s)[i] = s[i].line
    BY NamesAre
  <1>5. /\ b \in Seq(Lines) /\ Len(b) = Len(s) + 1 /\ b[Len(s) + 1] = r.line
        /\ \A i \in 1 .. Len(s) : b[i] = s[i].line
    BY <1>3, <1>4, AppendProperties
  <1>6. \A i \in 1 .. Len(a) : a[i] = b[i]
    BY <1>1, <1>2, <1>5
  <1> HIDE DEF a, b
  <1>7. a = b
    BY <1>2, <1>5, <1>6, SeqEqual
  <1> QED BY <1>7 DEF a, b

(* The lines of a hand and then of the ring, cut where the hand ends.      *)
LEMMA NamesCut ==
  ASSUME NEW h \in Seq(Record), NEW s \in Seq(Record)
  PROVE  LET q == Names(h \o s)
         IN  /\ q \in Seq(Lines) /\ Len(q) = Len(h) + Len(s)
             /\ SubSeq(q, 1, Len(h)) = Names(h)
             /\ SubSeq(q, Len(h) + 1, Len(q)) = Names(s)
  <1> DEFINE q == Names(h \o s)
             a == SubSeq(q, 1, Len(h))
             b == SubSeq(q, Len(h) + 1, Len(q))
  <1>1. /\ Len(h) \in Nat /\ Len(s) \in Nat /\ h \o s \in Seq(Record)
        /\ Len(h \o s) = Len(h) + Len(s)
        /\ \A i \in 1 .. Len(h) + Len(s) :
             (h \o s)[i] = IF i <= Len(h) THEN h[i] ELSE s[i - Len(h)]
    BY ConcatProperties, LenProperties
  <1>2. /\ q \in Seq(Lines) /\ Len(q) = Len(h) + Len(s)
        /\ \A i \in 1 .. Len(h) + Len(s) : q[i] = (h \o s)[i].line /\ q[i] \in Lines
    BY <1>1, NamesAre, ElementOfSeq
  <1>3. /\ \A i \in 1 .. Len(h) : q[i] = h[i].line
        /\ \A i \in 1 .. Len(s) : q[Len(h) + i] = s[i].line
    <2>1. \A i \in 1 .. Len(h) : q[i] = h[i].line
      <3>1. \A i \in 1 .. Len(h) : (h \o s)[i] = h[i] /\ i \in 1 .. Len(h) + Len(s)
        BY <1>1
      <3> QED BY <1>2, <3>1
    <2>2. \A i \in 1 .. Len(s) : q[Len(h) + i] = s[i].line
      <3>1. \A i \in 1 .. Len(s) : /\ (h \o s)[Len(h) + i] = s[i]
                                    /\ Len(h) + i \in 1 .. Len(h) + Len(s)
        BY <1>1
      <3> QED BY <1>2, <3>1
    <2> QED BY <2>1, <2>2
  <1>4. /\ Names(h) \in Seq(Lines) /\ Len(Names(h)) = Len(h)
        /\ \A i \in 1 .. Len(h) : Names(h)[i] = h[i].line
        /\ Names(s) \in Seq(Lines) /\ Len(Names(s)) = Len(s)
        /\ \A i \in 1 .. Len(s) : Names(s)[i] = s[i].line
    BY NamesAre
  <1> HIDE DEF q
  <1>5. a = Names(h)
    <2>1. a \in Seq(Lines) /\ Len(a) = Len(h) /\ \A i \in 1 .. Len(h) : a[i] = q[i]
      <3>1. \A i \in 1 .. Len(h) : q[i] \in Lines
        BY <1>1, <1>2
      <3> QED BY <1>1, <3>1, SubSeqProperties
    <2> HIDE DEF a
    <2>2. \A i \in 1 .. Len(a) : a[i] = Names(h)[i]
      BY <1>3, <1>4, <2>1
    <2> QED BY <1>4, <2>1, <2>2, SeqEqual
  <1>6. b = Names(s)
    <2>1. b \in Seq(Lines) /\ Len(b) = Len(s) /\ \A i \in 1 .. Len(s) : b[i] = q[Len(h) + i]
      <3>1. \A i \in Len(h) + 1 .. Len(q) : q[i] \in Lines
        BY <1>1, <1>2
      <3>2. /\ b \in Seq(Lines)
            /\ Len(b) = IF Len(h) + 1 <= Len(q) THEN Len(q) - (Len(h) + 1) + 1 ELSE 0
            /\ \A i \in 1 .. Len(q) - (Len(h) + 1) + 1 : b[i] = q[(Len(h) + 1) + i - 1]
        BY <1>1, <1>2, <3>1, SubSeqProperties
      <3> QED BY <1>1, <1>2, <3>2
    <2> HIDE DEF b
    <2>2. \A i \in 1 .. Len(b) : b[i] = Names(s)[i]
      BY <1>3, <1>4, <2>1
    <2> QED BY <1>4, <2>1, <2>2, SeqEqual
  <1> QED BY <1>2, <1>5, <1>6 DEF q

(* What the refinement calls the queue                                     *)
Held   == IF sinkLock = Nobody THEN ring ELSE hand[sinkLock] \o ring
Queued == IF sinkLock = Nobody THEN Names(ring) ELSE Names(hand[sinkLock] \o ring)

(* It is the lines of a sequence of records, all of them queued or held.   *)
LEMMA HeldIs ==
  ASSUME IInv
  PROVE  /\ Queued = Names(Held) /\ Held \in Seq(Record)
         /\ LinesOf(Held) =
               LinesOf(ring) \cup IF sinkLock = Nobody THEN {} ELSE LinesOf(hand[sinkLock])
  BY JoinLines DEF IInv, Typed, Control, Held, Queued

(* A line put into the ring is put at the end of the queue.                *)
LEMMA PutStep ==
  ASSUME IInv, NEW t \in Threads, Puts(t)
  PROVE  Queued' = Append(Queued, Line(t)) /\ out' = out /\ Line(t) \in Lines
  <1>1. PICK r \in Record : r.line = Line(t) /\ ring' = Append(ring, r)
    BY DEF Puts
  <1>2. /\ ring \in Seq(Record) /\ Line(t) \in Lines
        /\ hand' = hand /\ sinkLock' = sinkLock /\ out' = out
    BY LineType DEF IInv, Typed, Puts, Pending
  <1>3. CASE sinkLock = Nobody
    BY <1>1, <1>2, <1>3, NamesPut DEF Queued
  <1>4. CASE sinkLock # Nobody
    <2>1. hand[sinkLock] \in Seq(Record) /\ hand[sinkLock] \o ring \in Seq(Record)
      BY <1>4, JoinLines DEF IInv, Typed, Control
    <2>2. hand[sinkLock] \o Append(ring, r) = Append(hand[sinkLock] \o ring, r)
      <3>1. <<r>> \in Seq(Record)
        OBVIOUS
      <3>2. Append(ring, r) = ring \o <<r>>
        BY <1>2, AppendIsConcat
      <3>3. Append(hand[sinkLock] \o ring, r) = (hand[sinkLock] \o ring) \o <<r>>
        BY <2>1, AppendIsConcat
      <3>4. (hand[sinkLock] \o ring) \o <<r>> = hand[sinkLock] \o (ring \o <<r>>)
        BY <1>2, <2>1, <3>1, Associates
      <3> QED BY <3>2, <3>3, <3>4
    <2> QED BY <1>1, <1>2, <1>4, <2>1, <2>2, NamesPut DEF Queued
  <1> QED BY <1>2, <1>3, <1>4

(* Lines that go from the ring into the hand of the drainer stay in the    *)
(* queue.                                                                  *)
LEMMA TakeStep ==
  ASSUME IInv, ~late, NEW t \in Threads, Takes(t)
  PROVE  Queued' = Queued /\ out' = out
  <1>1. /\ sinkLock = t /\ sinkLock' = t /\ t # Nobody /\ out' = out
        /\ ring \in Seq(Record) /\ hand \in [Threads -> Seq(Record)] /\ hand[t] \in Seq(Record)
    BY LogAsyncAssumption DEF IInv, Typed, LockInv, Draining, Takes
  <1>2. PICK k \in 0 .. Len(ring) :
          /\ hand' = [hand EXCEPT ![t] = hand[t] \o SubSeq(ring, 1, k)]
          /\ ring' = SubSeq(ring, k + 1, Len(ring))
    BY DEF Takes
  <1>3. /\ SubSeq(ring, 1, k) \in Seq(Record) /\ ring' \in Seq(Record)
        /\ SubSeq(ring, 1, k) \o ring' = ring
    BY <1>1, <1>2, CutLines
  <1>4. hand'[t] = hand[t] \o SubSeq(ring, 1, k)
    BY <1>1, <1>2
  <1>5. hand'[t] \o ring' = hand[t] \o ring
    <2>1. (hand[t] \o SubSeq(ring, 1, k)) \o ring' = hand[t] \o (SubSeq(ring, 1, k) \o ring')
      BY <1>1, <1>3, Associates
    <2> QED BY <1>3, <1>4, <2>1
  <1> QED BY <1>1, <1>5 DEF Queued

(* What the drainer writes are the oldest lines of the queue.              *)
LEMMA SinkStep ==
  ASSUME IInv, ~late, NEW t \in Threads, Writes(t)
  PROVE  \E k \in 1 .. Len(Queued) : /\ out' = out \o SubSeq(Queued, 1, k)
                                     /\ Queued' = SubSeq(Queued, k + 1, Len(Queued))
  <1>1. /\ sinkLock = t /\ sinkLock' = t /\ t # Nobody /\ ring' = ring
        /\ ring \in Seq(Record) /\ hand \in [Threads -> Seq(Record)] /\ hand[t] \in Seq(Record)
        /\ hand[t] # <<>> /\ out' = out \o Names(hand[t]) /\ hand'[t] = <<>>
    BY LogAsyncAssumption DEF IInv, Typed, HandInv, LockInv, Draining, Writes
  <1>2. Queued = Names(hand[t] \o ring)
    BY <1>1 DEF Queued
  <1>3. Queued' = Names(ring)
    <2>1. <<>> \o ring = ring
      BY <1>1, ConcatEmptySeq
    <2> QED BY <1>1, <2>1 DEF Queued
  <1>4. /\ Len(Queued) = Len(hand[t]) + Len(ring)
        /\ SubSeq(Queued, 1, Len(hand[t])) = Names(hand[t])
        /\ SubSeq(Queued, Len(hand[t]) + 1, Len(Queued)) = Names(ring)
    BY <1>1, <1>2, NamesCut
  <1>5. Len(hand[t]) \in 1 .. Len(Queued)
    BY <1>1, <1>4, EmptySeq, LenProperties
  <1> QED BY <1>1, <1>3, <1>4, <1>5

(* A line written directly overtakes none of its thread's in the queue.    *)
LEMMA DirectStep ==
  ASSUME IInv, ~late, NEW t \in Threads, WritesOwn(t)
  PROVE  /\ Line(t) \in Lines /\ Queued' = Queued /\ out' = Append(out, Line(t))
         /\ \A i \in 1 .. Len(Queued) : Queued[i][1] # Line(t)[1]
  <1>1. /\ Line(t) \in Lines /\ out' = Append(out, Line(t)) /\ Line(t)[1] = t
        /\ ring' = ring /\ hand' = hand /\ sinkLock' = sinkLock
    BY LineType DEF WritesOwn, Pending, Line
  <1>2. Queued' = Queued
    BY <1>1 DEF Queued
  <1>3. Flushed(t)
    BY DEF IInv, LockInv, WritesOwn
  <1>4. ASSUME NEW l \in LinesOf(Held) PROVE l[1] # t
    <2>1. l \in Members(accepted) /\ l \notin Members(out)
      BY HeldIs DEF IInv, Typed, Control, CopyInv
    <2> QED BY <1>3, <2>1 DEF Flushed
  <1>5. ASSUME NEW i \in 1 .. Len(Queued) PROVE Queued[i] \in LinesOf(Held)
    BY HeldIs, NamesAre DEF LinesOf
  <1> QED BY <1>1, <1>2, <1>4, <1>5

(* With an empty hand the queue is the ring, locked or not.                *)
LEMMA KeepStep ==
  ASSUME IInv, ~late, Keeps PROVE Queued' = Queued /\ out' = out
  <1>1. /\ ring' = ring /\ hand' = hand /\ out' = out /\ ring \in Seq(Record)
        /\ Nobody \notin Threads
    BY LogAsyncAssumption DEF Keeps, lines, IInv, Typed
  <1>2. CASE sinkLock' = sinkLock
    BY <1>1, <1>2 DEF Queued
  <1>3. ASSUME NEW t \in Threads, pc[t] \in {"lock", "pop"},
               \/ sinkLock = Nobody /\ sinkLock' = t
               \/ sinkLock = t /\ sinkLock' = Nobody
        PROVE  Queued' = Queued
    <2>1. hand[t] = <<>>
      BY <1>3 DEF IInv, HandInv
    <2>2. <<>> \o ring = ring
      BY <1>1, ConcatEmptySeq
    <2> QED BY <1>1, <1>3, <2>1, <2>2 DEF Queued
  <1> QED BY <1>1, <1>2, <1>3 DEF Keeps

(* LogQueueSpec: until a drainer goes on without the lock, the log is one  *)
(* first-in first-out queue, and a direct write overtakes nothing of its   *)
(* own thread.                                                             *)
THEOREM Implements == Spec => LogQueueSpec
  <1>1. ASSUME Init PROVE Queue!Init
    <2>1. /\ Names(<<>>) \in Seq(Lines) /\ Len(Names(<<>>)) = 0
      BY NoLines, NamesAre, EmptySeq
    <2>2. Names(<<>>) = <<>>
      BY <2>1, EmptySeq
    <2> QED BY <1>1, <2>2 DEF Init, Queue!Init
  <1>2. ASSUME IInv, [Next]_vars PROVE late' \/ [Queue!Next]_Queue!vars
    <2> SUFFICES ASSUME ~late' PROVE [Queue!Next]_Queue!vars
      OBVIOUS
    <2>0. ~late
      BY <1>2, MovesStep DEF Moves
    <2>1. ASSUME NEW t \in Threads, Puts(t) PROVE \E l \in Lines : Queue!Accept(l)
      BY <1>2, <2>1, PutStep DEF Queue!Accept, Queued
    <2>2. ASSUME NEW t \in Threads, Takes(t) PROVE UNCHANGED Queue!vars
      BY <1>2, <2>0, <2>2, TakeStep DEF Queue!vars, Queued
    <2>3. ASSUME NEW t \in Threads, Writes(t)
          PROVE  \E k \in 1 .. Len(Queued) : Queue!Write(k)
      BY <1>2, <2>0, <2>3, SinkStep DEF Queue!Write, Queued
    <2>4. ASSUME NEW t \in Threads, WritesOwn(t) PROVE \E l \in Lines : Queue!Direct(l)
      BY <1>2, <2>0, <2>4, DirectStep DEF Queue!Direct, Queued
    <2>5. CASE Keeps
      BY <1>2, <2>0, <2>5, KeepStep DEF Queue!vars, Queued
    <2> QED BY <1>2, <2>1, <2>2, <2>3, <2>4, <2>5, StepKinds DEF Queue!Next, Queued
  <1> QED BY <1>1, <1>2, Invariance, PTL DEF Spec, LogQueueSpec
=============================================================================
