------------------------------ MODULE LogAsync ------------------------------
(***************************************************************************)
(* The asynchronous logger (host_vita_log_async.c): producer threads put   *)
(* whole lines into one bounded byte ring; one logger thread, and any      *)
(* thread that flushes, drains it.  The ring lock makes a critical section *)
(* one action; the sink lock is a variable, because it is held across      *)
(* steps and a drainer that waited 500 ms for it goes on without it.       *)
(***************************************************************************)
EXTENDS Integers, Sequences, FiniteSets

CONSTANTS
  Producers,      \* threads that log; any of them may exit or abort the process
  Main,           \* the producer that boots the program
  Logger,         \* the logger thread
  Nobody,         \* the free sink lock
  RingBytes,      \* ISAAC_VITA_LOG_ASYNC_RING_BYTES
  Header,         \* ISAAC_VITA_LOG_ASYNC_HEADER_BYTES
  LineMax,        \* ISAAC_VITA_LOG_ASYNC_LINE_MAX; a printf of more is over-long
  Lengths,        \* the line lengths that occur
  BatchRecords,   \* ISAAC_VITA_LOG_ASYNC_FILE_BATCH_RECORDS; 1: no FILE_BATCH
  BatchBytes,     \* ISAAC_VITA_LOG_ASYNC_FILE_BATCH_BYTES
  ReportEvery,    \* 64: lines between two looks at the drop count
  MaxLines,       \* bound: lines each producer logs
  LockTimesOut,   \* TRUE: a sink may be slow enough for the 500 ms to pass
  TimedWake,      \* TRUE: the logger's wait ends after 1 s, too
  StartMayFail    \* TRUE: a kernel call of isaac_vita_log_async_start fails

Threads == Producers \cup {Logger}

ASSUME LogAsyncAssumption ==
  /\ Main \in Producers /\ Logger \notin Producers /\ Nobody \notin Threads
  /\ RingBytes \in Nat /\ Header \in Nat /\ LineMax \in Nat /\ MaxLines \in Nat
  /\ Lengths \subseteq Nat \ {0}
  /\ BatchRecords \in Nat \ {0} /\ BatchBytes \in Nat /\ ReportEvery \in Nat \ {0}
  /\ LineMax <= BatchBytes /\ RingBytes >= 2 * (Header + LineMax)

VARIABLES
  ring,       \* queued lines, oldest first
  used,       \* s_used
  started,    \* s_started
  booted,     \* isaac_vita_log_reset has tried to start the logger
  dropped,    \* s_dropped
  reported,   \* s_dropped_reported
  told,       \* history: the count in the last drop report written
  recent,     \* the last drop report is less than 1 s old
  sinkLock,   \* holder of s_sink_mutex
  wake,       \* bit of s_wake_flag
  pc,         \* where each thread is
  call,       \* the line it logs, or its reason to flush
  hand,       \* lines it took from the ring and has not written
  count,      \* lines of its drain, modulo ReportEvery; 0 outside a drain
  logged,     \* number of lines each producer logged
  out,        \* history: lines written, in order
  accepted,   \* history: lines put into the ring, in order
  exited,     \* the thread that ended the process
  late        \* history: a drainer has gone on without the sink lock

ringVars  == <<ring, used, accepted>>
dropVars  == <<dropped, reported, told, recent>>
drainVars == <<hand, count>>
bootVars  == <<started, booted, exited, late>>
vars == <<ring, used, started, booted, dropped, reported, told, recent, sinkLock, wake, pc, call,
          hand, count, logged, out, accepted, exited, late>>

Line(t)  == <<t, logged[t]>>
NoCall   == [kind |-> "none", len |-> 0]
Names(s) == [i \in 1 .. Len(s) |-> s[i].line]

Goto(t, l) == pc' = [pc EXCEPT ![t] = l]
Return(t)  == Goto(t, "idle") /\ call' = [call EXCEPT ![t] = NoCall]

Init ==
  /\ ring = <<>> /\ used = 0 /\ accepted = <<>> /\ out = <<>>
  /\ started = 0 /\ booted = 0 /\ exited = Nobody /\ late = FALSE
  /\ dropped = 0 /\ reported = 0 /\ told = 0 /\ recent = 0
  /\ sinkLock = Nobody /\ wake = 0
  /\ pc = [t \in Threads |-> IF t = Logger THEN "cold" ELSE "idle"]
  /\ call = [t \in Threads |-> NoCall]
  /\ hand = [t \in Threads |-> <<>>] /\ count = [t \in Threads |-> 0]
  /\ logged = [p \in Producers |-> 0]

-----------------------------------------------------------------------------
(* isaac_vita_log_reset and isaac_vita_log_async_start: at early boot, on  *)
(* the only thread; a failed start leaves every producer synchronous.      *)
Start ==
  /\ pc[Main] = "idle" /\ booted = 0
  /\ booted' = 1
  /\ \/ started' = 1 /\ Goto(Logger, "lock")
     \/ StartMayFail /\ UNCHANGED <<started, pc>>
  /\ UNCHANGED <<ringVars, dropVars, sinkLock, wake, call, drainVars, logged, out, exited,
                 late>>

(* isaac_vita_log ("file") and isaac_vita_log_async_printf ("printf"); an  *)
(* over-long printf drains the ring first and then writes its own bytes.   *)
Log(t, kind, len) ==
  /\ pc[t] = "idle" /\ (booted = 1 \/ t = Main) /\ logged[t] < MaxLines
  /\ kind = "file" => len <= LineMax
  /\ logged' = [logged EXCEPT ![t] = @ + 1]
  /\ call' = [call EXCEPT ![t] = [kind |-> kind, len |-> len]]
  /\ Goto(t, IF len <= LineMax THEN "enqueue" ELSE IF started = 1 THEN "lock" ELSE "sync")
  /\ UNCHANGED <<ringVars, dropVars, bootVars, sinkLock, wake, drainVars, out>>

Fits(len) == used + Header + len <= RingBytes

Enqueue_WakesAfterPut(t) ==
  /\ pc[t] = "enqueue" /\ started = 1 /\ Fits(call[t].len)
  /\ ring' = Append(ring, [line |-> Line(t), sink |-> call[t].kind, len |-> call[t].len])
  /\ used' = used + Header + call[t].len
  /\ accepted' = Append(accepted, Line(t))
  /\ IF used' = 0 THEN Goto(t, "wake") /\ UNCHANGED call ELSE Return(t)
  /\ UNCHANGED <<dropVars, bootVars, sinkLock, wake, drainVars, logged, out>>

Enqueue(t) ==
  /\ pc[t] = "enqueue" /\ started = 1 /\ Fits(call[t].len)
  /\ ring' = Append(ring, [line |-> Line(t), sink |-> call[t].kind, len |-> call[t].len])
  /\ used' = used + Header + call[t].len
  /\ accepted' = Append(accepted, Line(t))
  /\ IF used = 0 THEN Goto(t, "wake") /\ UNCHANGED call ELSE Return(t)
  /\ UNCHANGED <<dropVars, bootVars, sinkLock, wake, drainVars, logged, out>>

EnqueueDrops(t) ==
  /\ pc[t] = "enqueue" /\ started = 1 /\ ~Fits(call[t].len)
  /\ dropped' = dropped + 1
  /\ Return(t)
  /\ UNCHANGED <<ringVars, reported, told, recent, bootVars, sinkLock, wake, drainVars, logged, out>>

EnqueueNotStarted(t) ==
  /\ pc[t] = "enqueue" /\ started = 0
  /\ Goto(t, "sync")
  /\ UNCHANGED <<ringVars, dropVars, bootVars, sinkLock, wake, call, drainVars, logged, out>>

Wake(t) ==        \* only the enqueue that found the ring empty
  /\ pc[t] = "wake"
  /\ wake' = 1 /\ Return(t)
  /\ UNCHANGED <<ringVars, dropVars, bootVars, sinkLock, drainVars, logged, out>>

WriteSync(t) ==   \* the producer's own write, under no lock
  /\ pc[t] = "sync"
  /\ out' = Append(out, Line(t))
  /\ Return(t)
  /\ UNCHANGED <<ringVars, dropVars, bootVars, sinkLock, wake, drainVars, logged>>

Exit_WithoutFlush(t) ==
  /\ pc[t] = "idle" /\ (booted = 1 \/ t = Main)
  /\ call' = [call EXCEPT ![t] = [kind |-> "exit", len |-> 0]] /\ Goto(t, "exit")
  /\ UNCHANGED <<ringVars, dropVars, bootVars, sinkLock, wake, drainVars, logged, out>>

(* The process-exit path of entry_vita.c, or abort() on any thread         *)
Exit(t) ==
  /\ pc[t] = "idle" /\ (booted = 1 \/ t = Main)
  /\ call' = [call EXCEPT ![t] = [kind |-> "exit", len |-> 0]]
  /\ Goto(t, IF started = 1 THEN "lock" ELSE "exit")
  /\ UNCHANGED <<ringVars, dropVars, bootVars, sinkLock, wake, drainVars, logged, out>>

ExitProcess(t) ==
  /\ pc[t] = "exit"
  /\ exited' = t /\ pc' = [u \in Threads |-> "gone"]
  /\ UNCHANGED <<ringVars, dropVars, started, booted, late, sinkLock, wake, call, drainVars,
                 logged, out>>

-----------------------------------------------------------------------------
(* log_async_drain, on the logger or on a flushing producer                *)

SinkLock_Skipped(t) ==
  /\ pc[t] = "lock"
  /\ Goto(t, "pop")
  /\ UNCHANGED <<ringVars, dropVars, bootVars, sinkLock, wake, call, drainVars, logged, out>>

SinkLock(t) ==
  /\ pc[t] = "lock" /\ sinkLock = Nobody
  /\ sinkLock' = t /\ Goto(t, "pop")
  /\ UNCHANGED <<ringVars, dropVars, bootVars, wake, call, drainVars, logged, out>>

SinkLockTimeout(t) ==
  /\ pc[t] = "lock" /\ LockTimesOut /\ sinkLock # Nobody
  /\ Goto(t, "pop") /\ late' = TRUE
  /\ UNCHANGED <<ringVars, dropVars, started, booted, exited, sinkLock, wake, call, drainVars, logged, out>>

Pop(t) ==
  /\ pc[t] = "pop" /\ ring # <<>>
  /\ hand' = [hand EXCEPT ![t] = <<Head(ring)>>]
  /\ ring' = Tail(ring) /\ used' = used - (Header + Head(ring).len)
  /\ Goto(t, IF BatchRecords > 1 /\ sinkLock = t /\ Head(ring).sink = "file"
               THEN "group" ELSE "sink")
  /\ UNCHANGED <<accepted, dropVars, bootVars, sinkLock, wake, call, count, logged, out>>

(* Bytes of the first k queued lines, with and without their headers       *)
Payload[k \in 0 .. Len(ring)] == IF k = 0 THEN 0 ELSE Payload[k - 1] + ring[k].len
Bytes(k) == Payload[k] + k * Header

LowerOf(a, b) == IF a <= b THEN a ELSE b

(* A prefix of k queued lines joins the file append of the line in hand    *)
Groups(t, k) ==
  LET limit == LowerOf(BatchRecords, ReportEvery - count[t]) IN
    /\ k + 1 <= limit /\ hand[t][1].len + Payload[k] <= BatchBytes
    /\ \A i \in 1 .. k : ring[i].sink = "file"

Group_LosesOne(t) ==
  /\ pc[t] = "group"
  /\ \E k \in 0 .. Len(ring) :
       /\ Groups(t, k) /\ ~(k < Len(ring) /\ Groups(t, k + 1))
       /\ hand' = [hand EXCEPT ![t] = @ \o SubSeq(ring, 1, k - 1)]
       /\ ring' = SubSeq(ring, k + 1, Len(ring)) /\ used' = used - Bytes(k)
  /\ Goto(t, "sink")
  /\ UNCHANGED <<accepted, dropVars, bootVars, sinkLock, wake, call, count, logged, out>>

Group(t) ==
  /\ pc[t] = "group"
  /\ \E k \in 0 .. Len(ring) :
       /\ Groups(t, k) /\ ~(k < Len(ring) /\ Groups(t, k + 1))
       /\ hand' = [hand EXCEPT ![t] = @ \o SubSeq(ring, 1, k)]
       /\ ring' = SubSeq(ring, k + 1, Len(ring)) /\ used' = used - Bytes(k)
  /\ Goto(t, "sink")
  /\ UNCHANGED <<accepted, dropVars, bootVars, sinkLock, wake, call, count, logged, out>>

Sink(t) ==
  /\ pc[t] = "sink"
  /\ out' = out \o Names(hand[t])
  /\ count' = [count EXCEPT ![t] = (@ + Len(hand[t])) % ReportEvery]
  /\ hand' = [hand EXCEPT ![t] = <<>>]
  /\ Goto(t, IF count'[t] = 0 THEN "report" ELSE "pop")
  /\ UNCHANGED <<ringVars, dropVars, bootVars, sinkLock, wake, call, logged>>

(* log_async_report_drops: a changed count, at most once per second unless *)
(* forced                                                                  *)
Report(force) ==
  IF dropped # reported /\ (force \/ recent = 0)
    THEN reported' = dropped /\ told' = dropped /\ recent' = 1
    ELSE UNCHANGED <<reported, told, recent>>

ReportMidway(t) ==
  /\ pc[t] = "report"
  /\ Report(FALSE) /\ Goto(t, "pop")
  /\ UNCHANGED <<ringVars, dropped, bootVars, sinkLock, wake, call, drainVars, logged, out>>

FinishDrain_WithoutReport(t) ==
  /\ pc[t] = "pop" /\ ring = <<>>
  /\ sinkLock' = IF sinkLock = t THEN Nobody ELSE sinkLock
  /\ count' = [count EXCEPT ![t] = 0]
  /\ Goto(t, IF t = Logger THEN "wait" ELSE IF call[t].kind = "exit" THEN "exit" ELSE "sync")
  /\ UNCHANGED <<ringVars, dropVars, bootVars, wake, call, hand, logged, out>>

(* The ring is empty: report, unlock, and go on with what the drain was for *)
FinishDrain(t) ==
  /\ pc[t] = "pop" /\ ring = <<>>
  /\ Report(t # Logger)
  /\ sinkLock' = IF sinkLock = t THEN Nobody ELSE sinkLock
  /\ count' = [count EXCEPT ![t] = 0]
  /\ Goto(t, IF t = Logger THEN "wait" ELSE IF call[t].kind = "exit" THEN "exit" ELSE "sync")
  /\ UNCHANGED <<ringVars, dropped, bootVars, wake, call, hand, logged, out>>

LoggerWoken ==
  /\ pc[Logger] = "wait" /\ wake = 1
  /\ wake' = 0 /\ Goto(Logger, "lock")
  /\ UNCHANGED <<ringVars, dropVars, bootVars, sinkLock, call, drainVars, logged, out>>

LoggerTimeout ==
  /\ pc[Logger] = "wait" /\ wake = 0 /\ TimedWake
  /\ Goto(Logger, "lock")
  /\ UNCHANGED <<ringVars, dropVars, bootVars, sinkLock, wake, call, drainVars, logged, out>>

SecondPasses ==
  /\ exited = Nobody /\ recent = 1 /\ recent' = 0
  /\ UNCHANGED <<ringVars, dropped, reported, told, bootVars, sinkLock, wake, pc, call, drainVars,
                 logged, out>>

-----------------------------------------------------------------------------
Calls ==
  \/ Start
  \/ \E t \in Producers : \/ \E kind \in {"file", "printf"}, len \in Lengths : Log(t, kind, len)
                          \/ Exit(t)

Drains(t) ==
  \/ SinkLock(t) \/ SinkLockTimeout(t) \/ Pop(t) \/ Group(t) \/ Sink(t)
  \/ ReportMidway(t) \/ FinishDrain(t)

Produces(t) ==
  \/ Enqueue(t) \/ EnqueueDrops(t) \/ EnqueueNotStarted(t) \/ Wake(t) \/ WriteSync(t)
  \/ ExitProcess(t) \/ Drains(t)

Logs == Drains(Logger) \/ LoggerWoken \/ LoggerTimeout

Next ==
  \/ Calls \/ SecondPasses \/ Logs
  \/ \E t \in Producers : Produces(t)

Spec == Init /\ [][Next]_vars

(* Every thread runs, the lowest priority included, and time passes.       *)
FairSpec ==
  /\ Spec
  /\ WF_vars(Logs) /\ WF_vars(SecondPasses)
  /\ \A t \in Producers : WF_vars(Produces(t))

-----------------------------------------------------------------------------
(* Properties                                                              *)

Lines    == Producers \X (1 .. MaxLines)
Record   == [line : Lines, sink : {"file", "printf"}, len : Lengths]
AllLines == Cardinality(Producers) * MaxLines

TypeOK ==
  /\ ring \in Seq(Record) /\ used \in 0 .. RingBytes
  /\ started \in 0 .. 1 /\ booted \in 0 .. 1 /\ exited \in Producers \cup {Nobody}
  /\ late \in BOOLEAN
  /\ dropped \in 0 .. AllLines /\ reported \in 0 .. dropped /\ told \in 0 .. dropped /\ recent \in 0 .. 1
  /\ sinkLock \in Threads \cup {Nobody} /\ wake \in 0 .. 1
  /\ pc \in [Threads -> {"cold", "idle", "enqueue", "wake", "sync", "exit", "lock", "pop",
                         "group", "sink", "report", "wait", "gone"}]
  /\ call \in [Threads -> [kind : {"none", "file", "printf", "exit"}, len : Lengths \cup {0}]]
  /\ hand \in [Threads -> Seq(Record)] /\ count \in [Threads -> 0 .. ReportEvery - 1]
  /\ logged \in [Producers -> 0 .. MaxLines]
  /\ out \in Seq(Lines) /\ accepted \in Seq(Lines)

Members(s) == {s[i] : i \in 1 .. Len(s)}
InHand     == UNION {Members(Names(hand[t])) : t \in Threads}

(* Even when drainers work without the sink lock, an accepted line is in   *)
(* one place: queued, in the hand of one drainer, or written once.         *)
OneCopy ==
  /\ Members(accepted) \subseteq Members(out) \cup InHand \cup Members(Names(ring))
  /\ \A i, j \in 1 .. Len(out) : out[i] = out[j] => i = j
  /\ Members(Names(ring)) \cap (Members(out) \cup InHand) = {}
  /\ Members(out) \cap InHand = {}

(* "Every queued line reaches its sink before the process-exit request":   *)
(* unless a drainer has gone on without the lock, what the exiting thread  *)
(* logged was written or counted as dropped.                               *)
FlushReachesSink ==
  ~late => \A i \in 1 .. Len(accepted) : accepted[i][1] = exited => accepted[i] \in Members(out)

(* No accepted line is lost, doubled, or left behind by the exit.          *)
NothingLost == OneCopy /\ FlushReachesSink

(* "sleeps until the next line": the logger never waits on queued lines    *)
(* without a wake, or a thread that is about to set one or to drain the    *)
(* ring itself.                                                            *)
NoLostWake ==
  pc[Logger] = "wait" /\ ring # <<>> =>
    wake = 1 \/ \E t \in Producers : pc[t] \in {"wake", "lock", "pop", "group", "sink", "report"}

(* A dropped line is told of, even when the rate limit held the report     *)
(* back and nothing is ever logged again.                                  *)
DropsAreReported == dropped # told ~> dropped = told \/ exited # Nobody

(* Until a drainer goes on without the lock, the ring, the drainers' hands *)
(* and the direct writes are one queue.                                    *)
Queue == INSTANCE LogQueue WITH
  queue   <- IF sinkLock = Nobody THEN Names(ring) ELSE Names(hand[sinkLock] \o ring),
  written <- out
LogQueueSpec ==
  Queue!Init /\ [][late' \/ Queue!Next]_Queue!vars
=============================================================================
