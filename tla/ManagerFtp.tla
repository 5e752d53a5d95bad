----------------------------- MODULE ManagerFtp -----------------------------
(***************************************************************************)
(* The Manager's FTP server (manager_ftp_server.c) on its life-cycle state *)
(* machine (manager_ftp_lifecycle.c): the Manager's main thread starts and *)
(* stops it, one worker thread accepts a control connection at a time and  *)
(* carries out its commands.                                               *)
(*                                                                         *)
(* The two threads share the socket slots under state_mutex; descriptors   *)
(* are numbers the kernel reuses, and a blocking call holds only a number. *)
(* Paths and directories are left out: a command names a file of the data  *)
(* root.  SEND stands for LIST, NLST, MLSD and RETR.  A local of the code  *)
(* that nothing reads any more (a returned call's descriptor, the line of  *)
(* a finished command) is set back to its first value.                     *)
(***************************************************************************)
EXTENDS Naturals, FiniteSets

CONSTANTS
  FDs,        \* descriptor numbers
  Names,      \* files of the data root
  None,       \* no descriptor (-1), no file, no name
  Old,        \* a file that was there before the server started
  Chunks,     \* bound: pieces of an upload
  MaxFaults   \* bound: system calls that fail for a reason of their own

Slots    == {"LISTEN", "CONTROL", "PASSIVE", "DATA"}

ASSUME ManagerFtpAssumption ==
  /\ IsFiniteSet(FDs) /\ Cardinality(FDs) >= 4
  /\ Chunks \in Nat \ {0} /\ MaxFaults \in Nat
  /\ None \notin FDs \cup Names \cup Nat \cup {Old} /\ Old \notin Nat

Named    == {"SEND", "STOR", "DELE", "RNFR", "RNTO"}
Commands == Named \cup {"PASV", "QUIT", "OTHER"}

VARIABLES
  \* manager_ftp_lifecycle, and state_mutex while main keeps it
  stop_requested, worker_running, sockets, locked,
  \* the kernel: what a number is open as, and the sockets shut down
  open, shut,
  \* the main thread
  started, main, snapshot,
  \* the worker: its place and where a helper returns to; the descriptor of
  \* its blocking call and whether that sleeps; one it has not published yet
  worker, after, cur, asleep, fresh,
  \* the session's command and rename source
  cmd, name, rename,
  \* the files, the worker's open file, the upload as its client knows it
  files, handle, upload,
  faults,
  report      \* history: what the last 226 for an upload was about

lifecycle == <<stop_requested, worker_running, sockets, locked>>
kernel    == <<open, shut>>
manager   == <<started, main, snapshot>>
call      == <<cur, asleep>>
session   == <<cmd, name, rename>>
card      == <<files, handle, upload, report>>
vars      == <<lifecycle, kernel, manager, worker, after, call, fresh, session, card, faults>>

NoSockets == [s \in Slots |-> None]
Nowhere   == [ok |-> "loop", bad |-> "loop"]
NoUpload  == [sent |-> 0, closed |-> FALSE, got |-> 0]

Init ==
  /\ stop_requested = FALSE /\ worker_running = FALSE /\ sockets = NoSockets
  /\ locked = FALSE
  /\ open = [f \in FDs |-> "free"] /\ shut = {}
  /\ started = FALSE /\ main = "idle" /\ snapshot = NoSockets
  /\ worker = "none" /\ after = Nowhere
  /\ cur = None /\ asleep = "no" /\ fresh = None
  /\ cmd = "OTHER" /\ name = None /\ rename = None
  /\ files \in [Names -> {None, Old}] /\ handle = FALSE
  /\ upload = NoUpload /\ report = "none"
  /\ faults = 0

-----------------------------------------------------------------------------
(* The kernel                                                              *)

Fault == faults < MaxFaults /\ faults' = faults + 1

Socket(kind, f) ==      \* any number that is not in use
  /\ open[f] = "free"
  /\ open' = [open EXCEPT ![f] = kind] /\ UNCHANGED shut

Closed(S) ==
  open' = [f \in FDs |-> IF f \in S THEN "free" ELSE open[f]] /\ shut' = shut \ S

(* A call that sleeps on a descriptor wakes when the other thread closes   *)
(* or aborts it; a call entered later finds it closed or shut down.        *)
Woken(f) == IF asleep = "yes" /\ cur = f THEN "woken" ELSE asleep
Broken   == open[cur] = "free" \/ asleep = "woken" \/ (asleep = "no" /\ cur \in shut)

(* What has arrived can be read after the shutdown.                        *)
Delivers == open[cur] # "free" /\ asleep # "woken"

(* sceNetSocketClose by the main thread                                    *)
CloseByMain(f) == Closed({f}) /\ asleep' = Woken(f) /\ UNCHANGED cur

(* manager_ftp_shutdown_and_abort_socket                                   *)
ShutdownAndAbort_AbortOnly(f) == asleep' = Woken(f) /\ UNCHANGED <<kernel, cur>>
ShutdownAndAbort(f) ==
  /\ shut' = shut \cup ({f} \cap FDs) /\ asleep' = Woken(f)
  /\ UNCHANGED <<open, cur>>

-----------------------------------------------------------------------------
(* The main thread: manager_ftp_server_start, _stop and _is_listening      *)

others == <<worker, after, fresh, session, card>>

Fresh ==                \* manager_ftp_lifecycle_init
  stop_requested' = FALSE /\ worker_running' = FALSE /\ sockets' = NoSockets

Start ==
  /\ main = "idle" /\ ~started /\ Fresh
  /\ \/ main' = "starting" /\ UNCHANGED faults
     \/ Fault /\ UNCHANGED main      \* no root, no mutex, no network
  /\ UNCHANGED <<started, snapshot, locked, kernel, call, others>>

StartFails ==
  /\ main \in {"starting", "listening"} /\ Fault
  /\ Closed({sockets["LISTEN"]}) /\ Fresh /\ main' = "idle"
  /\ UNCHANGED <<started, snapshot, locked, call, others>>

StartListen ==
  /\ main = "starting"
  /\ \E f \in FDs : Socket("LISTEN", f) /\ sockets' = [sockets EXCEPT !["LISTEN"] = f]
  /\ main' = "listening"
  /\ UNCHANGED <<stop_requested, worker_running, locked, started, snapshot, call, others, faults>>

StartWorker ==
  /\ main = "listening"
  /\ worker_running' = TRUE /\ worker' = "loop"
  /\ started' = TRUE /\ main' = "running"
  /\ UNCHANGED <<stop_requested, sockets, locked, kernel, snapshot, after, call, fresh, session,
                 card, faults>>

IsListening_ListenerOnly == ~stop_requested /\ sockets["LISTEN"] # None
IsListening == ~stop_requested /\ worker_running /\ sockets["LISTEN"] # None

(* manager_ftp_lifecycle_begin_stop: main owns the accept sockets now      *)
BeginStop_TakesAll ==
  /\ snapshot' = sockets /\ sockets' = NoSockets
  /\ stop_requested' = TRUE /\ UNCHANGED worker_running
BeginStop ==
  /\ snapshot' = sockets /\ sockets' = [sockets EXCEPT !["LISTEN"] = None, !["PASSIVE"] = None]
  /\ stop_requested' = TRUE /\ UNCHANGED worker_running

StopBegins ==
  /\ main' = "abortControl" /\ locked' = TRUE /\ BeginStop
  /\ UNCHANGED <<started, kernel, call, others, faults>>

UserStops == main = "running" /\ StopBegins
Polls     == main = "running" /\ ~IsListening /\ StopBegins

AbortControl ==
  /\ main = "abortControl" /\ main' = "abortData"
  /\ ShutdownAndAbort(snapshot["CONTROL"])
  /\ UNCHANGED <<lifecycle, started, snapshot, others, faults>>

AbortData_Closes ==
  /\ main = "abortData" /\ main' = "closeListen" /\ locked' = FALSE
  /\ CloseByMain(snapshot["DATA"])
  /\ snapshot' = [snapshot EXCEPT !["CONTROL"] = None, !["DATA"] = None]
  /\ UNCHANGED <<stop_requested, worker_running, sockets, started, others, faults>>
AbortData ==            \* and the mutex is released
  /\ main = "abortData" /\ main' = "closeListen"
  /\ ShutdownAndAbort(snapshot["DATA"]) /\ locked' = FALSE
  /\ snapshot' = [snapshot EXCEPT !["CONTROL"] = None, !["DATA"] = None]
  /\ UNCHANGED <<stop_requested, worker_running, sockets, started, others, faults>>

CloseAccept(slot, l, next) ==
  /\ main = l /\ main' = next
  /\ CloseByMain(snapshot[slot]) /\ snapshot' = [snapshot EXCEPT ![slot] = None]
  /\ UNCHANGED <<lifecycle, started, others, faults>>

CloseListen  == CloseAccept("LISTEN", "closeListen", "closePassive")
ClosePassive == CloseAccept("PASSIVE", "closePassive", "join")

Join ==                 \* the worker has ended; what it left is closed
  /\ main = "join" /\ worker = "ended"
  /\ Closed({sockets[s] : s \in {"DATA", "PASSIVE", "CONTROL"}})
  /\ Fresh /\ started' = FALSE /\ main' = "idle" /\ worker' = "none" /\ snapshot' = NoSockets
  /\ UNCHANGED <<locked, after, call, fresh, session, card, faults>>

-----------------------------------------------------------------------------
(* The worker's helpers.  Each runs while main does not hold the mutex.    *)

Running == ~stop_requested /\ worker_running
Call(f) == cur' = f /\ asleep' = "no"
Returns == Call(None)

quiet == <<stop_requested, worker_running, locked, manager>>

Goto(l) == worker' = l /\ UNCHANGED after

(* manager_ftp_publish_socket: a refused descriptor is closed              *)
Publish(slot, l, ok, bad) ==
  /\ worker = l /\ ~locked /\ fresh' = None
  /\ IF stop_requested \/ sockets[slot] # None
     THEN Closed({fresh}) /\ UNCHANGED sockets /\ Goto(bad)
     ELSE sockets' = [sockets EXCEPT ![slot] = fresh] /\ UNCHANGED kernel /\ Goto(ok)
  /\ UNCHANGED <<quiet, files, handle, report, faults>>

(* manager_ftp_load_socket(slot, 1)                                        *)
LoadWhileRunning(slot, l, ok, bad) ==
  /\ worker = l /\ ~locked
  /\ IF Running /\ sockets[slot] # None THEN Call(sockets[slot]) /\ Goto(ok)
                                        ELSE UNCHANGED call /\ Goto(bad)
  /\ UNCHANGED <<lifecycle, kernel, manager, fresh, faults>>
Load(slot, l, ok, bad) == LoadWhileRunning(slot, l, ok, bad) /\ UNCHANGED <<session, card>>

(* manager_ftp_close_socket                                                *)
Close(slot, l, next) ==
  /\ worker = l /\ ~locked
  /\ Closed({sockets[slot]}) /\ sockets' = [sockets EXCEPT ![slot] = None]
  /\ worker' = next
  /\ UNCHANGED <<quiet, call, fresh, session, card, faults>>

(* manager_ftp_close_data, then on to next                                 *)
CloseDataThen(next) == worker' = "closeData" /\ after' = [after EXCEPT !.ok = next]

(* manager_ftp_reply: load the control socket and send                     *)
ReplyWhileRunning(l, ok, bad) ==
  /\ worker = l /\ ~locked
  /\ IF Running /\ sockets["CONTROL"] # None
     THEN Call(sockets["CONTROL"]) /\ worker' = "reply" /\ after' = [ok |-> ok, bad |-> bad]
     ELSE UNCHANGED call /\ Goto(bad)
  /\ UNCHANGED <<lifecycle, kernel, manager, fresh, session, faults>>

Reply(l, ok, bad) == ReplyWhileRunning(l, ok, bad) /\ UNCHANGED card

(* A blocking call returns an error                                        *)
CallFails == \/ Broken /\ UNCHANGED faults
             \/ Fault

settled == <<lifecycle, manager, session, card>>

(* sceNetAccept: its error goes to bad, a connection to ok                 *)
AcceptFails(l, bad) ==
  /\ worker = l /\ CallFails /\ Returns /\ Goto(bad) /\ fresh' = None
  /\ UNCHANGED <<settled, kernel>>

Connects(l, kind, ok) ==
  /\ worker = l /\ ~Broken
  /\ \E f \in FDs : Socket(kind, f) /\ fresh' = f
  /\ Returns /\ Goto(ok) /\ UNCHANGED <<settled, faults>>

(* A step of the worker on the card and its own state                      *)
beyond == <<lifecycle, kernel, manager, fresh>>
local  == <<beyond, call>>

-----------------------------------------------------------------------------
(* manager_ftp_worker and manager_ftp_process_control                      *)

Loop == Load("LISTEN", "loop", "accept", "ending")

Ending ==
  /\ worker = "ending" /\ ~locked /\ worker_running' = FALSE /\ Goto("ended")
  /\ UNCHANGED <<stop_requested, sockets, locked, kernel, manager, call, fresh, session, card,
                 faults>>

PublishControl ==       \* and a new session
  /\ Publish("CONTROL", "publishControl", "greet", "ending")
  /\ rename' = None /\ UNCHANGED <<cmd, name, upload, call>>

SendReply ==            \* the client takes it
  /\ worker = "reply" /\ ~Broken /\ Returns /\ worker' = after.ok /\ after' = Nowhere
  /\ UNCHANGED <<beyond, session, card, faults>>
ReplyFails ==
  /\ worker = "reply" /\ CallFails /\ Returns /\ worker' = after.bad /\ after' = Nowhere
  /\ UNCHANGED <<beyond, session, card>>

Check ==                \* the last command is done with
  /\ LoadWhileRunning("CONTROL", "check", "command", "leave")
  /\ cmd' = "OTHER" /\ name' = None /\ upload' = NoUpload /\ report' = "none"
  /\ UNCHANGED <<rename, files, handle>>

Command ==              \* a line arrives, or was already in a buffer
  /\ worker = "command" /\ Delivers
  /\ cmd' \in Commands /\ name' \in (IF cmd' \in Named THEN Names ELSE {None})
  /\ Returns /\ Goto("dispatch")
  /\ UNCHANGED <<beyond, rename, card, faults>>
CommandFails ==
  /\ worker = "command" /\ CallFails /\ Returns /\ Goto("leave")
  /\ UNCHANGED <<beyond, session, card>>
ClientLeaves ==
  /\ worker = "command" /\ Returns /\ Goto("leave")
  /\ UNCHANGED <<beyond, session, card, faults>>

Leave ==
  /\ worker = "leave" /\ CloseDataThen("leaveControl")
  /\ UNCHANGED <<local, session, card, faults>>

CloseData        == Close("DATA", "closeData", "closePassive") /\ UNCHANGED after
CloseDataPassive == Close("PASSIVE", "closePassive", after.ok) /\ after' = Nowhere
CloseControl     == Close("CONTROL", "leaveControl", "loop") /\ UNCHANGED after

-----------------------------------------------------------------------------
(* manager_ftp_handle_command                                              *)

Dispatched(c) == worker = "dispatch" /\ cmd = c

Other == Dispatched("OTHER") /\ Reply("dispatch", "check", "check")
Quit  == Dispatched("QUIT") /\ Reply("dispatch", "leave", "leave")

Exists(n) == n # None /\ files[n] # None

Delete ==
  /\ Dispatched("DELE") /\ Goto("answer")
  /\ \/ files' = [files EXCEPT ![name] = None] /\ UNCHANGED faults
     \/ Fault /\ UNCHANGED files
  /\ UNCHANGED <<local, session, handle, upload, report>>

RenameFrom ==
  /\ Dispatched("RNFR") /\ Goto("answer")
  /\ \/ rename' = (IF Exists(name) THEN name ELSE None) /\ UNCHANGED faults
     \/ Fault /\ rename' = None
  /\ UNCHANGED <<local, cmd, name, card>>

RenameTo ==             \* 503 without a source; fails when it went away
  /\ Dispatched("RNTO") /\ Goto("answer") /\ rename' = None
  /\ \/ /\ files' = IF Exists(rename) /\ ~Exists(name)
                    THEN [files EXCEPT ![name] = files[rename], ![rename] = None] ELSE files
        /\ UNCHANGED faults
     \/ Fault /\ UNCHANGED files
  /\ UNCHANGED <<local, cmd, name, handle, upload, report>>

Answer == Reply("answer", "check", "check")

(* manager_ftp_open_passive                                                *)
Passive ==
  /\ Dispatched("PASV") /\ CloseDataThen("passive")
  /\ UNCHANGED <<local, session, card, faults>>
PassiveSocket ==
  /\ worker = "passive"
  /\ \/ /\ \E f \in FDs : Socket("PASSIVE", f) /\ fresh' = f
        /\ Goto("publishPassive") /\ UNCHANGED faults
     \/ Fault /\ Goto("answer") /\ UNCHANGED <<kernel, fresh>>
  /\ UNCHANGED <<settled, call>>
PublishPassive ==
  /\ Publish("PASSIVE", "publishPassive", "bind", "check")
  /\ Call(fresh) /\ UNCHANGED <<session, upload>>
Bind ==
  /\ worker = "bind"
  /\ \/ open[cur] # "free" /\ Goto("answer") /\ UNCHANGED faults
     \/ open[cur] = "free" /\ CloseDataThen("answer") /\ UNCHANGED faults
     \/ Fault /\ CloseDataThen("answer")
  /\ Returns /\ UNCHANGED <<beyond, session, card>>

-----------------------------------------------------------------------------
(* A transfer: manager_ftp_list_directory, _retrieve, _store               *)

SendOpens ==            \* the directory or file, and the buffer
  /\ Dispatched("SEND")
  /\ \/ Exists(name) /\ handle' = TRUE /\ Goto("accept data") /\ UNCHANGED faults
     \/ ~Exists(name) /\ Goto("answer") /\ UNCHANGED <<handle, faults>>
     \/ Fault /\ Goto("answer") /\ UNCHANGED handle
  /\ UNCHANGED <<local, session, files, upload, report>>
StoreBegins ==
  Dispatched("STOR") /\ Goto("accept data") /\ UNCHANGED <<local, session, card, faults>>

(* manager_ftp_accept_data                                                 *)
AcceptData  == Load("PASSIVE", "accept data", "acceptPassive", "refuse")
TakePassive ==
  /\ Close("PASSIVE", "takePassive", IF fresh = None THEN "refuse" ELSE "publishData")
  /\ UNCHANGED after
PublishData ==
  /\ Publish("DATA", "publishData", "peer", "drop")
  /\ UNCHANGED <<session, upload, call>>
PeerDiffers == Close("DATA", "peer", "refuse") /\ UNCHANGED after
PeerMatches ==
  /\ worker = "peer" /\ Goto(IF cmd = "STOR" THEN "create" ELSE "opening")
  /\ UNCHANGED <<local, session, card, faults>>
Refuse == Reply("refuse", "drop", "drop")
Drop ==                 \* what was opened before is closed
  /\ worker = "drop" /\ handle' = FALSE /\ Goto("check")
  /\ UNCHANGED <<local, session, files, upload, report, faults>>

Create ==               \* O_CREAT | O_TRUNC, and the buffer
  /\ worker = "create"
  /\ \/ /\ files' = [files EXCEPT ![name] = 0] /\ handle' = TRUE
        /\ Goto("opening") /\ UNCHANGED faults
     \/ /\ Fault /\ files' \in {files, [files EXCEPT ![name] = 0]} /\ UNCHANGED handle
        /\ CloseDataThen("answer")
  /\ UNCHANGED <<local, session, upload, report>>

Opening == Reply("opening", "loadData", "abandon")
LoadData == Load("DATA", "loadData", "data", "abandon")
Abandon_KeepsFile ==
  worker = "abandon" /\ CloseDataThen("check") /\ UNCHANGED <<local, session, card, faults>>
Abandon ==
  /\ worker = "abandon" /\ handle' = FALSE /\ CloseDataThen("check")
  /\ UNCHANGED <<local, session, files, upload, report, faults>>

Ends(next) == handle' = FALSE /\ Returns /\ CloseDataThen(next)

Sent ==                 \* the client read it all
  /\ worker = "data" /\ cmd = "SEND" /\ ~Broken /\ Ends("complete")
  /\ UNCHANGED <<beyond, session, files, upload, report, faults>>
Receive ==
  /\ worker = "data" /\ cmd = "STOR" /\ Delivers /\ upload.got < upload.sent
  /\ upload' = [upload EXCEPT !.got = @ + 1] /\ Goto("write")
  /\ UNCHANGED <<local, session, files, handle, report, faults>>
EndOfFile ==            \* the client closed, or the socket was shut down
  /\ worker = "data" /\ cmd = "STOR" /\ Ends("complete")
  /\ \/ ~Broken /\ upload.closed /\ upload.got = upload.sent
     \/ Broken
  /\ UNCHANGED <<beyond, session, files, upload, report, faults>>
DataFails ==
  /\ worker = "data" /\ CallFails /\ Ends("aborted")
  /\ UNCHANGED <<beyond, session, files, upload, report>>
Write ==
  /\ worker = "write"
  /\ \/ files' = [files EXCEPT ![name] = @ + 1] /\ Goto("data") /\ Call(cur)
        /\ UNCHANGED <<handle, faults>>
     \/ Fault /\ Ends("aborted") /\ UNCHANGED files
  /\ UNCHANGED <<beyond, session, upload, report>>

Aborted ==              \* the upload's file is removed
  /\ worker = "aborted" /\ Goto("answer")
  /\ \/ /\ files' = IF cmd = "STOR" THEN [files EXCEPT ![name] = None] ELSE files
        /\ UNCHANGED faults
     \/ Fault /\ UNCHANGED files
  /\ UNCHANGED <<local, session, handle, upload, report>>

Whole == files[name] = upload.sent /\ upload.closed
Complete_Always ==
  /\ worker = "complete" /\ ~locked /\ sockets["CONTROL"] # None
  /\ Call(sockets["CONTROL"]) /\ worker' = "reply" /\ after' = [ok |-> "check", bad |-> "check"]
  /\ report' = IF cmd = "STOR" THEN (IF Whole THEN "whole" ELSE "partial") ELSE report
  /\ UNCHANGED <<lifecycle, kernel, manager, fresh, session, faults, files, handle, upload>>
Complete ==             \* 226
  /\ ReplyWhileRunning("complete", "check", "check")
  /\ report' = IF worker' = "reply" /\ cmd = "STOR" THEN (IF Whole THEN "whole" ELSE "partial")
               ELSE report
  /\ UNCHANGED <<files, handle, upload>>

-----------------------------------------------------------------------------
(* The client's side of an upload, and the kernel's of a call              *)

Uploading == cmd = "STOR" /\ sockets["DATA"] # None /\ ~upload.closed
ClientSends ==
  /\ Uploading /\ upload.sent < Chunks /\ upload' = [upload EXCEPT !.sent = @ + 1]
  /\ UNCHANGED <<lifecycle, kernel, manager, worker, after, call, fresh, session, files, handle,
                 report, faults>>
ClientCloses ==
  /\ Uploading /\ upload' = [upload EXCEPT !.closed = TRUE]
  /\ UNCHANGED <<lifecycle, kernel, manager, worker, after, call, fresh, session, files, handle,
                 report, faults>>

Sleep ==
  /\ worker \in {"accept", "acceptPassive", "command", "reply", "data"}
  /\ ~Broken /\ asleep = "no" /\ asleep' = "yes"
  /\ UNCHANGED <<lifecycle, kernel, manager, worker, after, cur, fresh, session, card, faults>>

-----------------------------------------------------------------------------
Accepts ==
  \/ AcceptFails("accept", "ending") \/ AcceptFails("acceptPassive", "takePassive")

(* What the worker does by itself                                          *)
Worker ==
  \/ Loop \/ Ending \/ PublishControl \/ Reply("greet", "check", "leave")
  \/ Accepts \/ ReplyFails \/ Check \/ CommandFails \/ Leave
  \/ CloseData \/ CloseDataPassive \/ CloseControl
  \/ Other \/ Quit \/ Delete \/ RenameFrom \/ RenameTo \/ Answer
  \/ Passive \/ PassiveSocket \/ PublishPassive \/ Bind
  \/ SendOpens \/ StoreBegins \/ AcceptData \/ TakePassive \/ PublishData
  \/ PeerDiffers \/ PeerMatches \/ Refuse \/ Drop \/ Create \/ Opening \/ LoadData \/ Abandon
  \/ EndOfFile \/ DataFails \/ Write \/ Aborted \/ Complete

(* What waits for a client, who may never come                             *)
Client ==
  \/ Connects("accept", "CONTROL", "publishControl")
  \/ Connects("acceptPassive", "DATA", "takePassive")
  \/ Command \/ ClientLeaves \/ SendReply \/ Sent \/ Receive \/ ClientSends \/ ClientCloses

Stop == Polls \/ AbortControl \/ AbortData \/ CloseListen \/ ClosePassive \/ Join
Main == Start \/ StartFails \/ StartListen \/ StartWorker \/ UserStops \/ Stop

Next == Main \/ Worker \/ Client \/ Sleep

Spec == Init /\ [][Next]_vars

(* Both threads run; a client need not do anything, a call need not fail.  *)
FairSpec == Spec /\ WF_vars(Stop) /\ WF_vars(Worker /\ UNCHANGED faults)

-----------------------------------------------------------------------------
(* Properties                                                              *)

Mains   == {"idle", "starting", "listening", "running", "abortControl", "abortData",
            "closeListen", "closePassive", "join"}
Calls   == {"accept", "acceptPassive", "command", "reply", "data"}
Workers == Calls \cup
  {"none", "loop", "ending", "ended", "publishControl", "greet", "check", "leave",
   "leaveControl", "closeData", "closePassive", "dispatch", "answer", "passive",
   "publishPassive", "bind", "accept data", "takePassive", "publishData", "peer", "refuse",
   "drop", "create", "opening", "loadData", "abandon", "write", "aborted", "complete"}

TypeOK ==
  /\ stop_requested \in BOOLEAN /\ worker_running \in BOOLEAN /\ locked \in BOOLEAN
  /\ sockets \in [Slots -> FDs \cup {None}] /\ snapshot \in [Slots -> FDs \cup {None}]
  /\ open \in [FDs -> Slots \cup {"free"}] /\ shut \subseteq FDs
  /\ started \in BOOLEAN /\ main \in Mains /\ worker \in Workers
  /\ after \in [ok : Workers, bad : Workers]
  /\ cur \in FDs \cup {None} /\ asleep \in {"no", "yes", "woken"} /\ fresh \in FDs \cup {None}
  /\ worker \in Calls => cur \in FDs
  /\ cmd \in Commands /\ name \in Names \cup {None} /\ rename \in Names \cup {None}
  /\ files \in [Names -> {None, Old} \cup 0 .. Chunks] /\ handle \in BOOLEAN
  /\ upload \in [sent : 0 .. Chunks, closed : BOOLEAN, got : 0 .. Chunks]
  /\ report \in {"none", "whole", "partial"} /\ faults \in 0 .. MaxFaults

(* "Every descriptor is either already in this snapshot, or its later      *)
(* publication is rejected": an open descriptor has one owner at any time, *)
(* a slot, the worker that opened it, or the main thread that stops.       *)
Owners(f) ==
  {s \in Slots : sockets[s] = f} \cup {w \in {"worker"} : fresh = f}
  \cup {<<s>> : s \in {s \in {"LISTEN", "PASSIVE"} : snapshot[s] = f}}
OneOwner ==
  \A f \in FDs : Cardinality(Owners(f)) = IF open[f] = "free" THEN 0 ELSE 1

(* No call of the worker is on a number that has become another socket,    *)
(* and no connected socket is closed under its call (only the two accept   *)
(* sockets are, by a stop).  The stopping thread, in turn, shuts down the  *)
(* connection it saw, never a number the worker closed meanwhile.          *)
Kind ==
  IF worker = "accept" THEN "LISTEN" ELSE IF worker = "acceptPassive" THEN "PASSIVE"
  ELSE IF worker = "data" THEN "DATA" ELSE "CONTROL"
OwnCalls ==
  /\ worker \in Calls =>
       \/ open[cur] = Kind
       \/ open[cur] = "free" /\ stop_requested /\ Kind \in {"LISTEN", "PASSIVE"}
  /\ main = "abortControl" /\ snapshot["CONTROL"] # None => open[snapshot["CONTROL"]] = "CONTROL"
  /\ main \in {"abortControl", "abortData"} /\ snapshot["DATA"] # None =>
       open[snapshot["DATA"]] = "DATA"

(* Both: two threads that hold the same numbers never meet on one socket.  *)
DescriptorsAreOwn == OneOwner /\ OwnCalls

(* Between two commands no data connection and no file is left open.       *)
NothingLeaks ==
  worker \in {"check", "command", "loop", "ended"} => ~handle /\ sockets["DATA"] = None

(* 226 answers an upload only when the client has closed it and all it     *)
(* sent is in the file: a stop that shuts the socket down looks like the   *)
(* end of the upload, and must not be reported as one.                     *)
WholeUploads == report # "partial"

(* A stop returns, whatever the worker was waiting for and whatever its    *)
(* client does, and a server whose worker has died is noticed and taken    *)
(* down.                                                                   *)
ServerStops ==
  /\ main = "abortControl" ~> main = "idle"
  /\ main = "running" /\ worker = "ended" ~> main = "idle"
=============================================================================
