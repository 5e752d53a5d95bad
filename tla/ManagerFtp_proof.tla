-------------------------- MODULE ManagerFtp_proof --------------------------
(***************************************************************************)
(* For any numbers, files and faults: an open descriptor of the FTP server *)
(* has one owner, the two threads never meet on a number that has become   *)
(* another socket, no file or data connection is left open between two     *)
(* commands, and an upload that a stop cut short is never reported as      *)
(* complete.                                                               *)
(***************************************************************************)
EXTENDS ManagerFtp, FiniteSetTheorems, TLAPS

-----------------------------------------------------------------------------
(* The inductive invariant.                                                *)

Stopping == {"abortControl", "abortData", "closeListen", "closePassive", "join"}

(* What the main thread has done to the state machine: a stop has taken    *)
(* the accept sockets, and holds the mutex while it looks at the others.   *)
MainInv ==
  /\ stop_requested <=> main \in Stopping
  /\ worker = "none" <=> main \in {"idle", "starting", "listening"}
  /\ locked <=> main \in {"abortControl", "abortData"}
  /\ main \in {"idle", "starting"} => sockets = NoSockets
  /\ main = "listening" => \A s \in Slots : s # "LISTEN" => sockets[s] = None
  /\ main \notin Stopping => snapshot = NoSockets
  /\ stop_requested => sockets["LISTEN"] = None /\ sockets["PASSIVE"] = None
  /\ locked => /\ snapshot["CONTROL"] = sockets["CONTROL"]
               /\ snapshot["DATA"] = sockets["DATA"]
  /\ snapshot["LISTEN"] # None => main \in {"abortControl", "abortData", "closeListen"}
  /\ main = "join" => snapshot["PASSIVE"] = None

(* What is open is what its owner opened it as; the owners are apart, and  *)
(* nothing is open without one.                                            *)
FreshKind ==
  IF worker = "publishControl" THEN "CONTROL"
  ELSE IF worker = "publishPassive" THEN "PASSIVE" ELSE "DATA"
SlotsOwn == \A s \in Slots : sockets[s] # None => open[sockets[s]] = s
StopOwns == \A s \in {"LISTEN", "PASSIVE"} : snapshot[s] # None => open[snapshot[s]] = s
FreshOwns ==
  fresh # None =>
    /\ worker \in {"publishControl", "publishPassive", "takePassive", "publishData"}
    /\ open[fresh] = FreshKind
    /\ \A s \in Slots : sockets[s] # fresh
    /\ fresh # snapshot["LISTEN"] /\ fresh # snapshot["PASSIVE"]
AllOwned ==
  \A f \in FDs : open[f] # "free" =>
    \/ \E s \in Slots : sockets[s] = f
    \/ f \in {fresh, snapshot["LISTEN"], snapshot["PASSIVE"]}
OwnInv == SlotsOwn /\ StopOwns /\ FreshOwns /\ AllOwned

(* A number is shut down, and a sleeper woken, only by a stop; nobody      *)
(* sleeps outside of a call.                                               *)
ShutInv ==
  /\ \A f \in shut : open[f] \in {"CONTROL", "DATA"}
  /\ shut # {} => stop_requested
CallInv ==
  /\ worker \in Calls =>
       \/ open[cur] = Kind
       \/ open[cur] = "free" /\ stop_requested /\ Kind \in {"LISTEN", "PASSIVE"}
  /\ worker = "write" => cur \in FDs /\ open[cur] = "DATA"
  /\ asleep # "no" => worker \in Calls \cup {"write"}
  /\ asleep = "woken" => stop_requested

(* Where the worker goes on after a helper, and with which command.        *)
Transfer    == {"accept data", "acceptPassive", "takePassive", "publishData", "peer", "refuse",
                "drop", "create", "opening", "loadData", "abandon", "data", "write"}
AfterClose  == {"leaveControl", "passive", "answer", "check", "aborted", "complete"}
Replying(ok, bad) == worker = "reply" /\ after.ok = ok /\ after.bad = bad
Answering   == Replying("loadData", "abandon")
Refusing    == Replying("drop", "drop")
Completing  == \/ worker = "complete"
               \/ worker \in {"closeData", "closePassive"} /\ after.ok = "complete"
PlaceInv ==
  /\ worker = "reply" => \/ Answering \/ Refusing \/ Replying("check", "leave")
                         \/ Replying("check", "check") \/ Replying("leave", "leave")
  /\ worker \in {"closeData", "closePassive"} => after.ok \in AfterClose
  /\ cmd \in Named => name \in Names
  /\ worker \in Transfer \/ Answering \/ Refusing => cmd \in {"SEND", "STOR"}
  /\ worker \in {"create", "write"} => cmd = "STOR"

(* A file is open only in a transfer, for an upload only after it was      *)
(* created; a data connection only once it is accepted.                    *)
HasFile ==
  /\ handle => worker \in Transfer \/ Refusing \/ Answering
  /\ handle /\ cmd = "STOR" =>
       worker \in {"opening", "loadData", "abandon", "data", "write"} \/ Answering
HasData ==
  sockets["DATA"] # None =>
    \/ worker \in {"peer", "create", "opening", "loadData", "data", "write", "abandon",
                   "closeData"}
    \/ Answering

(* What an upload has received is in its file; when it ends, its client    *)
(* has closed it and all of it is there, or else a stop has begun.         *)
UploadInv ==
  /\ worker = "command" => upload.got = 0
  /\ cmd = "STOR" =>
       /\ worker \in {"dispatch", "accept data", "acceptPassive", "takePassive", "publishData",
                      "peer", "create"} => upload.got = 0
       /\ worker \in {"opening", "loadData", "data"} \/ Answering =>
            files[name] = upload.got
       /\ worker = "write" => upload.got \in Nat \ {0} /\ files[name] = upload.got - 1
       /\ Completing => stop_requested \/ Whole

IInv ==
  /\ TypeOK /\ MainInv /\ OwnInv /\ ShutInv /\ CallInv /\ PlaceInv /\ HasFile /\ HasData
  /\ UploadInv /\ WholeUploads

-----------------------------------------------------------------------------
(* Types in four parts: what main has, the worker, its call, the card.      *)
MainType ==
  /\ stop_requested \in BOOLEAN /\ locked \in BOOLEAN
  /\ sockets \in [Slots -> FDs \cup {None}] /\ snapshot \in [Slots -> FDs \cup {None}]
  /\ open \in [FDs -> Slots \cup {"free"}] /\ shut \subseteq FDs
  /\ main \in Mains /\ fresh \in FDs \cup {None}
WorkerType ==
  /\ worker \in Workers /\ after \in [ok : Workers, bad : Workers]
  /\ cmd \in Commands /\ name \in Names \cup {None} /\ rename \in Names \cup {None}
CallType ==
  /\ worker_running \in BOOLEAN /\ started \in BOOLEAN
  /\ cur \in FDs \cup {None} /\ asleep \in {"no", "yes", "woken"}
  /\ worker \in Calls => cur \in FDs
  /\ faults \in 0 .. MaxFaults
CardType ==
  /\ files \in [Names -> {None, Old} \cup 0 .. Chunks] /\ handle \in BOOLEAN
  /\ upload \in [sent : 0 .. Chunks, closed : BOOLEAN, got : 0 .. Chunks]
  /\ report \in {"none", "whole", "partial"}
(* The four parts are the type invariant of the model.                     *)
LEMMA TypeParts ==
  TypeOK <=> MainType /\ WorkerType /\ CallType /\ CardType
  BY DEF TypeOK, MainType, WorkerType, CallType, CardType

(* The kinds of a step of the worker, as the descriptors see it: it leaves *)
(* them, opens one, publishes it or closes one.                            *)
Quiet == UNCHANGED <<stop_requested, locked, manager>> /\ worker # "none" /\ worker' # "none"
Moves == /\ UNCHANGED <<stop_requested, locked, manager, sockets, kernel, fresh>>
         /\ worker = "none" <=> worker' = "none"
         /\ fresh # None => worker' = worker
Opens == /\ Quiet /\ UNCHANGED sockets /\ fresh = None /\ fresh' \in FDs
         /\ \E s \in Slots : Socket(s, fresh') /\ s = FreshKind'
         /\ worker' \in {"publishControl", "publishPassive", "takePassive"}
Publishes ==
  /\ Quiet /\ fresh' = None
  /\ \/ Closed({fresh}) /\ UNCHANGED sockets
     \/ \E s \in Slots :
          /\ fresh # None => open[fresh] = s
          /\ sockets[s] = None /\ sockets' = [sockets EXCEPT ![s] = fresh]
          /\ ~locked /\ ~stop_requested /\ UNCHANGED kernel
Closes ==
  /\ Quiet /\ ~locked /\ UNCHANGED fresh
  /\ \E s \in Slots \ {"LISTEN"} :
       Closed({sockets[s]}) /\ sockets' = [sockets EXCEPT ![s] = None]
  /\ fresh # None => worker = "takePassive" /\ worker' = "publishData"

(* What a step of the main thread leaves to the worker.                    *)
Leaves ==
  /\ UNCHANGED <<after, session, card>>
  /\ \/ worker' = worker /\ (sockets'["DATA"] = sockets["DATA"] \/ sockets'["DATA"] = None)
        /\ (stop_requested => stop_requested')
     \/ worker \in {"none", "ended"} /\ worker' \in {"loop", "none"} /\ sockets'["DATA"] = None

(* The worker's places.                                                    *)
LEMMA Places ==
  /\ "loop" \in Workers /\ "accept" \in Workers /\ "ending" \in Workers
  /\ "ended" \in Workers /\ "publishControl" \in Workers /\ "greet" \in Workers
  /\ "check" \in Workers /\ "command" \in Workers /\ "leave" \in Workers
  /\ "leaveControl" \in Workers /\ "closeData" \in Workers /\ "closePassive" \in Workers
  /\ "dispatch" \in Workers /\ "answer" \in Workers /\ "reply" \in Workers
  /\ "passive" \in Workers /\ "publishPassive" \in Workers /\ "bind" \in Workers
  /\ "accept data" \in Workers /\ "acceptPassive" \in Workers
  /\ "takePassive" \in Workers /\ "publishData" \in Workers /\ "peer" \in Workers
  /\ "refuse" \in Workers /\ "drop" \in Workers /\ "create" \in Workers
  /\ "opening" \in Workers /\ "loadData" \in Workers /\ "abandon" \in Workers
  /\ "data" \in Workers /\ "write" \in Workers /\ "aborted" \in Workers
  /\ "complete" \in Workers /\ "none" \in Workers
  BY DEF Workers, Calls

(* Before the first manager_ftp_start nothing is open and nothing has run. *)
LEMMA InitInv == Init => IInv
  <1> SUFFICES ASSUME Init PROVE IInv OBVIOUS
  <1>1. MainType /\ CallType
    <2>1. faults \in 0 .. MaxFaults
      BY ManagerFtpAssumption DEF Init
    <2> QED BY <2>1 DEF Init, MainType, CallType, NoSockets, Slots, Mains, Calls
  <1>2. WorkerType
    BY Places DEF Init, WorkerType, Nowhere, Commands
  <1>3. CardType
    <2>1. files \in [Names -> {None, Old} \cup 0 .. Chunks]
      BY DEF Init
    <2>2. upload \in [sent : 0 .. Chunks, closed : BOOLEAN, got : 0 .. Chunks]
      BY ManagerFtpAssumption DEF Init, NoUpload
    <2>3. handle \in BOOLEAN /\ report \in {"none", "whole", "partial"}
      BY DEF Init
    <2> QED BY <2>1, <2>2, <2>3 DEF CardType
  <1>4. TypeOK
    BY <1>1, <1>2, <1>3, TypeParts
  <1> QED BY <1>4, ManagerFtpAssumption
             DEF Init, IInv, MainInv, Stopping, OwnInv, SlotsOwn, StopOwns, FreshOwns, AllOwned,
                 ShutInv, CallInv, PlaceInv, HasFile, HasData, UploadInv, WholeUploads,
                 NoSockets, Nowhere, NoUpload, Slots, Calls, Named, Transfer, Replying,
                 Answering, Refusing, Completing

(* manager_ftp_reply sends, and goes on as it was asked to.                *)
LEMMA Replies ==
  ASSUME NEW l, NEW ok, NEW bad, ReplyWhileRunning(l, ok, bad)
  PROVE  /\ worker = l
         /\ UNCHANGED <<stop_requested, worker_running, sockets, locked, kernel, manager, fresh,
                        cmd, name, rename, faults>>
         /\ \/ /\ worker' = "reply" /\ after'.ok = ok /\ after'.bad = bad
               /\ ~stop_requested /\ sockets["CONTROL"] # None
               /\ cur' = sockets["CONTROL"] /\ asleep' = "no"
            \/ worker' = bad /\ UNCHANGED <<cur, asleep>>
  BY DEF ReplyWhileRunning, Running, Call, call, Goto, lifecycle, session

Replied(l, ok, bad) ==
  /\ worker = l
  /\ UNCHANGED <<stop_requested, locked, manager, sockets, kernel, fresh, session, files, handle,
                 upload>>
  /\ report' \in {report, "whole", "partial"}
  /\ \/ worker' = "reply" /\ after'.ok = ok /\ after'.bad = bad /\ ~stop_requested
     \/ worker' = bad
(* Which answers the commands send, and where each goes on.                *)
LEMMA ReplySteps ==
  /\ Reply("greet", "check", "leave") => Replied("greet", "check", "leave")
  /\ Other => Replied("dispatch", "check", "check") /\ cmd = "OTHER"
  /\ Quit => Replied("dispatch", "leave", "leave") /\ cmd = "QUIT"
  /\ Answer => Replied("answer", "check", "check")
  /\ Refuse => Replied("refuse", "drop", "drop")
  /\ Opening => Replied("opening", "loadData", "abandon")
  /\ Complete => Replied("complete", "check", "check")
  <1>1. ASSUME NEW l, NEW ok, NEW bad, ReplyWhileRunning(l, ok, bad),
               UNCHANGED <<files, handle, upload>>, report' \in {report, "whole", "partial"}
        PROVE  Replied(l, ok, bad)
    BY <1>1, Replies DEF Replied, session
  <1> QED
    BY <1>1 DEF Reply, Other, Quit, Dispatched, Answer, Refuse, Opening, Complete, card

(* An answer keeps the types of the worker's call and of its place.        *)
LEMMA ReplyType ==
  ASSUME WorkerType, NEW l, NEW ok \in Workers, NEW bad \in Workers,
         ReplyWhileRunning(l, ok, bad)
  PROVE  WorkerType'
  <1>1. UNCHANGED <<cmd, name, rename>>
    BY DEF ReplyWhileRunning, session
  <1>2. \/ worker' = "reply" /\ after' = [ok |-> ok, bad |-> bad]
        \/ worker' = bad /\ after' = after
    BY DEF ReplyWhileRunning, Goto
  <1>3. CASE worker' = "reply" /\ after' = [ok |-> ok, bad |-> bad]
    BY <1>1, <1>3, Places DEF WorkerType
  <1>4. CASE worker' = bad /\ after' = after
    BY <1>1, <1>4 DEF WorkerType
  <1> QED BY <1>2, <1>3, <1>4

(* Every step is one of the main thread or one of these.                   *)
LEMMA StepKinds ==
  ASSUME IInv, [Next]_vars PROVE Main \/ Moves \/ Opens \/ Publishes \/ Closes
  <1>a. /\ PlaceInv
        /\ fresh # None => worker \in {"publishControl", "publishPassive", "takePassive",
                                      "publishData"}
    BY DEF IInv, OwnInv, FreshOwns
  <1> USE DEF IInv, OwnInv, FreshOwns, FreshKind, Slots
  <1>1. ASSUME Loop PROVE Moves
    BY <1>1 DEF Loop, Load, LoadWhileRunning, Goto, lifecycle, Moves
  <1>2. ASSUME Ending PROVE Moves
    BY <1>2 DEF Ending, Goto, Moves
  <1>3. ASSUME PublishControl PROVE Publishes
    BY <1>3 DEF PublishControl, Publish, Goto, quiet, Publishes, Quiet
  <1>4. ASSUME Reply("greet", "check", "leave") PROVE Moves
    <2>1. Replied("greet", "check", "leave")
      BY <1>4, ReplySteps
    <2> QED BY <2>1, <1>a DEF Replied, kernel, manager, session, Moves
  <1>5. ASSUME AcceptFails("accept", "ending") PROVE Moves
    BY <1>5 DEF AcceptFails, Goto, settled, lifecycle, Moves
  <1>6. ASSUME AcceptFails("acceptPassive", "takePassive") PROVE Moves
    BY <1>6 DEF AcceptFails, Goto, settled, lifecycle, Moves
  <1>7. ASSUME ReplyFails PROVE Moves
    BY <1>7 DEF ReplyFails, Moves, beyond, lifecycle, PlaceInv, Answering, Refusing, Replying
  <1>8. ASSUME Check PROVE Moves
    BY <1>8 DEF Check, LoadWhileRunning, Goto, lifecycle, NoUpload, Moves
  <1>9. ASSUME CommandFails PROVE Moves
    BY <1>9 DEF CommandFails, Goto, beyond, lifecycle, Moves
  <1>10. ASSUME Leave PROVE Moves
    BY <1>10 DEF Leave, CloseDataThen, local, beyond, lifecycle, Moves
  <1>11. ASSUME CloseData PROVE Closes
    BY <1>11 DEF CloseData, Close, quiet, Closes, Quiet
  <1>12. ASSUME CloseDataPassive PROVE Closes
    BY <1>12 DEF CloseDataPassive, Close, Closes, Quiet, quiet, PlaceInv, AfterClose, Slots
  <1>13. ASSUME CloseControl PROVE Closes
    BY <1>13 DEF CloseControl, Close, quiet, Closes, Quiet
  <1>14. ASSUME Other PROVE Moves
    <2>1. Replied("dispatch", "check", "check") /\ cmd = "OTHER"
      BY <1>14, ReplySteps
    <2> QED BY <2>1, <1>a DEF Replied, kernel, manager, session, Moves
  <1>15. ASSUME Quit PROVE Moves
    <2>1. Replied("dispatch", "leave", "leave") /\ cmd = "QUIT"
      BY <1>15, ReplySteps
    <2> QED BY <2>1, <1>a DEF Replied, kernel, manager, session, Moves
  <1>16. ASSUME Delete PROVE Moves
    BY <1>16 DEF Delete, Dispatched, Goto, local, beyond, lifecycle, Moves
  <1>17. ASSUME RenameFrom PROVE Moves
    BY <1>17 DEF RenameFrom, Dispatched, Goto, Exists, local, beyond, lifecycle, Moves
  <1>18. ASSUME RenameTo PROVE Moves
    BY <1>18 DEF RenameTo, Dispatched, Goto, Exists, local, beyond, lifecycle, Moves
  <1>19. ASSUME Answer PROVE Moves
    <2>1. Replied("answer", "check", "check")
      BY <1>19, ReplySteps
    <2> QED BY <2>1, <1>a DEF Replied, kernel, manager, session, Moves
  <1>20. ASSUME Passive PROVE Moves
    BY <1>20 DEF Passive, Dispatched, CloseDataThen, local, beyond, lifecycle, Moves
  <1>21. ASSUME PassiveSocket PROVE Moves \/ Opens
    BY <1>21 DEF PassiveSocket, Goto, settled, lifecycle, Moves, Opens, Quiet
  <1>22. ASSUME PublishPassive PROVE Publishes
    BY <1>22 DEF PublishPassive, Publish, Goto, quiet, Publishes, Quiet
  <1>23. ASSUME Bind PROVE Moves
    BY <1>23 DEF Bind, Goto, CloseDataThen, beyond, lifecycle, Moves
  <1>24. ASSUME SendOpens PROVE Moves
    BY <1>24 DEF SendOpens, Dispatched, Exists, Goto, local, beyond, lifecycle, Moves
  <1>25. ASSUME StoreBegins PROVE Moves
    BY <1>25 DEF StoreBegins, Dispatched, Goto, local, beyond, lifecycle, Moves
  <1>26. ASSUME AcceptData PROVE Moves
    BY <1>26 DEF AcceptData, Load, LoadWhileRunning, Goto, lifecycle, Moves
  <1>27. ASSUME TakePassive PROVE Closes
    BY <1>27 DEF TakePassive, Close, quiet, Closes, Quiet
  <1>28. ASSUME PublishData PROVE Publishes
    BY <1>28 DEF PublishData, Publish, Goto, quiet, Publishes, Quiet
  <1>29. ASSUME PeerDiffers PROVE Closes
    BY <1>29 DEF PeerDiffers, Close, quiet, Closes, Quiet
  <1>30. ASSUME PeerMatches PROVE Moves
    BY <1>30 DEF PeerMatches, Goto, local, beyond, lifecycle, Moves
  <1>31. ASSUME Refuse PROVE Moves
    <2>1. Replied("refuse", "drop", "drop")
      BY <1>31, ReplySteps
    <2> QED BY <2>1, <1>a DEF Replied, kernel, manager, session, Moves
  <1>32. ASSUME Drop PROVE Moves
    BY <1>32 DEF Drop, Goto, local, beyond, lifecycle, Moves
  <1>33. ASSUME Create PROVE Moves
    BY <1>33 DEF Create, Goto, CloseDataThen, local, beyond, lifecycle, Moves
  <1>34. ASSUME Opening PROVE Moves
    <2>1. Replied("opening", "loadData", "abandon")
      BY <1>34, ReplySteps
    <2> QED BY <2>1, <1>a DEF Replied, kernel, manager, session, Moves
  <1>35. ASSUME LoadData PROVE Moves
    BY <1>35 DEF LoadData, Load, LoadWhileRunning, Goto, lifecycle, Moves
  <1>36. ASSUME Abandon PROVE Moves
    BY <1>36 DEF Abandon, CloseDataThen, local, beyond, lifecycle, Moves
  <1>37. ASSUME EndOfFile PROVE Moves
    BY <1>37 DEF EndOfFile, Ends, CloseDataThen, beyond, lifecycle, Moves
  <1>38. ASSUME DataFails PROVE Moves
    BY <1>38 DEF DataFails, Ends, CloseDataThen, beyond, lifecycle, Moves
  <1>39. ASSUME Write PROVE Moves
    BY <1>39 DEF Write, Goto, Ends, CloseDataThen, beyond, lifecycle, Moves
  <1>40. ASSUME Aborted PROVE Moves
    BY <1>40 DEF Aborted, Goto, local, beyond, lifecycle, Moves
  <1>41. ASSUME Complete PROVE Moves
    <2>1. Replied("complete", "check", "check")
      BY <1>41, ReplySteps
    <2> QED BY <2>1, <1>a DEF Replied, kernel, manager, session, Moves
  <1>42. ASSUME Connects("accept", "CONTROL", "publishControl") PROVE Opens
    BY <1>42 DEF Connects, Goto, settled, lifecycle, Opens, Quiet
  <1>43. ASSUME Connects("acceptPassive", "DATA", "takePassive") PROVE Opens
    BY <1>43 DEF Connects, Goto, settled, lifecycle, Opens, Quiet
  <1>44. ASSUME Command PROVE Moves
    BY <1>44 DEF Command, Delivers, Goto, beyond, lifecycle, Moves
  <1>45. ASSUME ClientLeaves PROVE Moves
    BY <1>45 DEF ClientLeaves, Goto, beyond, lifecycle, Moves
  <1>46. ASSUME SendReply PROVE Moves
    BY <1>46 DEF SendReply, Moves, beyond, lifecycle, PlaceInv, Answering, Refusing, Replying
  <1>47. ASSUME Sent PROVE Moves
    BY <1>47 DEF Sent, Ends, CloseDataThen, beyond, lifecycle, Moves
  <1>48. ASSUME Receive PROVE Moves
    BY <1>48 DEF Receive, Delivers, Goto, local, beyond, lifecycle, Moves
  <1>49. ASSUME ClientSends PROVE Moves
    BY <1>49 DEF ClientSends, Uploading, lifecycle, Moves
  <1>50. ASSUME ClientCloses PROVE Moves
    BY <1>50 DEF ClientCloses, Uploading, lifecycle, Moves
  <1>51. ASSUME Sleep PROVE Moves
    BY <1>51 DEF Sleep, lifecycle, Moves
  <1>52. ASSUME UNCHANGED vars PROVE Moves
    BY <1>52 DEF Moves, vars, lifecycle
  <1>53. CASE Worker
    BY <1>53, <1>1, <1>2, <1>3, <1>4, <1>5, <1>6, <1>7, <1>8, <1>9, <1>10, <1>11, <1>12, <1>13,
       <1>14, <1>15, <1>16, <1>17, <1>18, <1>19, <1>20, <1>21, <1>22, <1>23, <1>24, <1>25, <1>26,
       <1>27, <1>28, <1>29, <1>30, <1>31, <1>32, <1>33, <1>34, <1>35, <1>36, <1>37, <1>38, <1>39,
       <1>40, <1>41
       DEF Worker, Accepts
  <1>54. CASE Client
    BY <1>54, <1>42, <1>43, <1>44, <1>45, <1>46, <1>47, <1>48, <1>49, <1>50 DEF Client
  <1> QED BY <1>51, <1>52, <1>53, <1>54 DEF Next

(* The main thread leaves the worker and its session alone.                *)
LEMMA MainLeaves == ASSUME IInv, Main PROVE Leaves
  <1> USE DEF IInv, TypeOK, MainInv, Leaves
  <1>1. ASSUME Start PROVE Leaves
    BY <1>1 DEF Start, Fresh, NoSockets, others, Slots
  <1>2. ASSUME StartFails PROVE Leaves
    BY <1>2 DEF StartFails, Fresh, NoSockets, others, Slots
  <1>3. ASSUME StartListen PROVE Leaves
    BY <1>3 DEF StartListen, others, Slots
  <1>4. ASSUME StartWorker PROVE Leaves
    BY <1>4 DEF StartWorker, Slots
  <1>5. ASSUME UserStops PROVE Leaves
    BY <1>5 DEF UserStops, StopBegins, BeginStop, others, Slots
  <1>6. ASSUME Polls PROVE Leaves
    BY <1>6 DEF Polls, IsListening, StopBegins, BeginStop, others, Slots
  <1>7. ASSUME AbortControl PROVE Leaves
    BY <1>7 DEF AbortControl, ShutdownAndAbort, lifecycle, others, Slots
  <1>8. ASSUME AbortData PROVE Leaves
    BY <1>8 DEF AbortData, ShutdownAndAbort, others, Slots
  <1>9. ASSUME CloseListen PROVE Leaves
    BY <1>9 DEF CloseListen, CloseAccept, CloseByMain, lifecycle, others, Slots
  <1>10. ASSUME ClosePassive PROVE Leaves
    BY <1>10 DEF ClosePassive, CloseAccept, CloseByMain, lifecycle, others, Slots
  <1>11. ASSUME Join PROVE Leaves
    BY <1>11 DEF Join, Fresh, NoSockets, Slots
  <1> QED BY <1>1, <1>2, <1>3, <1>4, <1>5, <1>6, <1>7, <1>8, <1>9, <1>10, <1>11 DEF Main, Stop

(* Every step keeps the types of what manager_ftp_stop shares.             *)
LEMMA MainTypeStep == ASSUME IInv, [Next]_vars PROVE MainType'
  <1>a. MainType /\ None \notin FDs
    BY TypeParts, ManagerFtpAssumption DEF IInv
  <1> USE DEF MainType, Slots
  <1>1. ASSUME Start PROVE MainType'
    BY <1>1, <1>a DEF Start, Fresh, NoSockets, kernel, others, Mains
  <1>2. ASSUME StartFails PROVE MainType'
    BY <1>2, <1>a DEF StartFails, Closed, Fresh, NoSockets, others, Mains
  <1>3. ASSUME StartListen PROVE MainType'
    BY <1>3, <1>a DEF StartListen, Socket, others, Mains
  <1>4. ASSUME StartWorker PROVE MainType'
    BY <1>4, <1>a DEF StartWorker, kernel, Mains
  <1>5. ASSUME UserStops PROVE MainType'
    BY <1>5, <1>a DEF UserStops, StopBegins, BeginStop, kernel, others, Mains
  <1>6. ASSUME Polls PROVE MainType'
    BY <1>6, <1>a DEF Polls, IsListening, StopBegins, BeginStop, kernel, others, Mains
  <1>7. ASSUME AbortControl PROVE MainType'
    BY <1>7, <1>a DEF AbortControl, ShutdownAndAbort, lifecycle, others, Mains
  <1>8. ASSUME AbortData PROVE MainType'
    BY <1>8, <1>a DEF AbortData, ShutdownAndAbort, others, Mains
  <1>9. ASSUME CloseListen PROVE MainType'
    BY <1>9, <1>a DEF CloseListen, CloseAccept, CloseByMain, Closed, lifecycle, others, Mains
  <1>10. ASSUME ClosePassive PROVE MainType'
    BY <1>10, <1>a DEF ClosePassive, CloseAccept, CloseByMain, Closed, lifecycle, others, Mains
  <1>11. ASSUME Join PROVE MainType'
    BY <1>11, <1>a DEF Join, Closed, Fresh, NoSockets, Mains
  <1>12. ASSUME Moves PROVE MainType'
    BY <1>12, <1>a DEF Moves, kernel, manager
  <1>13. ASSUME Opens PROVE MainType'
    BY <1>13, <1>a DEF Opens, Quiet, Socket, manager
  <1>14. ASSUME Publishes PROVE MainType'
    BY <1>14, <1>a DEF Publishes, Quiet, Closed, kernel, manager
  <1>15. ASSUME Closes PROVE MainType'
    BY <1>15, <1>a DEF Closes, Quiet, Closed, manager
  <1>16. CASE Main
    BY <1>16, <1>1, <1>2, <1>3, <1>4, <1>5, <1>6, <1>7, <1>8, <1>9, <1>10, <1>11 DEF Main, Stop
  <1> QED BY StepKinds, <1>16, <1>12, <1>13, <1>14, <1>15

(* Every step leaves the worker at a place, with a command, of its own.    *)
LEMMA WorkerTypeStep == ASSUME IInv, [Next]_vars PROVE WorkerType'
  <1>a. WorkerType
    BY TypeParts DEF IInv
  <1> USE DEF WorkerType
  <1>1. ASSUME Leaves PROVE WorkerType'
    BY <1>1, <1>a, Places DEF Leaves, session
  <1>2. ASSUME Loop PROVE WorkerType'
    BY <1>2, <1>a, Places DEF Loop, Load, LoadWhileRunning, Goto, session
  <1>3. ASSUME Ending PROVE WorkerType'
    BY <1>3, <1>a, Places DEF Ending, Goto, session
  <1>4. ASSUME PublishControl PROVE WorkerType'
    BY <1>4, <1>a, Places DEF PublishControl, Publish, Goto, quiet
  <1>5. ASSUME Reply("greet", "check", "leave") PROVE WorkerType'
    BY <1>5, <1>a, Places, ReplyType DEF Reply
  <1>6. ASSUME AcceptFails("accept", "ending") PROVE WorkerType'
    BY <1>6, <1>a, Places DEF AcceptFails, Goto, settled, session
  <1>7. ASSUME AcceptFails("acceptPassive", "takePassive") PROVE WorkerType'
    BY <1>7, <1>a, Places DEF AcceptFails, Goto, settled, session
  <1>8. ASSUME ReplyFails PROVE WorkerType'
    BY <1>8, <1>a, Places DEF ReplyFails, Nowhere, session
  <1>9. ASSUME Check PROVE WorkerType'
    BY <1>9, <1>a, Places DEF Check, LoadWhileRunning, Goto, NoUpload, Commands
  <1>10. ASSUME CommandFails PROVE WorkerType'
    BY <1>10, <1>a, Places DEF CommandFails, Goto, session
  <1>11. ASSUME Leave PROVE WorkerType'
    BY <1>11, <1>a, Places DEF Leave, CloseDataThen, local, session
  <1>12. ASSUME CloseData PROVE WorkerType'
    BY <1>12, <1>a, Places DEF CloseData, Close, quiet, session
  <1>13. ASSUME CloseDataPassive PROVE WorkerType'
    BY <1>13, <1>a, Places DEF CloseDataPassive, Close, quiet, session, Nowhere
  <1>14. ASSUME CloseControl PROVE WorkerType'
    BY <1>14, <1>a, Places DEF CloseControl, Close, quiet, session
  <1>15. ASSUME Other PROVE WorkerType'
    BY <1>15, <1>a, Places, ReplyType DEF Other, Dispatched, Reply
  <1>16. ASSUME Quit PROVE WorkerType'
    BY <1>16, <1>a, Places, ReplyType DEF Quit, Dispatched, Reply
  <1>17. ASSUME Delete PROVE WorkerType'
    BY <1>17, <1>a, Places DEF Delete, Dispatched, Goto, local, session
  <1>18. ASSUME RenameFrom PROVE WorkerType'
    BY <1>18, <1>a, Places DEF RenameFrom, Dispatched, Goto, Exists
  <1>19. ASSUME RenameTo PROVE WorkerType'
    BY <1>19, <1>a, Places DEF RenameTo, Dispatched, Goto, Exists
  <1>20. ASSUME Answer PROVE WorkerType'
    BY <1>20, <1>a, Places, ReplyType DEF Answer, Reply
  <1>21. ASSUME Passive PROVE WorkerType'
    BY <1>21, <1>a, Places DEF Passive, Dispatched, CloseDataThen, local, session
  <1>22. ASSUME PassiveSocket PROVE WorkerType'
    BY <1>22, <1>a, Places DEF PassiveSocket, Goto, settled, session
  <1>23. ASSUME PublishPassive PROVE WorkerType'
    BY <1>23, <1>a, Places DEF PublishPassive, Publish, Goto, quiet, session
  <1>24. ASSUME Bind PROVE WorkerType'
    BY <1>24, <1>a, Places DEF Bind, Goto, CloseDataThen, session
  <1>25. ASSUME SendOpens PROVE WorkerType'
    BY <1>25, <1>a, Places DEF SendOpens, Dispatched, Exists, Goto, local, session
  <1>26. ASSUME StoreBegins PROVE WorkerType'
    BY <1>26, <1>a, Places DEF StoreBegins, Dispatched, Goto, local, session
  <1>27. ASSUME AcceptData PROVE WorkerType'
    BY <1>27, <1>a, Places DEF AcceptData, Load, LoadWhileRunning, Goto, session
  <1>28. ASSUME TakePassive PROVE WorkerType'
    BY <1>28, <1>a, Places DEF TakePassive, Close, quiet, session
  <1>29. ASSUME PublishData PROVE WorkerType'
    BY <1>29, <1>a, Places DEF PublishData, Publish, Goto, quiet, session
  <1>30. ASSUME PeerDiffers PROVE WorkerType'
    BY <1>30, <1>a, Places DEF PeerDiffers, Close, quiet, session
  <1>31. ASSUME PeerMatches PROVE WorkerType'
    BY <1>31, <1>a, Places DEF PeerMatches, Goto, local, session
  <1>32. ASSUME Refuse PROVE WorkerType'
    BY <1>32, <1>a, Places, ReplyType DEF Refuse, Reply
  <1>33. ASSUME Drop PROVE WorkerType'
    BY <1>33, <1>a, Places DEF Drop, Goto, local, session
  <1>34. ASSUME Create PROVE WorkerType'
    BY <1>34, <1>a, Places DEF Create, Goto, CloseDataThen, local, session
  <1>35. ASSUME Opening PROVE WorkerType'
    BY <1>35, <1>a, Places, ReplyType DEF Opening, Reply
  <1>36. ASSUME LoadData PROVE WorkerType'
    BY <1>36, <1>a, Places DEF LoadData, Load, LoadWhileRunning, Goto, session
  <1>37. ASSUME Abandon PROVE WorkerType'
    BY <1>37, <1>a, Places DEF Abandon, CloseDataThen, local, session
  <1>38. ASSUME EndOfFile PROVE WorkerType'
    BY <1>38, <1>a, Places DEF EndOfFile, Ends, CloseDataThen, session
  <1>39. ASSUME DataFails PROVE WorkerType'
    BY <1>39, <1>a, Places DEF DataFails, Ends, CloseDataThen, session
  <1>40. ASSUME Write PROVE WorkerType'
    BY <1>40, <1>a, Places DEF Write, Goto, Ends, CloseDataThen, session
  <1>41. ASSUME Aborted PROVE WorkerType'
    BY <1>41, <1>a, Places DEF Aborted, Goto, local, session
  <1>42. ASSUME Complete PROVE WorkerType'
    BY <1>42, <1>a, Places, ReplyType DEF Complete
  <1>43. ASSUME Connects("accept", "CONTROL", "publishControl") PROVE WorkerType'
    BY <1>43, <1>a, Places DEF Connects, Goto, settled, session
  <1>44. ASSUME Connects("acceptPassive", "DATA", "takePassive") PROVE WorkerType'
    BY <1>44, <1>a, Places DEF Connects, Goto, settled, session
  <1>45. ASSUME Command PROVE WorkerType'
    BY <1>45, <1>a, Places DEF Command, Delivers, Goto
  <1>46. ASSUME ClientLeaves PROVE WorkerType'
    BY <1>46, <1>a, Places DEF ClientLeaves, Goto, session
  <1>47. ASSUME SendReply PROVE WorkerType'
    BY <1>47, <1>a, Places DEF SendReply, Nowhere, session
  <1>48. ASSUME Sent PROVE WorkerType'
    BY <1>48, <1>a, Places DEF Sent, Ends, CloseDataThen, session
  <1>49. ASSUME Receive PROVE WorkerType'
    BY <1>49, <1>a, Places DEF Receive, Delivers, Goto, local, session
  <1>50. ASSUME ClientSends PROVE WorkerType'
    BY <1>50, <1>a DEF ClientSends, Uploading, session
  <1>51. ASSUME ClientCloses PROVE WorkerType'
    BY <1>51, <1>a DEF ClientCloses, Uploading, session
  <1>52. ASSUME Sleep PROVE WorkerType'
    BY <1>52, <1>a DEF Sleep, session
  <1>53. CASE UNCHANGED vars
    BY <1>53, <1>a DEF vars, session
  <1>54. CASE Worker
    BY <1>54, <1>2, <1>3, <1>4, <1>5, <1>6, <1>7, <1>8, <1>9, <1>10, <1>11, <1>12, <1>13, <1>14,
       <1>15, <1>16, <1>17, <1>18, <1>19, <1>20, <1>21, <1>22, <1>23, <1>24, <1>25, <1>26, <1>27,
       <1>28, <1>29, <1>30, <1>31, <1>32, <1>33, <1>34, <1>35, <1>36, <1>37, <1>38, <1>39, <1>40,
       <1>41, <1>42
       DEF Worker, Accepts
  <1>55. CASE Client
    BY <1>55, <1>43, <1>44, <1>45, <1>46, <1>47, <1>48, <1>49, <1>50, <1>51 DEF Client
  <1> QED BY MainLeaves, <1>1, <1>52, <1>53, <1>54, <1>55 DEF Next

(* Every step keeps the types of the files and of the upload.              *)
LEMMA CardTypeStep == ASSUME IInv, [Next]_vars PROVE CardType'
  <1>a. /\ CardType /\ Chunks \in Nat \ {0} /\ (cmd \in Named => name \in Names)
        /\ worker = "write" /\ cmd = "STOR" =>
             upload.got \in Nat \ {0} /\ files[name] = upload.got - 1
    BY TypeParts, ManagerFtpAssumption DEF IInv, PlaceInv, UploadInv
  <1>b. worker \in {"create", "write"} => name \in Names /\ cmd = "STOR"
    BY DEF IInv, PlaceInv, Transfer, Named
  <1>c. rename \in Names \cup {None}
    BY TypeParts DEF IInv, WorkerType
  <1> USE DEF CardType
  <1>1. ASSUME Leaves PROVE CardType'
    BY <1>1, <1>a DEF Leaves, card
  <1>2. ASSUME Loop PROVE CardType'
    BY <1>2, <1>a DEF Loop, Load, LoadWhileRunning, card
  <1>3. ASSUME Ending PROVE CardType'
    BY <1>3, <1>a DEF Ending, card
  <1>4. ASSUME PublishControl PROVE CardType'
    BY <1>4, <1>a DEF PublishControl, Publish, quiet
  <1>5. ASSUME Reply("greet", "check", "leave") PROVE CardType'
    <2>1. Replied("greet", "check", "leave")
      BY <1>5, ReplySteps
    <2> QED BY <2>1, <1>a DEF Replied, kernel, manager, session
  <1>6. ASSUME AcceptFails("accept", "ending") PROVE CardType'
    BY <1>6, <1>a DEF AcceptFails, settled, card
  <1>7. ASSUME AcceptFails("acceptPassive", "takePassive") PROVE CardType'
    BY <1>7, <1>a DEF AcceptFails, settled, card
  <1>8. ASSUME ReplyFails PROVE CardType'
    BY <1>8, <1>a DEF ReplyFails, Nowhere, card
  <1>9. ASSUME Check PROVE CardType'
    BY <1>9, <1>a DEF Check, LoadWhileRunning, NoUpload
  <1>10. ASSUME CommandFails PROVE CardType'
    BY <1>10, <1>a DEF CommandFails, card
  <1>11. ASSUME Leave PROVE CardType'
    BY <1>11, <1>a DEF Leave, CloseDataThen, local, card
  <1>12. ASSUME CloseData PROVE CardType'
    BY <1>12, <1>a DEF CloseData, Close, quiet, card
  <1>13. ASSUME CloseDataPassive PROVE CardType'
    BY <1>13, <1>a DEF CloseDataPassive, Close, quiet, card, Nowhere
  <1>14. ASSUME CloseControl PROVE CardType'
    BY <1>14, <1>a DEF CloseControl, Close, quiet, card
  <1>15. ASSUME Other PROVE CardType'
    <2>1. Replied("dispatch", "check", "check") /\ cmd = "OTHER"
      BY <1>15, ReplySteps
    <2> QED BY <2>1, <1>a DEF Replied, kernel, manager, session
  <1>16. ASSUME Quit PROVE CardType'
    <2>1. Replied("dispatch", "leave", "leave") /\ cmd = "QUIT"
      BY <1>16, ReplySteps
    <2> QED BY <2>1, <1>a DEF Replied, kernel, manager, session
  <1>17. ASSUME Delete PROVE CardType'
    BY <1>17, <1>a DEF Delete, Dispatched
  <1>18. ASSUME RenameFrom PROVE CardType'
    BY <1>18, <1>a DEF RenameFrom, Dispatched, Exists, local, card
  <1>19. ASSUME RenameTo PROVE CardType'
    <2>1. \/ files' = files
          \/ /\ files' = [files EXCEPT ![name] = files[rename], ![rename] = None]
             /\ rename \in Names
      BY <1>19, <1>c DEF RenameTo, Exists
    <2>2. files' \in [Names -> {None, Old} \cup 0 .. Chunks]
      BY <2>1, <1>a
    <2> QED BY <1>19, <2>2, <1>a DEF RenameTo
  <1>20. ASSUME Answer PROVE CardType'
    <2>1. Replied("answer", "check", "check")
      BY <1>20, ReplySteps
    <2> QED BY <2>1, <1>a DEF Replied, kernel, manager, session
  <1>21. ASSUME Passive PROVE CardType'
    BY <1>21, <1>a DEF Passive, Dispatched, CloseDataThen, local, card
  <1>22. ASSUME PassiveSocket PROVE CardType'
    BY <1>22, <1>a DEF PassiveSocket, settled, card
  <1>23. ASSUME PublishPassive PROVE CardType'
    BY <1>23, <1>a DEF PublishPassive, Publish, quiet
  <1>24. ASSUME Bind PROVE CardType'
    BY <1>24, <1>a DEF Bind, CloseDataThen, card
  <1>25. ASSUME SendOpens PROVE CardType'
    BY <1>25, <1>a DEF SendOpens, Dispatched, Exists
  <1>26. ASSUME StoreBegins PROVE CardType'
    BY <1>26, <1>a DEF StoreBegins, Dispatched, local, card
  <1>27. ASSUME AcceptData PROVE CardType'
    BY <1>27, <1>a DEF AcceptData, Load, LoadWhileRunning, card
  <1>28. ASSUME TakePassive PROVE CardType'
    BY <1>28, <1>a DEF TakePassive, Close, quiet, card
  <1>29. ASSUME PublishData PROVE CardType'
    BY <1>29, <1>a DEF PublishData, Publish, quiet
  <1>30. ASSUME PeerDiffers PROVE CardType'
    BY <1>30, <1>a DEF PeerDiffers, Close, quiet, card
  <1>31. ASSUME PeerMatches PROVE CardType'
    BY <1>31, <1>a DEF PeerMatches, local, card
  <1>32. ASSUME Refuse PROVE CardType'
    <2>1. Replied("refuse", "drop", "drop")
      BY <1>32, ReplySteps
    <2> QED BY <2>1, <1>a DEF Replied, kernel, manager, session
  <1>33. ASSUME Drop PROVE CardType'
    BY <1>33, <1>a DEF Drop
  <1>34. ASSUME Create PROVE CardType'
    <2>1. files' \in {files, [files EXCEPT ![name] = 0]}
      BY <1>34 DEF Create
    <2>2. 0 \in 0 .. Chunks
      BY <1>a
    <2>3. files' \in [Names -> {None, Old} \cup 0 .. Chunks]
      BY <2>1, <2>2, <1>a
    <2> QED BY <1>34, <2>3, <1>a DEF Create
  <1>35. ASSUME Opening PROVE CardType'
    <2>1. Replied("opening", "loadData", "abandon")
      BY <1>35, ReplySteps
    <2> QED BY <2>1, <1>a DEF Replied, kernel, manager, session
  <1>36. ASSUME LoadData PROVE CardType'
    BY <1>36, <1>a DEF LoadData, Load, LoadWhileRunning, card
  <1>37. ASSUME Abandon PROVE CardType'
    BY <1>37, <1>a DEF Abandon, CloseDataThen
  <1>38. ASSUME EndOfFile PROVE CardType'
    BY <1>38, <1>a DEF EndOfFile, Ends, CloseDataThen
  <1>39. ASSUME DataFails PROVE CardType'
    BY <1>39, <1>a DEF DataFails, Ends, CloseDataThen
  <1>40. ASSUME Write PROVE CardType'
    <2>1. files[name] + 1 \in 0 .. Chunks
      BY <1>40, <1>a, <1>b DEF Write
    <2>2. files' \in {files, [files EXCEPT ![name] = files[name] + 1]}
      BY <1>40 DEF Write
    <2>3. files' \in [Names -> {None, Old} \cup 0 .. Chunks]
      BY <2>1, <2>2, <1>a
    <2> QED BY <1>40, <2>3, <1>a DEF Write, Ends
  <1>41. ASSUME Aborted PROVE CardType'
    BY <1>41, <1>a DEF Aborted
  <1>42. ASSUME Complete PROVE CardType'
    <2>1. Replied("complete", "check", "check")
      BY <1>42, ReplySteps
    <2> QED BY <2>1, <1>a DEF Replied, kernel, manager, session
  <1>43. ASSUME Connects("accept", "CONTROL", "publishControl") PROVE CardType'
    BY <1>43, <1>a DEF Connects, settled, card
  <1>44. ASSUME Connects("acceptPassive", "DATA", "takePassive") PROVE CardType'
    BY <1>44, <1>a DEF Connects, settled, card
  <1>45. ASSUME Command PROVE CardType'
    BY <1>45, <1>a DEF Command, Delivers, card
  <1>46. ASSUME ClientLeaves PROVE CardType'
    BY <1>46, <1>a DEF ClientLeaves, card
  <1>47. ASSUME SendReply PROVE CardType'
    BY <1>47, <1>a DEF SendReply, Nowhere, card
  <1>48. ASSUME Sent PROVE CardType'
    BY <1>48, <1>a DEF Sent, Ends, CloseDataThen
  <1>49. ASSUME Receive PROVE CardType'
    BY <1>49, <1>a DEF Receive, Delivers
  <1>50. ASSUME ClientSends PROVE CardType'
    BY <1>50, <1>a DEF ClientSends, Uploading
  <1>51. ASSUME ClientCloses PROVE CardType'
    BY <1>51, <1>a DEF ClientCloses, Uploading
  <1>52. ASSUME Sleep PROVE CardType'
    BY <1>52, <1>a DEF Sleep, card
  <1>53. CASE UNCHANGED vars
    BY <1>53, <1>a DEF vars, card
  <1>54. CASE Worker
    BY <1>54, <1>2, <1>3, <1>4, <1>5, <1>6, <1>7, <1>8, <1>9, <1>10, <1>11, <1>12, <1>13, <1>14,
       <1>15, <1>16, <1>17, <1>18, <1>19, <1>20, <1>21, <1>22, <1>23, <1>24, <1>25, <1>26, <1>27,
       <1>28, <1>29, <1>30, <1>31, <1>32, <1>33, <1>34, <1>35, <1>36, <1>37, <1>38, <1>39, <1>40,
       <1>41, <1>42
       DEF Worker, Accepts
  <1>55. CASE Client
    BY <1>55, <1>43, <1>44, <1>45, <1>46, <1>47, <1>48, <1>49, <1>50, <1>51 DEF Client
  <1> QED BY MainLeaves, <1>1, <1>52, <1>53, <1>54, <1>55 DEF Next

(* The phases of manager_ftp_stop, and what each has already taken.        *)
LEMMA MainStep == ASSUME IInv, [Next]_vars PROVE MainInv'
  <1> USE DEF IInv, TypeOK, MainInv, Stopping, Slots
  <1>1. ASSUME Start PROVE MainInv'
    BY <1>1 DEF Start, Fresh, others
  <1>2. ASSUME StartFails PROVE MainInv'
    BY <1>2 DEF StartFails, Fresh, others
  <1>3. ASSUME StartListen PROVE MainInv'
    <2>1. /\ main = "starting" /\ main' = "listening"
          /\ UNCHANGED <<stop_requested, locked, snapshot, worker>>
      BY <1>3 DEF StartListen, others
    <2>2. \A s \in Slots : s # "LISTEN" => sockets'[s] = None
      BY <1>3, <2>1 DEF StartListen, NoSockets
    <2> QED BY <2>1, <2>2
  <1>4. ASSUME StartWorker PROVE MainInv'
    BY <1>4 DEF StartWorker
  <1>5. ASSUME UserStops PROVE MainInv'
    BY <1>5 DEF UserStops, StopBegins, BeginStop, others
  <1>6. ASSUME Polls PROVE MainInv'
    BY <1>6 DEF Polls, IsListening, StopBegins, BeginStop, others
  <1>7. ASSUME AbortControl PROVE MainInv'
    BY <1>7 DEF AbortControl, ShutdownAndAbort, lifecycle, others
  <1>8. ASSUME AbortData PROVE MainInv'
    BY <1>8 DEF AbortData, ShutdownAndAbort, others
  <1>9. ASSUME CloseListen PROVE MainInv'
    BY <1>9 DEF CloseListen, CloseAccept, CloseByMain, lifecycle, others
  <1>10. ASSUME ClosePassive PROVE MainInv'
    BY <1>10 DEF ClosePassive, CloseAccept, CloseByMain, lifecycle, others
  <1>11. ASSUME Join PROVE MainInv'
    BY <1>11 DEF Join, Fresh, NoSockets
  <1>12. ASSUME Moves PROVE MainInv'
    BY <1>12 DEF Moves, manager
  <1>13. ASSUME Opens PROVE MainInv'
    BY <1>13 DEF Opens, Quiet, manager
  <1>14. ASSUME Publishes PROVE MainInv'
    BY <1>14 DEF Publishes, Quiet, manager
  <1>15. ASSUME Closes PROVE MainInv'
    BY <1>15 DEF Closes, Quiet, manager
  <1>16. CASE Main
    BY <1>16, <1>1, <1>2, <1>3, <1>4, <1>5, <1>6, <1>7, <1>8, <1>9, <1>10, <1>11 DEF Main, Stop
  <1> QED BY StepKinds, <1>16, <1>12, <1>13, <1>14, <1>15

(* A number in the table stays open as the socket it was put there as.     *)
LEMMA SlotsStep == ASSUME IInv, [Next]_vars PROVE SlotsOwn'
  <1> USE DEF IInv, TypeOK, MainInv, OwnInv, SlotsOwn, StopOwns, FreshOwns, FreshKind, Slots
  <1>1. ASSUME Start PROVE SlotsOwn'
    BY <1>1 DEF Start, Fresh, kernel, others
  <1>2. ASSUME StartFails PROVE SlotsOwn'
    BY <1>2 DEF StartFails, Fresh, NoSockets, others
  <1>3. ASSUME StartListen PROVE SlotsOwn'
    BY <1>3 DEF StartListen, Socket, others
  <1>4. ASSUME StartWorker PROVE SlotsOwn'
    BY <1>4 DEF StartWorker, kernel
  <1>5. ASSUME UserStops PROVE SlotsOwn'
    BY <1>5 DEF UserStops, StopBegins, BeginStop, kernel, others
  <1>6. ASSUME Polls PROVE SlotsOwn'
    BY <1>6 DEF Polls, IsListening, StopBegins, BeginStop, kernel, others
  <1>7. ASSUME AbortControl PROVE SlotsOwn'
    BY <1>7 DEF AbortControl, ShutdownAndAbort, lifecycle, others
  <1>8. ASSUME AbortData PROVE SlotsOwn'
    BY <1>8 DEF AbortData, ShutdownAndAbort, others
  <1>9. ASSUME CloseListen PROVE SlotsOwn'
    BY <1>9 DEF CloseListen, CloseAccept, CloseByMain, Closed, lifecycle, others, Stopping
  <1>10. ASSUME ClosePassive PROVE SlotsOwn'
    BY <1>10 DEF ClosePassive, CloseAccept, CloseByMain, Closed, lifecycle, others, Stopping
  <1>11. ASSUME Join PROVE SlotsOwn'
    BY <1>11 DEF Join, Fresh, NoSockets
  <1>12. ASSUME Moves PROVE SlotsOwn'
    BY <1>12 DEF Moves, kernel
  <1>13. ASSUME Opens PROVE SlotsOwn'
    BY <1>13 DEF Opens, Socket
  <1>14. ASSUME Publishes PROVE SlotsOwn'
    BY <1>14 DEF Publishes, Closed, kernel
  <1>15. ASSUME Closes PROVE SlotsOwn'
    BY <1>15 DEF Closes, Closed
  <1>16. CASE Main
    BY <1>16, <1>1, <1>2, <1>3, <1>4, <1>5, <1>6, <1>7, <1>8, <1>9, <1>10, <1>11 DEF Main, Stop
  <1> QED BY StepKinds, <1>16, <1>12, <1>13, <1>14, <1>15

(* A listener that a stop took stays open until that stop closes it.       *)
LEMMA StopStep == ASSUME IInv, [Next]_vars PROVE StopOwns'
  <1> USE DEF IInv, TypeOK, MainInv, OwnInv, SlotsOwn, StopOwns, FreshOwns, FreshKind, Slots
  <1>1. ASSUME Start PROVE StopOwns'
    BY <1>1 DEF Start, kernel, others
  <1>2. ASSUME StartFails PROVE StopOwns'
    BY <1>2 DEF StartFails, Closed, others
  <1>3. ASSUME StartListen PROVE StopOwns'
    BY <1>3 DEF StartListen, Socket, others
  <1>4. ASSUME StartWorker PROVE StopOwns'
    BY <1>4 DEF StartWorker, kernel
  <1>5. ASSUME UserStops PROVE StopOwns'
    BY <1>5 DEF UserStops, StopBegins, BeginStop, kernel, others
  <1>6. ASSUME Polls PROVE StopOwns'
    BY <1>6 DEF Polls, IsListening, StopBegins, BeginStop, kernel, others
  <1>7. ASSUME AbortControl PROVE StopOwns'
    BY <1>7 DEF AbortControl, ShutdownAndAbort, others
  <1>8. ASSUME AbortData PROVE StopOwns'
    BY <1>8 DEF AbortData, ShutdownAndAbort, others
  <1>9. ASSUME CloseListen PROVE StopOwns'
    BY <1>9 DEF CloseListen, CloseAccept, CloseByMain, Closed, others
  <1>10. ASSUME ClosePassive PROVE StopOwns'
    BY <1>10 DEF ClosePassive, CloseAccept, CloseByMain, others
  <1>11. ASSUME Join PROVE StopOwns'
    BY <1>11 DEF Join, NoSockets
  <1>12. ASSUME Moves PROVE StopOwns'
    BY <1>12 DEF Moves, kernel, manager
  <1>13. ASSUME Opens PROVE StopOwns'
    BY <1>13 DEF Opens, Quiet, Socket, manager
  <1>14. ASSUME Publishes PROVE StopOwns'
    BY <1>14 DEF Publishes, Quiet, Closed, kernel, manager
  <1>15. ASSUME Closes PROVE StopOwns'
    <2>1. PICK s \in Slots \ {"LISTEN"} :
            Closed({sockets[s]}) /\ sockets' = [sockets EXCEPT ![s] = None]
      BY <1>15 DEF Closes
    <2>2. UNCHANGED snapshot
      BY <1>15 DEF Closes, Quiet, manager
    <2>3. ASSUME NEW t \in {"LISTEN", "PASSIVE"}, snapshot[t] # None
          PROVE  snapshot[t] # sockets[s] /\ snapshot[t] \in FDs
      <3>1. stop_requested
        BY <2>3 DEF NoSockets
      <3>2. open[snapshot[t]] = t /\ sockets["PASSIVE"] = None
        BY <2>3, <3>1
      <3>3. CASE snapshot[t] = sockets[s]
        <4>1. open[sockets[s]] = s
          BY <2>3, <3>3
        <4> QED BY <2>1, <2>3, <3>2, <3>3, <4>1
      <3> QED BY <2>3, <3>3
    <2> QED BY <2>1, <2>2, <2>3 DEF Closed
  <1>16. CASE Main
    BY <1>16, <1>1, <1>2, <1>3, <1>4, <1>5, <1>6, <1>7, <1>8, <1>9, <1>10, <1>11 DEF Main, Stop
  <1> QED BY StepKinds, <1>16, <1>12, <1>13, <1>14, <1>15

(* A descriptor just opened is the worker's alone until it is published.   *)
LEMMA FreshStep == ASSUME IInv, [Next]_vars PROVE FreshOwns'
  <1> USE DEF IInv, TypeOK, MainInv, OwnInv, SlotsOwn, StopOwns, FreshOwns, FreshKind, Slots
  <1>1. ASSUME Start PROVE FreshOwns'
    BY <1>1 DEF Start, others
  <1>2. ASSUME StartFails PROVE FreshOwns'
    BY <1>2 DEF StartFails, others
  <1>3. ASSUME StartListen PROVE FreshOwns'
    BY <1>3 DEF StartListen, others
  <1>4. ASSUME StartWorker PROVE FreshOwns'
    BY <1>4 DEF StartWorker
  <1>5. ASSUME UserStops PROVE FreshOwns'
    BY <1>5 DEF UserStops, StopBegins, BeginStop, kernel, others
  <1>6. ASSUME Polls PROVE FreshOwns'
    BY <1>6 DEF Polls, IsListening, StopBegins, BeginStop, kernel, others
  <1>7. ASSUME AbortControl PROVE FreshOwns'
    BY <1>7 DEF AbortControl, ShutdownAndAbort, lifecycle, others
  <1>8. ASSUME AbortData PROVE FreshOwns'
    BY <1>8 DEF AbortData, ShutdownAndAbort, others
  <1>9. ASSUME CloseListen PROVE FreshOwns'
    BY <1>9 DEF CloseListen, CloseAccept, CloseByMain, Closed, lifecycle, others
  <1>10. ASSUME ClosePassive PROVE FreshOwns'
    BY <1>10 DEF ClosePassive, CloseAccept, CloseByMain, Closed, lifecycle, others
  <1>11. ASSUME Join PROVE FreshOwns'
    BY <1>11 DEF Join
  <1>12. ASSUME Moves PROVE FreshOwns'
    BY <1>12 DEF Moves, kernel, manager
  <1>13. ASSUME Opens PROVE FreshOwns'
    BY <1>13 DEF Opens, Quiet, Socket, manager
  <1>14. ASSUME Publishes PROVE FreshOwns'
    BY <1>14 DEF Publishes
  <1>15. ASSUME Closes PROVE FreshOwns'
    BY <1>15 DEF Closes, Quiet, Closed, manager
  <1>16. CASE Main
    BY <1>16, <1>1, <1>2, <1>3, <1>4, <1>5, <1>6, <1>7, <1>8, <1>9, <1>10, <1>11 DEF Main, Stop
  <1> QED BY StepKinds, <1>16, <1>12, <1>13, <1>14, <1>15

(* A step that lets go of a descriptor closes it or hands it over.         *)
LEMMA AllStep == ASSUME IInv, [Next]_vars PROVE AllOwned'
  <1> USE DEF IInv, TypeOK, MainInv, OwnInv, AllOwned, FreshOwns, Slots
  <1>1. ASSUME Start PROVE AllOwned'
    BY <1>1 DEF Start, Fresh, kernel, others
  <1>2. ASSUME StartFails PROVE AllOwned'
    BY <1>2 DEF StartFails, Closed, Fresh, others
  <1>3. ASSUME StartListen PROVE AllOwned'
    BY <1>3 DEF StartListen, Socket, others
  <1>4. ASSUME StartWorker PROVE AllOwned'
    BY <1>4 DEF StartWorker, kernel
  <1>5. ASSUME UserStops PROVE AllOwned'
    BY <1>5 DEF UserStops, StopBegins, BeginStop, kernel, others, Stopping, NoSockets
  <1>6. ASSUME Polls PROVE AllOwned'
    BY <1>6 DEF Polls, IsListening, StopBegins, BeginStop, kernel, others, Stopping, NoSockets
  <1>7. ASSUME AbortControl PROVE AllOwned'
    BY <1>7 DEF AbortControl, ShutdownAndAbort, lifecycle, others
  <1>8. ASSUME AbortData PROVE AllOwned'
    BY <1>8 DEF AbortData, ShutdownAndAbort, others
  <1>9. ASSUME CloseListen PROVE AllOwned'
    BY <1>9 DEF CloseListen, CloseAccept, CloseByMain, Closed, lifecycle, others
  <1>10. ASSUME ClosePassive PROVE AllOwned'
    BY <1>10 DEF ClosePassive, CloseAccept, CloseByMain, Closed, lifecycle, others
  <1>11. ASSUME Join PROVE AllOwned'
    BY <1>11 DEF Join, Closed, Stopping
  <1>12. ASSUME Moves PROVE AllOwned'
    BY <1>12 DEF Moves, kernel, manager
  <1>13. ASSUME Opens PROVE AllOwned'
    BY <1>13 DEF Opens, Quiet, Socket, manager, NoSockets
  <1>14. ASSUME Publishes PROVE AllOwned'
    BY <1>14 DEF Publishes, Quiet, Closed, kernel, manager
  <1>15. ASSUME Closes PROVE AllOwned'
    BY <1>15 DEF Closes, Quiet, Closed, manager
  <1>16. CASE Main
    BY <1>16, <1>1, <1>2, <1>3, <1>4, <1>5, <1>6, <1>7, <1>8, <1>9, <1>10, <1>11 DEF Main, Stop
  <1> QED BY StepKinds, <1>16, <1>12, <1>13, <1>14, <1>15

(* Only connections are shut down, and only while a stop is running.       *)
LEMMA ShutStep == ASSUME IInv, [Next]_vars PROVE ShutInv'
  <1> USE DEF IInv, TypeOK, MainInv, OwnInv, SlotsOwn, AllOwned, FreshOwns, ShutInv, Slots
  <1>1. ASSUME Start PROVE ShutInv'
    BY <1>1 DEF Start, kernel, others, Stopping
  <1>2. ASSUME StartFails PROVE ShutInv'
    BY <1>2 DEF StartFails, Closed, others, Stopping
  <1>3. ASSUME StartListen PROVE ShutInv'
    BY <1>3 DEF StartListen, Socket, others
  <1>4. ASSUME StartWorker PROVE ShutInv'
    BY <1>4 DEF StartWorker, kernel
  <1>5. ASSUME UserStops PROVE ShutInv'
    BY <1>5 DEF UserStops, StopBegins, BeginStop, kernel, others
  <1>6. ASSUME Polls PROVE ShutInv'
    BY <1>6 DEF Polls, IsListening, StopBegins, BeginStop, kernel, others
  <1>7. ASSUME AbortControl PROVE ShutInv'
    BY <1>7, ManagerFtpAssumption DEF AbortControl, ShutdownAndAbort, lifecycle, others, Stopping
  <1>8. ASSUME AbortData PROVE ShutInv'
    BY <1>8, ManagerFtpAssumption DEF AbortData, ShutdownAndAbort, others, Stopping
  <1>9. ASSUME CloseListen PROVE ShutInv'
    BY <1>9 DEF CloseListen, CloseAccept, CloseByMain, Closed, lifecycle, others
  <1>10. ASSUME ClosePassive PROVE ShutInv'
    BY <1>10 DEF ClosePassive, CloseAccept, CloseByMain, Closed, lifecycle, others
  <1>11. ASSUME Join PROVE ShutInv'
    BY <1>11 DEF Join, Closed
  <1>12. ASSUME Moves PROVE ShutInv'
    BY <1>12 DEF Moves, kernel
  <1>13. ASSUME Opens PROVE ShutInv'
    BY <1>13 DEF Opens, Quiet, Socket
  <1>14. ASSUME Publishes PROVE ShutInv'
    BY <1>14 DEF Publishes, Quiet, Closed, kernel
  <1>15. ASSUME Closes PROVE ShutInv'
    BY <1>15 DEF Closes, Quiet, Closed
  <1>16. CASE Main
    BY <1>16, <1>1, <1>2, <1>3, <1>4, <1>5, <1>6, <1>7, <1>8, <1>9, <1>10, <1>11 DEF Main, Stop
  <1> QED BY StepKinds, <1>16, <1>12, <1>13, <1>14, <1>15

(* Every call the worker sleeps in is on a descriptor.                     *)
LEMMA CallTypeStep == ASSUME IInv, [Next]_vars PROVE CallType'
  <1> USE DEF IInv, TypeOK, CallType, Calls, Slots
  <1>1. ASSUME Start PROVE CallType'
    <2>1. /\ worker_running' = FALSE /\ UNCHANGED <<started, cur, asleep, worker>>
          /\ \/ UNCHANGED faults
             \/ Fault
      BY <1>1 DEF Start, Fresh, others, call
    <2>2. faults' \in 0 .. MaxFaults
      BY <2>1, ManagerFtpAssumption DEF Fault
    <2> QED BY <2>1, <2>2
  <1>2. ASSUME StartFails PROVE CallType'
    <2>1. /\ worker_running' = FALSE /\ UNCHANGED <<started, cur, asleep, worker>>
          /\ \/ UNCHANGED faults
             \/ Fault
      BY <1>2 DEF StartFails, Fresh, others, call
    <2>2. faults' \in 0 .. MaxFaults
      BY <2>1, ManagerFtpAssumption DEF Fault
    <2> QED BY <2>1, <2>2
  <1>3. ASSUME StartListen PROVE CallType'
    BY <1>3 DEF StartListen, call, others
  <1>4. ASSUME StartWorker PROVE CallType'
    BY <1>4 DEF StartWorker, call
  <1>5. ASSUME UserStops PROVE CallType'
    BY <1>5 DEF UserStops, StopBegins, BeginStop, call, others
  <1>6. ASSUME Polls PROVE CallType'
    BY <1>6 DEF Polls, IsListening, StopBegins, BeginStop, call, others
  <1>7. ASSUME AbortControl PROVE CallType'
    BY <1>7 DEF AbortControl, ShutdownAndAbort, Woken, lifecycle, others
  <1>8. ASSUME AbortData PROVE CallType'
    BY <1>8 DEF AbortData, ShutdownAndAbort, Woken, others
  <1>9. ASSUME CloseListen PROVE CallType'
    BY <1>9 DEF CloseListen, CloseAccept, CloseByMain, Woken, lifecycle, others
  <1>10. ASSUME ClosePassive PROVE CallType'
    BY <1>10 DEF ClosePassive, CloseAccept, CloseByMain, Woken, lifecycle, others
  <1>11. ASSUME Join PROVE CallType'
    BY <1>11 DEF Join, Fresh, call
  <1>12. ASSUME Loop PROVE CallType'
    BY <1>12 DEF Loop, Load, LoadWhileRunning, Running, Call, Goto, call, lifecycle, manager
  <1>13. ASSUME Ending PROVE CallType'
    BY <1>13 DEF Ending, Goto, manager, call
  <1>14. ASSUME PublishControl PROVE CallType'
    BY <1>14 DEF PublishControl, Publish, Goto, quiet, manager, call
  <1>15. ASSUME Reply("greet", "check", "leave") PROVE CallType'
    BY <1>15 DEF Reply, ReplyWhileRunning, Running, Call, call, Goto, lifecycle, manager
  <1>16. ASSUME AcceptFails("accept", "ending") PROVE CallType'
    BY <1>16, ManagerFtpAssumption
       DEF AcceptFails, CallFails, Fault, Returns, Call, Goto, settled, lifecycle, manager
  <1>17. ASSUME AcceptFails("acceptPassive", "takePassive") PROVE CallType'
    BY <1>17, ManagerFtpAssumption
       DEF AcceptFails, CallFails, Fault, Returns, Call, Goto, settled, lifecycle, manager
  <1>18. ASSUME ReplyFails PROVE CallType'
    BY <1>18, ManagerFtpAssumption
       DEF ReplyFails, CallFails, Fault, Returns, Call, beyond, lifecycle, manager, PlaceInv,
           Replying, Answering, Refusing
  <1>19. ASSUME Check PROVE CallType'
    BY <1>19 DEF Check, LoadWhileRunning, Running, Call, Goto, call, lifecycle, manager, NoUpload
  <1>20. ASSUME CommandFails PROVE CallType'
    BY <1>20, ManagerFtpAssumption
       DEF CommandFails, CallFails, Fault, Returns, Call, Goto, beyond, lifecycle, manager
  <1>21. ASSUME Leave PROVE CallType'
    BY <1>21 DEF Leave, CloseDataThen, local, beyond, lifecycle, manager, call
  <1>22. ASSUME CloseData PROVE CallType'
    BY <1>22 DEF CloseData, Close, quiet, manager, call
  <1>23. ASSUME CloseDataPassive PROVE CallType'
    BY <1>23 DEF CloseDataPassive, Close, quiet, manager, call, Nowhere, PlaceInv, AfterClose
  <1>24. ASSUME CloseControl PROVE CallType'
    BY <1>24 DEF CloseControl, Close, quiet, manager, call
  <1>25. ASSUME Other PROVE CallType'
    BY <1>25 DEF Other, Reply, ReplyWhileRunning, Running, Call, call, Goto, lifecycle, manager
  <1>26. ASSUME Quit PROVE CallType'
    BY <1>26 DEF Quit, Reply, ReplyWhileRunning, Running, Call, call, Goto, lifecycle, manager
  <1>27. ASSUME Delete PROVE CallType'
    BY <1>27, ManagerFtpAssumption
       DEF Delete, Dispatched, Goto, Fault, local, beyond, lifecycle, manager, call
  <1>28. ASSUME RenameFrom PROVE CallType'
    BY <1>28, ManagerFtpAssumption
       DEF RenameFrom, Goto, Exists, Fault, local, beyond, lifecycle, manager, call
  <1>29. ASSUME RenameTo PROVE CallType'
    BY <1>29, ManagerFtpAssumption
       DEF RenameTo, Goto, Exists, Fault, local, beyond, lifecycle, manager, call
  <1>30. ASSUME Answer PROVE CallType'
    BY <1>30 DEF Answer, Reply, ReplyWhileRunning, Running, Call, call, Goto, lifecycle, manager
  <1>31. ASSUME Passive PROVE CallType'
    BY <1>31 DEF Passive, Dispatched, CloseDataThen, local, beyond, lifecycle, manager, call
  <1>32. ASSUME PassiveSocket PROVE CallType'
    BY <1>32, ManagerFtpAssumption
       DEF PassiveSocket, Goto, Fault, settled, lifecycle, manager, call
  <1>33. ASSUME PublishPassive PROVE CallType'
    BY <1>33 DEF PublishPassive, Publish, Goto, quiet, manager, Call
  <1>34. ASSUME Bind PROVE CallType'
    BY <1>34, ManagerFtpAssumption
       DEF Bind, Goto, CloseDataThen, Fault, Returns, Call, beyond, lifecycle, manager
  <1>35. ASSUME SendOpens PROVE CallType'
    <2>1. UNCHANGED <<worker_running, started, cur, asleep>>
      BY <1>35 DEF SendOpens, local, beyond, lifecycle, manager, call
    <2>2. worker' \in {"accept data", "answer"}
      BY <1>35 DEF SendOpens, Goto
    <2>3. UNCHANGED faults \/ Fault
      BY <1>35, Zenon DEF SendOpens
    <2>4. faults' \in 0 .. MaxFaults
      BY <2>3, ManagerFtpAssumption DEF Fault
    <2> QED BY <2>1, <2>2, <2>4
  <1>36. ASSUME StoreBegins PROVE CallType'
    BY <1>36 DEF StoreBegins, Dispatched, Goto, local, beyond, lifecycle, manager, call
  <1>37. ASSUME AcceptData PROVE CallType'
    BY <1>37 DEF AcceptData, Load, LoadWhileRunning, Running, Call, Goto, call, lifecycle, manager
  <1>38. ASSUME TakePassive PROVE CallType'
    BY <1>38 DEF TakePassive, Close, quiet, manager, call
  <1>39. ASSUME PublishData PROVE CallType'
    BY <1>39 DEF PublishData, Publish, Goto, quiet, manager, call
  <1>40. ASSUME PeerDiffers PROVE CallType'
    BY <1>40 DEF PeerDiffers, Close, quiet, manager, call
  <1>41. ASSUME PeerMatches PROVE CallType'
    BY <1>41 DEF PeerMatches, Goto, local, beyond, lifecycle, manager, call
  <1>42. ASSUME Refuse PROVE CallType'
    BY <1>42 DEF Refuse, Reply, ReplyWhileRunning, Running, Call, call, Goto, lifecycle, manager
  <1>43. ASSUME Drop PROVE CallType'
    BY <1>43 DEF Drop, Goto, local, beyond, lifecycle, manager, call
  <1>44. ASSUME Create PROVE CallType'
    BY <1>44, ManagerFtpAssumption
       DEF Create, Goto, Fault, CloseDataThen, local, beyond, lifecycle, manager, call
  <1>45. ASSUME Opening PROVE CallType'
    BY <1>45 DEF Opening, Reply, ReplyWhileRunning, Running, Call, call, Goto, lifecycle, manager
  <1>46. ASSUME LoadData PROVE CallType'
    BY <1>46 DEF LoadData, Load, LoadWhileRunning, Running, Call, Goto, call, lifecycle, manager
  <1>47. ASSUME Abandon PROVE CallType'
    BY <1>47 DEF Abandon, CloseDataThen, local, beyond, lifecycle, manager, call
  <1>48. ASSUME EndOfFile PROVE CallType'
    BY <1>48 DEF EndOfFile, Ends, Returns, Call, CloseDataThen, beyond, lifecycle, manager
  <1>49. ASSUME DataFails PROVE CallType'
    BY <1>49, ManagerFtpAssumption
       DEF DataFails, CallFails, Fault, Ends, Returns, Call, CloseDataThen, beyond, lifecycle,
           manager
  <1>50. ASSUME Write PROVE CallType'
    BY <1>50, ManagerFtpAssumption
       DEF Write, Call, Fault, Ends, Returns, CloseDataThen, beyond, lifecycle, manager, CallInv
  <1>51. ASSUME Aborted PROVE CallType'
    BY <1>51, ManagerFtpAssumption
       DEF Aborted, Goto, Fault, local, beyond, lifecycle, manager, call
  <1>52. ASSUME Complete PROVE CallType'
    BY <1>52 DEF Complete, ReplyWhileRunning, Running, Call, call, Goto, lifecycle, manager
  <1>53. ASSUME Connects("accept", "CONTROL", "publishControl") PROVE CallType'
    BY <1>53 DEF Connects, Returns, Call, Goto, settled, lifecycle, manager
  <1>54. ASSUME Connects("acceptPassive", "DATA", "takePassive") PROVE CallType'
    BY <1>54 DEF Connects, Returns, Call, Goto, settled, lifecycle, manager
  <1>55. ASSUME Command PROVE CallType'
    BY <1>55 DEF Command, Delivers, Returns, Call, Goto, beyond, lifecycle, manager
  <1>56. ASSUME ClientLeaves PROVE CallType'
    BY <1>56 DEF ClientLeaves, Returns, Call, Goto, beyond, lifecycle, manager
  <1>57. ASSUME SendReply PROVE CallType'
    BY <1>57
       DEF SendReply, Returns, Call, beyond, lifecycle, manager, PlaceInv, Replying, Answering,
           Refusing
  <1>58. ASSUME Sent PROVE CallType'
    BY <1>58 DEF Sent, Ends, Returns, Call, CloseDataThen, beyond, lifecycle, manager
  <1>59. ASSUME Receive PROVE CallType'
    BY <1>59 DEF Receive, Delivers, local, beyond, lifecycle, manager, call
  <1>60. ASSUME ClientSends PROVE CallType'
    BY <1>60 DEF ClientSends, Uploading, lifecycle, manager, call
  <1>61. ASSUME ClientCloses PROVE CallType'
    BY <1>61 DEF ClientCloses, Uploading, lifecycle, manager, call
  <1>62. ASSUME Sleep PROVE CallType'
    BY <1>62 DEF Sleep, lifecycle, manager
  <1>63. CASE UNCHANGED vars
    BY <1>63 DEF vars, lifecycle, manager, call
  <1>64. CASE Main
    BY <1>64, <1>1, <1>2, <1>3, <1>4, <1>5, <1>6, <1>7, <1>8, <1>9, <1>10, <1>11 DEF Main, Stop
  <1>65. CASE Worker
    BY <1>65, <1>12, <1>13, <1>14, <1>15, <1>16, <1>17, <1>18, <1>19, <1>20, <1>21, <1>22, <1>23,
       <1>24, <1>25, <1>26, <1>27, <1>28, <1>29, <1>30, <1>31, <1>32, <1>33, <1>34, <1>35, <1>36,
       <1>37, <1>38, <1>39, <1>40, <1>41, <1>42, <1>43, <1>44, <1>45, <1>46, <1>47, <1>48, <1>49,
       <1>50, <1>51, <1>52
       DEF Worker, Accepts
  <1>66. CASE Client
    BY <1>66, <1>53, <1>54, <1>55, <1>56, <1>57, <1>58, <1>59, <1>60, <1>61 DEF Client
  <1> QED BY <1>62, <1>63, <1>64, <1>65, <1>66 DEF Next

(* The number the worker sleeps on is still the socket it called on, or a  *)
(* stop has closed it.                                                     *)
LEMMA CallStep == ASSUME IInv, [Next]_vars PROVE CallInv'
  <1> USE DEF IInv, TypeOK, MainInv, OwnInv, SlotsOwn, StopOwns, CallInv, Calls, Kind, Slots
  <1>1. ASSUME Start PROVE CallInv'
    BY <1>1 DEF Start, call, others
  <1>2. ASSUME StartFails PROVE CallInv'
    BY <1>2 DEF StartFails, call, others
  <1>3. ASSUME StartListen PROVE CallInv'
    BY <1>3 DEF StartListen, call, others
  <1>4. ASSUME StartWorker PROVE CallInv'
    BY <1>4 DEF StartWorker, call
  <1>5. ASSUME UserStops PROVE CallInv'
    BY <1>5 DEF UserStops, StopBegins, BeginStop, kernel, call, others
  <1>6. ASSUME Polls PROVE CallInv'
    BY <1>6 DEF Polls, IsListening, StopBegins, BeginStop, kernel, call, others
  <1>7. ASSUME AbortControl PROVE CallInv'
    BY <1>7 DEF AbortControl, ShutdownAndAbort, Woken, lifecycle, others, Stopping
  <1>8. ASSUME AbortData PROVE CallInv'
    BY <1>8 DEF AbortData, ShutdownAndAbort, Woken, others, Stopping
  <1>9. ASSUME CloseListen PROVE CallInv'
    BY <1>9, ManagerFtpAssumption
       DEF CloseListen, CloseAccept, CloseByMain, Closed, Woken, lifecycle, others, Stopping
  <1>10. ASSUME ClosePassive PROVE CallInv'
    BY <1>10, ManagerFtpAssumption
       DEF ClosePassive, CloseAccept, CloseByMain, Closed, Woken, lifecycle, others, Stopping
  <1>11. ASSUME Join PROVE CallInv'
    BY <1>11 DEF Join, call
  <1>12. ASSUME Loop PROVE CallInv'
    BY <1>12 DEF Loop, Load, LoadWhileRunning, Running, Call, Goto, call, kernel
  <1>13. ASSUME Ending PROVE CallInv'
    BY <1>13 DEF Ending, Goto, call
  <1>14. ASSUME PublishControl PROVE CallInv'
    BY <1>14 DEF PublishControl, Publish, Goto, quiet, call
  <1>15. ASSUME Reply("greet", "check", "leave") PROVE CallInv'
    BY <1>15 DEF Reply, ReplyWhileRunning, Running, Call, call, Goto, kernel
  <1>16. ASSUME AcceptFails("accept", "ending") PROVE CallInv'
    BY <1>16 DEF AcceptFails, Returns, Call, Goto, settled
  <1>17. ASSUME AcceptFails("acceptPassive", "takePassive") PROVE CallInv'
    BY <1>17 DEF AcceptFails, Returns, Call, Goto, settled
  <1>18. ASSUME ReplyFails PROVE CallInv'
    BY <1>18 DEF ReplyFails, Returns, Call, Nowhere, PlaceInv, Replying, Answering, Refusing
  <1>19. ASSUME Check PROVE CallInv'
    BY <1>19 DEF Check, LoadWhileRunning, Running, Call, Goto, call, kernel, NoUpload
  <1>20. ASSUME CommandFails PROVE CallInv'
    BY <1>20 DEF CommandFails, Returns, Call, Goto
  <1>21. ASSUME Leave PROVE CallInv'
    BY <1>21 DEF Leave, CloseDataThen, local, call
  <1>22. ASSUME CloseData PROVE CallInv'
    BY <1>22 DEF CloseData, Close, quiet, call
  <1>23. ASSUME CloseDataPassive PROVE CallInv'
    BY <1>23 DEF CloseDataPassive, Close, quiet, call, Nowhere, PlaceInv, AfterClose
  <1>24. ASSUME CloseControl PROVE CallInv'
    BY <1>24 DEF CloseControl, Close, quiet, call
  <1>25. ASSUME Other PROVE CallInv'
    BY <1>25 DEF Other, Dispatched, Reply, ReplyWhileRunning, Running, Call, call, Goto, kernel
  <1>26. ASSUME Quit PROVE CallInv'
    BY <1>26 DEF Quit, Dispatched, Reply, ReplyWhileRunning, Running, Call, call, Goto, kernel
  <1>27. ASSUME Delete PROVE CallInv'
    BY <1>27 DEF Delete, Dispatched, Goto, local, call
  <1>28. ASSUME RenameFrom PROVE CallInv'
    BY <1>28 DEF RenameFrom, Dispatched, Goto, Exists, local, call
  <1>29. ASSUME RenameTo PROVE CallInv'
    BY <1>29 DEF RenameTo, Dispatched, Goto, Exists, local, call
  <1>30. ASSUME Answer PROVE CallInv'
    BY <1>30 DEF Answer, Reply, ReplyWhileRunning, Running, Call, call, Goto, kernel
  <1>31. ASSUME Passive PROVE CallInv'
    BY <1>31 DEF Passive, Dispatched, CloseDataThen, local, call
  <1>32. ASSUME PassiveSocket PROVE CallInv'
    BY <1>32 DEF PassiveSocket, Goto, settled, call
  <1>33. ASSUME PublishPassive PROVE CallInv'
    BY <1>33 DEF PublishPassive, Publish, Goto, quiet, Call
  <1>34. ASSUME Bind PROVE CallInv'
    BY <1>34 DEF Bind, Goto, CloseDataThen, Returns, Call
  <1>35. ASSUME SendOpens PROVE CallInv'
    BY <1>35 DEF SendOpens, Dispatched, Exists, Goto, local, call
  <1>36. ASSUME StoreBegins PROVE CallInv'
    BY <1>36 DEF StoreBegins, Dispatched, Goto, local, call
  <1>37. ASSUME AcceptData PROVE CallInv'
    BY <1>37 DEF AcceptData, Load, LoadWhileRunning, Running, Call, Goto, call, kernel
  <1>38. ASSUME TakePassive PROVE CallInv'
    BY <1>38 DEF TakePassive, Close, quiet, call
  <1>39. ASSUME PublishData PROVE CallInv'
    BY <1>39 DEF PublishData, Publish, Goto, quiet, call
  <1>40. ASSUME PeerDiffers PROVE CallInv'
    BY <1>40 DEF PeerDiffers, Close, quiet, call
  <1>41. ASSUME PeerMatches PROVE CallInv'
    BY <1>41 DEF PeerMatches, Goto, local, call
  <1>42. ASSUME Refuse PROVE CallInv'
    BY <1>42 DEF Refuse, Reply, ReplyWhileRunning, Running, Call, call, Goto, kernel
  <1>43. ASSUME Drop PROVE CallInv'
    BY <1>43 DEF Drop, Goto, local, call
  <1>44. ASSUME Create PROVE CallInv'
    BY <1>44 DEF Create, Goto, CloseDataThen, local, call
  <1>45. ASSUME Opening PROVE CallInv'
    BY <1>45 DEF Opening, Reply, ReplyWhileRunning, Running, Call, call, Goto, kernel
  <1>46. ASSUME LoadData PROVE CallInv'
    BY <1>46 DEF LoadData, Load, LoadWhileRunning, Running, Call, Goto, call, kernel
  <1>47. ASSUME Abandon PROVE CallInv'
    BY <1>47 DEF Abandon, CloseDataThen, local, call
  <1>48. ASSUME EndOfFile PROVE CallInv'
    BY <1>48 DEF EndOfFile, Ends, Returns, Call, CloseDataThen
  <1>49. ASSUME DataFails PROVE CallInv'
    BY <1>49 DEF DataFails, Ends, Returns, Call, CloseDataThen
  <1>50. ASSUME Write PROVE CallInv'
    BY <1>50 DEF Write, Goto, Call, Ends, Returns, CloseDataThen, beyond, lifecycle, kernel
  <1>51. ASSUME Aborted PROVE CallInv'
    BY <1>51 DEF Aborted, Goto, local, call
  <1>52. ASSUME Complete PROVE CallInv'
    BY <1>52 DEF Complete, ReplyWhileRunning, Running, Call, call, Goto, kernel
  <1>53. ASSUME Connects("accept", "CONTROL", "publishControl") PROVE CallInv'
    BY <1>53 DEF Connects, Returns, Call, Goto, settled
  <1>54. ASSUME Connects("acceptPassive", "DATA", "takePassive") PROVE CallInv'
    BY <1>54 DEF Connects, Returns, Call, Goto, settled
  <1>55. ASSUME Command PROVE CallInv'
    BY <1>55 DEF Command, Delivers, Returns, Call, Goto
  <1>56. ASSUME ClientLeaves PROVE CallInv'
    BY <1>56 DEF ClientLeaves, Returns, Call, Goto
  <1>57. ASSUME SendReply PROVE CallInv'
    BY <1>57 DEF SendReply, Returns, Call, Nowhere, PlaceInv, Replying, Answering, Refusing
  <1>58. ASSUME Sent PROVE CallInv'
    BY <1>58 DEF Sent, Ends, Returns, Call, CloseDataThen
  <1>59. ASSUME Receive PROVE CallInv'
    BY <1>59 DEF Receive, Delivers, Goto, local, beyond, lifecycle, kernel, call
  <1>60. ASSUME ClientSends PROVE CallInv'
    BY <1>60 DEF ClientSends, Uploading, lifecycle, kernel, call
  <1>61. ASSUME ClientCloses PROVE CallInv'
    BY <1>61 DEF ClientCloses, Uploading, lifecycle, kernel, call
  <1>62. ASSUME Sleep PROVE CallInv'
    BY <1>62 DEF Sleep, Broken, kernel
  <1>63. CASE UNCHANGED vars
    BY <1>63 DEF vars, lifecycle, kernel, call
  <1>64. CASE Main
    BY <1>64, <1>1, <1>2, <1>3, <1>4, <1>5, <1>6, <1>7, <1>8, <1>9, <1>10, <1>11 DEF Main, Stop
  <1>65. CASE Worker
    BY <1>65, <1>12, <1>13, <1>14, <1>15, <1>16, <1>17, <1>18, <1>19, <1>20, <1>21, <1>22, <1>23,
       <1>24, <1>25, <1>26, <1>27, <1>28, <1>29, <1>30, <1>31, <1>32, <1>33, <1>34, <1>35, <1>36,
       <1>37, <1>38, <1>39, <1>40, <1>41, <1>42, <1>43, <1>44, <1>45, <1>46, <1>47, <1>48, <1>49,
       <1>50, <1>51, <1>52
       DEF Worker, Accepts
  <1>66. CASE Client
    BY <1>66, <1>53, <1>54, <1>55, <1>56, <1>57, <1>58, <1>59, <1>60, <1>61 DEF Client
  <1> QED BY <1>62, <1>63, <1>64, <1>65, <1>66 DEF Next

(* Each helper goes back to the command that called it.                    *)
LEMMA PlaceStep == ASSUME IInv, [Next]_vars PROVE PlaceInv'
  <1>a. WorkerType /\ PlaceInv
    BY TypeParts DEF IInv
  <1> USE DEF WorkerType, PlaceInv, Transfer, Replying, Answering, Refusing, AfterClose
  <1>1. ASSUME Leaves PROVE PlaceInv'
    BY <1>1, <1>a DEF Leaves, session
  <1>2. ASSUME Loop PROVE PlaceInv'
    BY <1>2, <1>a DEF Loop, Load, LoadWhileRunning, Goto, session
  <1>3. ASSUME Ending PROVE PlaceInv'
    BY <1>3, <1>a DEF Ending, Goto, session
  <1>4. ASSUME PublishControl PROVE PlaceInv'
    BY <1>4, <1>a DEF PublishControl, Publish, Goto, quiet
  <1>5. ASSUME Reply("greet", "check", "leave") PROVE PlaceInv'
    <2>1. Replied("greet", "check", "leave")
      BY <1>5, ReplySteps
    <2> QED BY <2>1, <1>a DEF Replied, kernel, manager, session
  <1>6. ASSUME AcceptFails("accept", "ending") PROVE PlaceInv'
    BY <1>6, <1>a DEF AcceptFails, Goto, settled, session
  <1>7. ASSUME AcceptFails("acceptPassive", "takePassive") PROVE PlaceInv'
    BY <1>7, <1>a DEF AcceptFails, Goto, settled, session
  <1>8. ASSUME ReplyFails PROVE PlaceInv'
    BY <1>8, <1>a DEF ReplyFails, Nowhere, session
  <1>9. ASSUME Check PROVE PlaceInv'
    BY <1>9 DEF Check, LoadWhileRunning, Goto, NoUpload, Named
  <1>10. ASSUME CommandFails PROVE PlaceInv'
    BY <1>10, <1>a DEF CommandFails, Goto, session
  <1>11. ASSUME Leave PROVE PlaceInv'
    BY <1>11, <1>a DEF Leave, CloseDataThen, local, session
  <1>12. ASSUME CloseData PROVE PlaceInv'
    BY <1>12, <1>a DEF CloseData, Close, quiet, session
  <1>13. ASSUME CloseDataPassive PROVE PlaceInv'
    BY <1>13, <1>a DEF CloseDataPassive, Close, quiet, session, Nowhere
  <1>14. ASSUME CloseControl PROVE PlaceInv'
    BY <1>14, <1>a DEF CloseControl, Close, quiet, session
  <1>15. ASSUME Other PROVE PlaceInv'
    <2>1. Replied("dispatch", "check", "check") /\ cmd = "OTHER"
      BY <1>15, ReplySteps
    <2> QED BY <2>1, <1>a DEF Replied, kernel, manager, session
  <1>16. ASSUME Quit PROVE PlaceInv'
    <2>1. Replied("dispatch", "leave", "leave") /\ cmd = "QUIT"
      BY <1>16, ReplySteps
    <2> QED BY <2>1, <1>a DEF Replied, kernel, manager, session
  <1>17. ASSUME Delete PROVE PlaceInv'
    BY <1>17, <1>a DEF Delete, Dispatched, Goto, local, session
  <1>18. ASSUME RenameFrom PROVE PlaceInv'
    BY <1>18, <1>a DEF RenameFrom, Dispatched, Goto, Exists
  <1>19. ASSUME RenameTo PROVE PlaceInv'
    BY <1>19, <1>a DEF RenameTo, Dispatched, Goto, Exists
  <1>20. ASSUME Answer PROVE PlaceInv'
    <2>1. Replied("answer", "check", "check")
      BY <1>20, ReplySteps
    <2> QED BY <2>1, <1>a DEF Replied, kernel, manager, session
  <1>21. ASSUME Passive PROVE PlaceInv'
    BY <1>21, <1>a DEF Passive, Dispatched, CloseDataThen, local, session
  <1>22. ASSUME PassiveSocket PROVE PlaceInv'
    BY <1>22, <1>a DEF PassiveSocket, Goto, settled, session
  <1>23. ASSUME PublishPassive PROVE PlaceInv'
    BY <1>23, <1>a DEF PublishPassive, Publish, Goto, quiet, session
  <1>24. ASSUME Bind PROVE PlaceInv'
    BY <1>24, <1>a DEF Bind, Goto, CloseDataThen, session
  <1>25. ASSUME SendOpens PROVE PlaceInv'
    BY <1>25, <1>a DEF SendOpens, Dispatched, Exists, Goto, local, session
  <1>26. ASSUME StoreBegins PROVE PlaceInv'
    BY <1>26, <1>a DEF StoreBegins, Dispatched, Goto, local, session
  <1>27. ASSUME AcceptData PROVE PlaceInv'
    BY <1>27, <1>a DEF AcceptData, Load, LoadWhileRunning, Goto, session
  <1>28. ASSUME TakePassive PROVE PlaceInv'
    BY <1>28, <1>a DEF TakePassive, Close, quiet, session
  <1>29. ASSUME PublishData PROVE PlaceInv'
    BY <1>29, <1>a DEF PublishData, Publish, Goto, quiet, session
  <1>30. ASSUME PeerDiffers PROVE PlaceInv'
    BY <1>30, <1>a DEF PeerDiffers, Close, quiet, session
  <1>31. ASSUME PeerMatches PROVE PlaceInv'
    BY <1>31, <1>a DEF PeerMatches, Goto, local, session
  <1>32. ASSUME Refuse PROVE PlaceInv'
    <2>1. Replied("refuse", "drop", "drop")
      BY <1>32, ReplySteps
    <2> QED BY <2>1, <1>a DEF Replied, kernel, manager, session
  <1>33. ASSUME Drop PROVE PlaceInv'
    BY <1>33, <1>a DEF Drop, Goto, local, session
  <1>34. ASSUME Create PROVE PlaceInv'
    BY <1>34, <1>a DEF Create, Goto, CloseDataThen, local, session
  <1>35. ASSUME Opening PROVE PlaceInv'
    <2>1. Replied("opening", "loadData", "abandon")
      BY <1>35, ReplySteps
    <2> QED BY <2>1, <1>a DEF Replied, kernel, manager, session
  <1>36. ASSUME LoadData PROVE PlaceInv'
    BY <1>36, <1>a DEF LoadData, Load, LoadWhileRunning, Goto, session
  <1>37. ASSUME Abandon PROVE PlaceInv'
    BY <1>37, <1>a DEF Abandon, CloseDataThen, local, session
  <1>38. ASSUME EndOfFile PROVE PlaceInv'
    BY <1>38, <1>a DEF EndOfFile, Ends, CloseDataThen, session
  <1>39. ASSUME DataFails PROVE PlaceInv'
    BY <1>39, <1>a DEF DataFails, Ends, CloseDataThen, session
  <1>40. ASSUME Write PROVE PlaceInv'
    BY <1>40, <1>a DEF Write, Goto, Ends, CloseDataThen, session
  <1>41. ASSUME Aborted PROVE PlaceInv'
    BY <1>41, <1>a DEF Aborted, Goto, local, session
  <1>42. ASSUME Complete PROVE PlaceInv'
    <2>1. Replied("complete", "check", "check")
      BY <1>42, ReplySteps
    <2> QED BY <2>1, <1>a DEF Replied, kernel, manager, session
  <1>43. ASSUME Connects("accept", "CONTROL", "publishControl") PROVE PlaceInv'
    BY <1>43, <1>a DEF Connects, Goto, settled, session
  <1>44. ASSUME Connects("acceptPassive", "DATA", "takePassive") PROVE PlaceInv'
    BY <1>44, <1>a DEF Connects, Goto, settled, session
  <1>45. ASSUME Command PROVE PlaceInv'
    BY <1>45 DEF Command, Delivers, Goto
  <1>46. ASSUME ClientLeaves PROVE PlaceInv'
    BY <1>46, <1>a DEF ClientLeaves, Goto, session
  <1>47. ASSUME SendReply PROVE PlaceInv'
    BY <1>47, <1>a DEF SendReply, Nowhere, session
  <1>48. ASSUME Sent PROVE PlaceInv'
    BY <1>48, <1>a DEF Sent, Ends, CloseDataThen, session
  <1>49. ASSUME Receive PROVE PlaceInv'
    BY <1>49, <1>a DEF Receive, Delivers, Goto, local, session
  <1>50. ASSUME ClientSends PROVE PlaceInv'
    BY <1>50, <1>a DEF ClientSends, Uploading, session
  <1>51. ASSUME ClientCloses PROVE PlaceInv'
    BY <1>51, <1>a DEF ClientCloses, Uploading, session
  <1>52. ASSUME Sleep PROVE PlaceInv'
    BY <1>52, <1>a DEF Sleep, session
  <1>53. CASE UNCHANGED vars
    BY <1>53, <1>a DEF vars, session
  <1>54. CASE Worker
    BY <1>54, <1>2, <1>3, <1>4, <1>5, <1>6, <1>7, <1>8, <1>9, <1>10, <1>11, <1>12, <1>13, <1>14,
       <1>15, <1>16, <1>17, <1>18, <1>19, <1>20, <1>21, <1>22, <1>23, <1>24, <1>25, <1>26, <1>27,
       <1>28, <1>29, <1>30, <1>31, <1>32, <1>33, <1>34, <1>35, <1>36, <1>37, <1>38, <1>39, <1>40,
       <1>41, <1>42
       DEF Worker, Accepts
  <1>55. CASE Client
    BY <1>55, <1>43, <1>44, <1>45, <1>46, <1>47, <1>48, <1>49, <1>50, <1>51 DEF Client
  <1> QED BY MainLeaves, <1>1, <1>52, <1>53, <1>54, <1>55 DEF Next

(* Every way out of a transfer closes its file.                            *)
LEMMA FileStep == ASSUME IInv, [Next]_vars PROVE HasFile'
  <1>a. WorkerType /\ PlaceInv /\ HasFile /\ handle \in BOOLEAN
    BY TypeParts DEF IInv, CardType
  <1> USE DEF PlaceInv, HasFile, Transfer, Replying, Answering, Refusing, AfterClose
  <1>1. ASSUME Leaves PROVE HasFile'
    BY <1>1, <1>a DEF Leaves, session, card
  <1>2. ASSUME Loop PROVE HasFile'
    BY <1>2, <1>a DEF Loop, Load, LoadWhileRunning, card
  <1>3. ASSUME Ending PROVE HasFile'
    BY <1>3, <1>a DEF Ending, card
  <1>4. ASSUME PublishControl PROVE HasFile'
    BY <1>4, <1>a DEF PublishControl, Publish, quiet
  <1>5. ASSUME Reply("greet", "check", "leave") PROVE HasFile'
    <2>1. Replied("greet", "check", "leave")
      BY <1>5, ReplySteps
    <2> QED BY <2>1, <1>a DEF Replied, kernel, manager, session
  <1>6. ASSUME AcceptFails("accept", "ending") PROVE HasFile'
    BY <1>6, <1>a DEF AcceptFails, settled, card
  <1>7. ASSUME AcceptFails("acceptPassive", "takePassive") PROVE HasFile'
    BY <1>7, <1>a DEF AcceptFails, Goto, settled, session, card
  <1>8. ASSUME ReplyFails PROVE HasFile'
    BY <1>8, <1>a DEF ReplyFails, Nowhere, session, card
  <1>9. ASSUME Check PROVE HasFile'
    BY <1>9, <1>a DEF Check, LoadWhileRunning, NoUpload
  <1>10. ASSUME CommandFails PROVE HasFile'
    BY <1>10, <1>a DEF CommandFails, card
  <1>11. ASSUME Leave PROVE HasFile'
    BY <1>11, <1>a DEF Leave, CloseDataThen, local, card
  <1>12. ASSUME CloseData PROVE HasFile'
    BY <1>12, <1>a DEF CloseData, Close, quiet, card
  <1>13. ASSUME CloseDataPassive PROVE HasFile'
    BY <1>13, <1>a DEF CloseDataPassive, Close, quiet, card, Nowhere
  <1>14. ASSUME CloseControl PROVE HasFile'
    BY <1>14, <1>a DEF CloseControl, Close, quiet, card
  <1>15. ASSUME Other PROVE HasFile'
    <2>1. Replied("dispatch", "check", "check") /\ cmd = "OTHER"
      BY <1>15, ReplySteps
    <2> QED BY <2>1, <1>a DEF Replied, kernel, manager, session
  <1>16. ASSUME Quit PROVE HasFile'
    <2>1. Replied("dispatch", "leave", "leave") /\ cmd = "QUIT"
      BY <1>16, ReplySteps
    <2> QED BY <2>1, <1>a DEF Replied, kernel, manager, session
  <1>17. ASSUME Delete PROVE HasFile'
    BY <1>17, <1>a DEF Delete, Dispatched
  <1>18. ASSUME RenameFrom PROVE HasFile'
    BY <1>18, <1>a DEF RenameFrom, Dispatched, Exists, local, card
  <1>19. ASSUME RenameTo PROVE HasFile'
    BY <1>19, <1>a DEF RenameTo, Dispatched, Exists
  <1>20. ASSUME Answer PROVE HasFile'
    <2>1. Replied("answer", "check", "check")
      BY <1>20, ReplySteps
    <2> QED BY <2>1, <1>a DEF Replied, kernel, manager, session
  <1>21. ASSUME Passive PROVE HasFile'
    BY <1>21, <1>a DEF Passive, Dispatched, CloseDataThen, local, card
  <1>22. ASSUME PassiveSocket PROVE HasFile'
    BY <1>22, <1>a DEF PassiveSocket, settled, card
  <1>23. ASSUME PublishPassive PROVE HasFile'
    BY <1>23, <1>a DEF PublishPassive, Publish, quiet
  <1>24. ASSUME Bind PROVE HasFile'
    BY <1>24, <1>a DEF Bind, CloseDataThen, card
  <1>25. ASSUME SendOpens PROVE HasFile'
    <2>1. worker = "dispatch" /\ cmd = "SEND" /\ cmd' = cmd
      BY <1>25 DEF SendOpens, Dispatched, session
    <2>2. ASSUME worker' # "accept data" PROVE UNCHANGED handle
      BY <1>25, <2>2, Zenon DEF SendOpens, Goto
    <2>3. ~handle
      BY <2>1, <1>a
    <2>4. handle' => worker' = "accept data"
      BY <2>2, <2>3, Zenon
    <2> QED BY <2>1, <2>4
  <1>26. ASSUME StoreBegins PROVE HasFile'
    BY <1>26, <1>a DEF StoreBegins, Dispatched, local, card
  <1>27. ASSUME AcceptData PROVE HasFile'
    BY <1>27, <1>a DEF AcceptData, Load, LoadWhileRunning, Goto, session, card
  <1>28. ASSUME TakePassive PROVE HasFile'
    BY <1>28, <1>a DEF TakePassive, Close, quiet, session, card
  <1>29. ASSUME PublishData PROVE HasFile'
    BY <1>29, <1>a DEF PublishData, Publish, Goto, quiet, session
  <1>30. ASSUME PeerDiffers PROVE HasFile'
    BY <1>30, <1>a DEF PeerDiffers, Close, quiet, session, card
  <1>31. ASSUME PeerMatches PROVE HasFile'
    BY <1>31, <1>a DEF PeerMatches, Goto, local, card
  <1>32. ASSUME Refuse PROVE HasFile'
    <2>1. Replied("refuse", "drop", "drop")
      BY <1>32, ReplySteps
    <2> QED BY <2>1, <1>a DEF Replied, kernel, manager, session
  <1>33. ASSUME Drop PROVE HasFile'
    BY <1>33 DEF Drop
  <1>34. ASSUME Create PROVE HasFile'
    <2>1. worker = "create" /\ cmd = "STOR"
      BY <1>34, <1>a DEF Create
    <2>2. ASSUME worker' # "opening" PROVE UNCHANGED handle
      BY <1>34, <2>2, Zenon DEF Create, Goto, CloseDataThen
    <2>3. ~handle
      BY <2>1, <1>a
    <2>4. handle' => worker' = "opening"
      BY <2>2, <2>3, Zenon
    <2> QED BY <2>4
  <1>35. ASSUME Opening PROVE HasFile'
    <2>1. Replied("opening", "loadData", "abandon")
      BY <1>35, ReplySteps
    <2> QED BY <2>1, <1>a DEF Replied, kernel, manager, session
  <1>36. ASSUME LoadData PROVE HasFile'
    BY <1>36 DEF LoadData, Load, LoadWhileRunning, Goto
  <1>37. ASSUME Abandon PROVE HasFile'
    BY <1>37 DEF Abandon, CloseDataThen
  <1>38. ASSUME EndOfFile PROVE HasFile'
    BY <1>38 DEF EndOfFile, Ends, CloseDataThen
  <1>39. ASSUME DataFails PROVE HasFile'
    BY <1>39 DEF DataFails, Ends, CloseDataThen
  <1>40. ASSUME Write PROVE HasFile'
    BY <1>40 DEF Write, Goto, Ends, CloseDataThen
  <1>41. ASSUME Aborted PROVE HasFile'
    BY <1>41, <1>a DEF Aborted
  <1>42. ASSUME Complete PROVE HasFile'
    <2>1. Replied("complete", "check", "check")
      BY <1>42, ReplySteps
    <2> QED BY <2>1, <1>a DEF Replied, kernel, manager, session
  <1>43. ASSUME Connects("accept", "CONTROL", "publishControl") PROVE HasFile'
    BY <1>43, <1>a DEF Connects, settled, card
  <1>44. ASSUME Connects("acceptPassive", "DATA", "takePassive") PROVE HasFile'
    BY <1>44, <1>a DEF Connects, Goto, settled, session, card
  <1>45. ASSUME Command PROVE HasFile'
    BY <1>45, <1>a DEF Command, Delivers, card
  <1>46. ASSUME ClientLeaves PROVE HasFile'
    BY <1>46, <1>a DEF ClientLeaves, card
  <1>47. ASSUME SendReply PROVE HasFile'
    BY <1>47, <1>a DEF SendReply, Nowhere, session, card
  <1>48. ASSUME Sent PROVE HasFile'
    BY <1>48 DEF Sent, Ends, CloseDataThen
  <1>49. ASSUME Receive PROVE HasFile'
    BY <1>49 DEF Receive, Delivers, Goto
  <1>50. ASSUME ClientSends PROVE HasFile'
    BY <1>50, <1>a DEF ClientSends, Uploading
  <1>51. ASSUME ClientCloses PROVE HasFile'
    BY <1>51, <1>a DEF ClientCloses, Uploading
  <1>52. ASSUME Sleep PROVE HasFile'
    BY <1>52, <1>a DEF Sleep, session, card
  <1>53. CASE UNCHANGED vars
    BY <1>53, <1>a DEF vars, session, card
  <1>54. CASE Worker
    BY <1>54, <1>2, <1>3, <1>4, <1>5, <1>6, <1>7, <1>8, <1>9, <1>10, <1>11, <1>12, <1>13, <1>14,
       <1>15, <1>16, <1>17, <1>18, <1>19, <1>20, <1>21, <1>22, <1>23, <1>24, <1>25, <1>26, <1>27,
       <1>28, <1>29, <1>30, <1>31, <1>32, <1>33, <1>34, <1>35, <1>36, <1>37, <1>38, <1>39, <1>40,
       <1>41, <1>42
       DEF Worker, Accepts
  <1>55. CASE Client
    BY <1>55, <1>43, <1>44, <1>45, <1>46, <1>47, <1>48, <1>49, <1>50, <1>51 DEF Client
  <1> QED BY MainLeaves, <1>1, <1>52, <1>53, <1>54, <1>55 DEF Next

(* Every way out of a transfer closes its data connection.                 *)
LEMMA DataStep == ASSUME IInv, [Next]_vars PROVE HasData'
  <1>a. WorkerType /\ PlaceInv /\ HasData /\ sockets \in [Slots -> FDs \cup {None}]
    BY TypeParts DEF IInv, MainType
  <1> USE DEF HasData, Replying, Answering, Refusing, AfterClose, Slots
  <1>1. ASSUME Leaves PROVE HasData'
    BY <1>1, <1>a DEF Leaves
  <1>2. ASSUME Loop PROVE HasData'
    BY <1>2, <1>a DEF Loop, Load, LoadWhileRunning, lifecycle
  <1>3. ASSUME Ending PROVE HasData'
    BY <1>3, <1>a DEF Ending
  <1>4. ASSUME PublishControl PROVE HasData'
    BY <1>4, <1>a DEF PublishControl, Publish, quiet
  <1>5. ASSUME Reply("greet", "check", "leave") PROVE HasData'
    <2>1. Replied("greet", "check", "leave")
      BY <1>5, ReplySteps
    <2> QED BY <2>1, <1>a DEF Replied, kernel, manager, session
  <1>6. ASSUME AcceptFails("accept", "ending") PROVE HasData'
    BY <1>6, <1>a DEF AcceptFails, settled, lifecycle
  <1>7. ASSUME AcceptFails("acceptPassive", "takePassive") PROVE HasData'
    BY <1>7, <1>a DEF AcceptFails, settled, lifecycle
  <1>8. ASSUME ReplyFails PROVE HasData'
    BY <1>8, <1>a DEF ReplyFails, Nowhere, beyond, lifecycle
  <1>9. ASSUME Check PROVE HasData'
    BY <1>9, <1>a DEF Check, LoadWhileRunning, lifecycle, NoUpload
  <1>10. ASSUME CommandFails PROVE HasData'
    BY <1>10, <1>a DEF CommandFails, beyond, lifecycle
  <1>11. ASSUME Leave PROVE HasData'
    BY <1>11 DEF Leave, CloseDataThen
  <1>12. ASSUME CloseData PROVE HasData'
    BY <1>12, <1>a DEF CloseData, Close, quiet
  <1>13. ASSUME CloseDataPassive PROVE HasData'
    BY <1>13, <1>a DEF CloseDataPassive, Close, quiet, Nowhere
  <1>14. ASSUME CloseControl PROVE HasData'
    BY <1>14, <1>a DEF CloseControl, Close, quiet
  <1>15. ASSUME Other PROVE HasData'
    <2>1. Replied("dispatch", "check", "check") /\ cmd = "OTHER"
      BY <1>15, ReplySteps
    <2> QED BY <2>1, <1>a DEF Replied, kernel, manager, session
  <1>16. ASSUME Quit PROVE HasData'
    <2>1. Replied("dispatch", "leave", "leave") /\ cmd = "QUIT"
      BY <1>16, ReplySteps
    <2> QED BY <2>1, <1>a DEF Replied, kernel, manager, session
  <1>17. ASSUME Delete PROVE HasData'
    BY <1>17, <1>a DEF Delete, Dispatched, local, beyond, lifecycle
  <1>18. ASSUME RenameFrom PROVE HasData'
    BY <1>18, <1>a DEF RenameFrom, Dispatched, Exists, local, beyond, lifecycle
  <1>19. ASSUME RenameTo PROVE HasData'
    BY <1>19, <1>a DEF RenameTo, Dispatched, Exists, local, beyond, lifecycle
  <1>20. ASSUME Answer PROVE HasData'
    <2>1. Replied("answer", "check", "check")
      BY <1>20, ReplySteps
    <2> QED BY <2>1, <1>a DEF Replied, kernel, manager, session
  <1>21. ASSUME Passive PROVE HasData'
    BY <1>21 DEF Passive, Dispatched, CloseDataThen
  <1>22. ASSUME PassiveSocket PROVE HasData'
    BY <1>22, <1>a DEF PassiveSocket, settled, lifecycle
  <1>23. ASSUME PublishPassive PROVE HasData'
    BY <1>23, <1>a DEF PublishPassive, Publish, quiet
  <1>24. ASSUME Bind PROVE HasData'
    BY <1>24, <1>a DEF Bind, CloseDataThen, beyond, lifecycle
  <1>25. ASSUME SendOpens PROVE HasData'
    BY <1>25, <1>a DEF SendOpens, Dispatched, Exists, local, beyond, lifecycle
  <1>26. ASSUME StoreBegins PROVE HasData'
    BY <1>26, <1>a DEF StoreBegins, Dispatched, local, beyond, lifecycle
  <1>27. ASSUME AcceptData PROVE HasData'
    BY <1>27, <1>a DEF AcceptData, Load, LoadWhileRunning, lifecycle
  <1>28. ASSUME TakePassive PROVE HasData'
    BY <1>28, <1>a DEF TakePassive, Close, quiet
  <1>29. ASSUME PublishData PROVE HasData'
    BY <1>29, <1>a DEF PublishData, Publish, Goto, quiet
  <1>30. ASSUME PeerDiffers PROVE HasData'
    BY <1>30, <1>a DEF PeerDiffers, Close, quiet
  <1>31. ASSUME PeerMatches PROVE HasData'
    BY <1>31 DEF PeerMatches, Goto
  <1>32. ASSUME Refuse PROVE HasData'
    <2>1. Replied("refuse", "drop", "drop")
      BY <1>32, ReplySteps
    <2> QED BY <2>1, <1>a DEF Replied, kernel, manager, session
  <1>33. ASSUME Drop PROVE HasData'
    BY <1>33, <1>a DEF Drop, local, beyond, lifecycle
  <1>34. ASSUME Create PROVE HasData'
    BY <1>34 DEF Create, Goto, CloseDataThen
  <1>35. ASSUME Opening PROVE HasData'
    <2>1. Replied("opening", "loadData", "abandon")
      BY <1>35, ReplySteps
    <2> QED BY <2>1, <1>a DEF Replied, kernel, manager, session
  <1>36. ASSUME LoadData PROVE HasData'
    BY <1>36 DEF LoadData, Load, LoadWhileRunning, Goto
  <1>37. ASSUME Abandon PROVE HasData'
    BY <1>37 DEF Abandon, CloseDataThen
  <1>38. ASSUME EndOfFile PROVE HasData'
    BY <1>38 DEF EndOfFile, Ends, CloseDataThen
  <1>39. ASSUME DataFails PROVE HasData'
    BY <1>39 DEF DataFails, Ends, CloseDataThen
  <1>40. ASSUME Write PROVE HasData'
    BY <1>40 DEF Write, Goto, Ends, CloseDataThen
  <1>41. ASSUME Aborted PROVE HasData'
    BY <1>41, <1>a DEF Aborted, local, beyond, lifecycle
  <1>42. ASSUME Complete PROVE HasData'
    <2>1. Replied("complete", "check", "check")
      BY <1>42, ReplySteps
    <2> QED BY <2>1, <1>a DEF Replied, kernel, manager, session
  <1>43. ASSUME Connects("accept", "CONTROL", "publishControl") PROVE HasData'
    BY <1>43, <1>a DEF Connects, settled, lifecycle
  <1>44. ASSUME Connects("acceptPassive", "DATA", "takePassive") PROVE HasData'
    BY <1>44, <1>a DEF Connects, settled, lifecycle
  <1>45. ASSUME Command PROVE HasData'
    BY <1>45, <1>a DEF Command, Delivers, beyond, lifecycle
  <1>46. ASSUME ClientLeaves PROVE HasData'
    BY <1>46, <1>a DEF ClientLeaves, beyond, lifecycle
  <1>47. ASSUME SendReply PROVE HasData'
    BY <1>47, <1>a DEF SendReply, Nowhere, beyond, lifecycle
  <1>48. ASSUME Sent PROVE HasData'
    BY <1>48 DEF Sent, Ends, CloseDataThen
  <1>49. ASSUME Receive PROVE HasData'
    BY <1>49 DEF Receive, Delivers, Goto
  <1>50. ASSUME ClientSends PROVE HasData'
    BY <1>50, <1>a DEF ClientSends, Uploading
  <1>51. ASSUME ClientCloses PROVE HasData'
    BY <1>51, <1>a DEF ClientCloses, Uploading
  <1>52. ASSUME Sleep PROVE HasData'
    BY <1>52, <1>a DEF Sleep, lifecycle
  <1>53. CASE UNCHANGED vars
    BY <1>53, <1>a DEF vars, lifecycle
  <1>54. CASE Worker
    BY <1>54, <1>2, <1>3, <1>4, <1>5, <1>6, <1>7, <1>8, <1>9, <1>10, <1>11, <1>12, <1>13, <1>14,
       <1>15, <1>16, <1>17, <1>18, <1>19, <1>20, <1>21, <1>22, <1>23, <1>24, <1>25, <1>26, <1>27,
       <1>28, <1>29, <1>30, <1>31, <1>32, <1>33, <1>34, <1>35, <1>36, <1>37, <1>38, <1>39, <1>40,
       <1>41, <1>42
       DEF Worker, Accepts
  <1>55. CASE Client
    BY <1>55, <1>43, <1>44, <1>45, <1>46, <1>47, <1>48, <1>49, <1>50, <1>51 DEF Client
  <1> QED BY MainLeaves, <1>1, <1>52, <1>53, <1>54, <1>55 DEF Next

(* The worker counts what it writes, and completes only at the end.        *)
LEMMA UploadStep == ASSUME IInv, [Next]_vars PROVE UploadInv'
  <1>a. WorkerType /\ PlaceInv /\ UploadInv /\ CardType /\ Chunks \in Nat
    BY TypeParts, ManagerFtpAssumption DEF IInv
  <1>c. cmd = "STOR" => name \in Names
    BY DEF IInv, PlaceInv, Named
  <1>b. worker = "data" /\ cmd = "STOR" /\ Broken => stop_requested
    BY DEF IInv, CallInv, ShutInv, Kind, Calls, Broken
  <1> USE DEF WorkerType, PlaceInv, UploadInv, Replying, Answering, Refusing, Completing,
              AfterClose, Transfer, Whole, CardType
  <1>1. ASSUME Leaves PROVE UploadInv'
    BY <1>1, <1>a DEF Leaves, session, card
  <1>2. ASSUME Loop PROVE UploadInv'
    BY <1>2 DEF Loop, Load, LoadWhileRunning, Goto
  <1>3. ASSUME Ending PROVE UploadInv'
    BY <1>3 DEF Ending, Goto
  <1>4. ASSUME PublishControl PROVE UploadInv'
    BY <1>4 DEF PublishControl, Publish, Goto, quiet
  <1>5. ASSUME Reply("greet", "check", "leave") PROVE UploadInv'
    <2>1. Replied("greet", "check", "leave")
      BY <1>5, ReplySteps
    <2> QED BY <2>1, <1>a DEF Replied, kernel, manager, session
  <1>6. ASSUME AcceptFails("accept", "ending") PROVE UploadInv'
    BY <1>6 DEF AcceptFails, Goto, settled
  <1>7. ASSUME AcceptFails("acceptPassive", "takePassive") PROVE UploadInv'
    BY <1>7, <1>a DEF AcceptFails, Goto, settled, session, card
  <1>8. ASSUME ReplyFails PROVE UploadInv'
    BY <1>8, <1>a DEF ReplyFails, Nowhere
  <1>9. ASSUME Check PROVE UploadInv'
    BY <1>9 DEF Check, LoadWhileRunning, NoUpload
  <1>10. ASSUME CommandFails PROVE UploadInv'
    BY <1>10 DEF CommandFails, Goto
  <1>11. ASSUME Leave PROVE UploadInv'
    BY <1>11 DEF Leave, CloseDataThen
  <1>12. ASSUME CloseData PROVE UploadInv'
    BY <1>12, <1>a DEF CloseData, Close, quiet, session, card
  <1>13. ASSUME CloseDataPassive PROVE UploadInv'
    BY <1>13, <1>a DEF CloseDataPassive, Close, quiet, session, card, Nowhere
  <1>14. ASSUME CloseControl PROVE UploadInv'
    BY <1>14 DEF CloseControl, Close, quiet
  <1>15. ASSUME Other PROVE UploadInv'
    <2>1. Replied("dispatch", "check", "check") /\ cmd = "OTHER"
      BY <1>15, ReplySteps
    <2> QED BY <2>1, <1>a DEF Replied, kernel, manager, session
  <1>16. ASSUME Quit PROVE UploadInv'
    <2>1. Replied("dispatch", "leave", "leave") /\ cmd = "QUIT"
      BY <1>16, ReplySteps
    <2> QED BY <2>1, <1>a DEF Replied, kernel, manager, session
  <1>17. ASSUME Delete PROVE UploadInv'
    BY <1>17 DEF Delete, Dispatched, Goto
  <1>18. ASSUME RenameFrom PROVE UploadInv'
    BY <1>18 DEF RenameFrom, Dispatched, Goto, Exists
  <1>19. ASSUME RenameTo PROVE UploadInv'
    BY <1>19 DEF RenameTo, Dispatched, Goto, Exists
  <1>20. ASSUME Answer PROVE UploadInv'
    <2>1. Replied("answer", "check", "check")
      BY <1>20, ReplySteps
    <2> QED BY <2>1, <1>a DEF Replied, kernel, manager, session
  <1>21. ASSUME Passive PROVE UploadInv'
    BY <1>21 DEF Passive, Dispatched, CloseDataThen
  <1>22. ASSUME PassiveSocket PROVE UploadInv'
    BY <1>22 DEF PassiveSocket, Goto, settled
  <1>23. ASSUME PublishPassive PROVE UploadInv'
    BY <1>23 DEF PublishPassive, Publish, Goto, quiet
  <1>24. ASSUME Bind PROVE UploadInv'
    BY <1>24, <1>a DEF Bind, Goto, CloseDataThen
  <1>25. ASSUME SendOpens PROVE UploadInv'
    BY <1>25 DEF SendOpens, Dispatched, Exists, Goto, local, session
  <1>26. ASSUME StoreBegins PROVE UploadInv'
    BY <1>26, <1>a DEF StoreBegins, Dispatched, Goto, local, card
  <1>27. ASSUME AcceptData PROVE UploadInv'
    BY <1>27, <1>a DEF AcceptData, Load, LoadWhileRunning, Goto, session, card
  <1>28. ASSUME TakePassive PROVE UploadInv'
    BY <1>28, <1>a DEF TakePassive, Close, quiet, session, card
  <1>29. ASSUME PublishData PROVE UploadInv'
    BY <1>29, <1>a DEF PublishData, Publish, Goto, quiet, session
  <1>30. ASSUME PeerDiffers PROVE UploadInv'
    BY <1>30 DEF PeerDiffers, Close, quiet
  <1>31. ASSUME PeerMatches PROVE UploadInv'
    BY <1>31, <1>a DEF PeerMatches, Goto, local, session, card
  <1>32. ASSUME Refuse PROVE UploadInv'
    <2>1. Replied("refuse", "drop", "drop")
      BY <1>32, ReplySteps
    <2> QED BY <2>1, <1>a DEF Replied, kernel, manager, session
  <1>33. ASSUME Drop PROVE UploadInv'
    BY <1>33 DEF Drop, Goto
  <1>34. ASSUME Create PROVE UploadInv'
    <2>1. worker = "create" /\ cmd = "STOR" /\ upload.got = 0 /\ UNCHANGED <<cmd, name, upload>>
      BY <1>34, <1>a DEF Create, session
    <2>2. \/ worker' = "opening" /\ files' = [files EXCEPT ![name] = 0]
          \/ worker' = "closeData" /\ after'.ok = "answer"
      BY <1>34, <1>a DEF Create, Goto, CloseDataThen
    <2> QED BY <2>1, <2>2, <1>a, <1>c
  <1>35. ASSUME Opening PROVE UploadInv'
    <2>1. Replied("opening", "loadData", "abandon")
      BY <1>35, ReplySteps
    <2> QED BY <2>1, <1>a DEF Replied, kernel, manager, session
  <1>36. ASSUME LoadData PROVE UploadInv'
    BY <1>36, <1>a DEF LoadData, Load, LoadWhileRunning, Goto, session, card
  <1>37. ASSUME Abandon PROVE UploadInv'
    BY <1>37 DEF Abandon, CloseDataThen
  <1>38. ASSUME EndOfFile PROVE UploadInv'
    BY <1>38, <1>a, <1>b DEF EndOfFile, Ends, CloseDataThen, beyond, lifecycle, session
  <1>39. ASSUME DataFails PROVE UploadInv'
    BY <1>39 DEF DataFails, Ends, CloseDataThen
  <1>40. ASSUME Write PROVE UploadInv'
    <2>1. /\ worker = "write" /\ cmd = "STOR" /\ UNCHANGED <<cmd, name, upload>>
          /\ upload.got \in Nat \ {0} /\ files[name] = upload.got - 1
      BY <1>40, <1>a DEF Write, session
    <2>2. \/ worker' = "data" /\ files' = [files EXCEPT ![name] = files[name] + 1]
          \/ worker' = "closeData" /\ after'.ok = "aborted"
      BY <1>40, <1>a DEF Write, Goto, Ends, CloseDataThen
    <2>3. CASE worker' = "data" /\ files' = [files EXCEPT ![name] = files[name] + 1]
      <3>1. files'[name] = upload.got
        BY <2>1, <2>3, <1>a, <1>c
      <3> QED BY <2>1, <2>3, <3>1
    <2>4. CASE worker' = "closeData" /\ after'.ok = "aborted"
      BY <2>1, <2>4
    <2> QED BY <2>2, <2>3, <2>4
  <1>41. ASSUME Aborted PROVE UploadInv'
    BY <1>41 DEF Aborted, Goto
  <1>42. ASSUME Complete PROVE UploadInv'
    <2>1. Replied("complete", "check", "check")
      BY <1>42, ReplySteps
    <2> QED BY <2>1, <1>a DEF Replied, kernel, manager, session
  <1>43. ASSUME Connects("accept", "CONTROL", "publishControl") PROVE UploadInv'
    BY <1>43 DEF Connects, Goto, settled
  <1>44. ASSUME Connects("acceptPassive", "DATA", "takePassive") PROVE UploadInv'
    BY <1>44, <1>a DEF Connects, Goto, settled, session, card
  <1>45. ASSUME Command PROVE UploadInv'
    BY <1>45, <1>a DEF Command, Delivers, Goto, card
  <1>46. ASSUME ClientLeaves PROVE UploadInv'
    BY <1>46 DEF ClientLeaves, Goto
  <1>47. ASSUME SendReply PROVE UploadInv'
    BY <1>47, <1>a DEF SendReply, Nowhere, session, card
  <1>48. ASSUME Sent PROVE UploadInv'
    BY <1>48 DEF Sent, Ends, CloseDataThen, session
  <1>49. ASSUME Receive PROVE UploadInv'
    BY <1>49, <1>a DEF Receive, Delivers, Goto, local, session
  <1>50. ASSUME ClientSends PROVE UploadInv'
    BY <1>50, <1>a DEF ClientSends, Uploading, lifecycle, session
  <1>51. ASSUME ClientCloses PROVE UploadInv'
    BY <1>51, <1>a DEF ClientCloses, Uploading, lifecycle, session
  <1>52. ASSUME Sleep PROVE UploadInv'
    BY <1>52, <1>a DEF Sleep, session, card
  <1>53. CASE UNCHANGED vars
    BY <1>53, <1>a DEF vars, lifecycle, session, card
  <1>54. CASE Worker
    BY <1>54, <1>2, <1>3, <1>4, <1>5, <1>6, <1>7, <1>8, <1>9, <1>10, <1>11, <1>12, <1>13, <1>14,
       <1>15, <1>16, <1>17, <1>18, <1>19, <1>20, <1>21, <1>22, <1>23, <1>24, <1>25, <1>26, <1>27,
       <1>28, <1>29, <1>30, <1>31, <1>32, <1>33, <1>34, <1>35, <1>36, <1>37, <1>38, <1>39, <1>40,
       <1>41, <1>42
       DEF Worker, Accepts
  <1>55. CASE Client
    BY <1>55, <1>43, <1>44, <1>45, <1>46, <1>47, <1>48, <1>49, <1>50, <1>51 DEF Client
  <1> QED BY MainLeaves, <1>1, <1>52, <1>53, <1>54, <1>55 DEF Next

(* 226 is sent only while no stop has begun, and so for a whole upload.     *)
LEMMA WholeStep == ASSUME IInv, [Next]_vars PROVE WholeUploads'
  <1> USE DEF IInv, UploadInv, WholeUploads, Completing
  <1>1. ASSUME Leaves PROVE WholeUploads'
    BY <1>1 DEF Leaves, card
  <1>2. ASSUME Loop PROVE WholeUploads'
    BY <1>2 DEF Loop, Load, LoadWhileRunning, card
  <1>3. ASSUME Ending PROVE WholeUploads'
    BY <1>3 DEF Ending, card
  <1>4. ASSUME PublishControl PROVE WholeUploads'
    BY <1>4 DEF PublishControl, Publish, quiet
  <1>5. ASSUME Reply("greet", "check", "leave") PROVE WholeUploads'
    BY <1>5 DEF Reply, card, WholeUploads
  <1>6. ASSUME AcceptFails("accept", "ending") PROVE WholeUploads'
    BY <1>6 DEF AcceptFails, settled, card
  <1>7. ASSUME AcceptFails("acceptPassive", "takePassive") PROVE WholeUploads'
    BY <1>7 DEF AcceptFails, settled, card
  <1>8. ASSUME ReplyFails PROVE WholeUploads'
    BY <1>8 DEF ReplyFails, Nowhere, card
  <1>9. ASSUME Check PROVE WholeUploads'
    BY <1>9 DEF Check, LoadWhileRunning, NoUpload
  <1>10. ASSUME CommandFails PROVE WholeUploads'
    BY <1>10 DEF CommandFails, card
  <1>11. ASSUME Leave PROVE WholeUploads'
    BY <1>11 DEF Leave, CloseDataThen, local, card
  <1>12. ASSUME CloseData PROVE WholeUploads'
    BY <1>12 DEF CloseData, Close, quiet, card
  <1>13. ASSUME CloseDataPassive PROVE WholeUploads'
    BY <1>13 DEF CloseDataPassive, Close, quiet, card, Nowhere
  <1>14. ASSUME CloseControl PROVE WholeUploads'
    BY <1>14 DEF CloseControl, Close, quiet, card
  <1>15. ASSUME Other PROVE WholeUploads'
    BY <1>15 DEF Other, Reply, card, WholeUploads
  <1>16. ASSUME Quit PROVE WholeUploads'
    BY <1>16 DEF Quit, Reply, card, WholeUploads
  <1>17. ASSUME Delete PROVE WholeUploads'
    BY <1>17 DEF Delete, Dispatched
  <1>18. ASSUME RenameFrom PROVE WholeUploads'
    BY <1>18 DEF RenameFrom, Dispatched, Exists, local, card
  <1>19. ASSUME RenameTo PROVE WholeUploads'
    BY <1>19 DEF RenameTo, Dispatched, Exists
  <1>20. ASSUME Answer PROVE WholeUploads'
    BY <1>20 DEF Answer, Reply, card, WholeUploads
  <1>21. ASSUME Passive PROVE WholeUploads'
    BY <1>21 DEF Passive, Dispatched, CloseDataThen, local, card
  <1>22. ASSUME PassiveSocket PROVE WholeUploads'
    BY <1>22 DEF PassiveSocket, settled, card
  <1>23. ASSUME PublishPassive PROVE WholeUploads'
    BY <1>23 DEF PublishPassive, Publish, quiet
  <1>24. ASSUME Bind PROVE WholeUploads'
    BY <1>24 DEF Bind, CloseDataThen, card
  <1>25. ASSUME SendOpens PROVE WholeUploads'
    BY <1>25 DEF SendOpens, Dispatched, Exists
  <1>26. ASSUME StoreBegins PROVE WholeUploads'
    BY <1>26 DEF StoreBegins, Dispatched, local, card
  <1>27. ASSUME AcceptData PROVE WholeUploads'
    BY <1>27 DEF AcceptData, Load, LoadWhileRunning, card
  <1>28. ASSUME TakePassive PROVE WholeUploads'
    BY <1>28 DEF TakePassive, Close, quiet, card
  <1>29. ASSUME PublishData PROVE WholeUploads'
    BY <1>29 DEF PublishData, Publish, quiet
  <1>30. ASSUME PeerDiffers PROVE WholeUploads'
    BY <1>30 DEF PeerDiffers, Close, quiet, card
  <1>31. ASSUME PeerMatches PROVE WholeUploads'
    BY <1>31 DEF PeerMatches, local, card
  <1>32. ASSUME Refuse PROVE WholeUploads'
    BY <1>32 DEF Refuse, Reply, card, WholeUploads
  <1>33. ASSUME Drop PROVE WholeUploads'
    BY <1>33 DEF Drop
  <1>34. ASSUME Create PROVE WholeUploads'
    BY <1>34 DEF Create, CloseDataThen
  <1>35. ASSUME Opening PROVE WholeUploads'
    BY <1>35 DEF Opening, Reply, card, WholeUploads
  <1>36. ASSUME LoadData PROVE WholeUploads'
    BY <1>36 DEF LoadData, Load, LoadWhileRunning, card
  <1>37. ASSUME Abandon PROVE WholeUploads'
    BY <1>37 DEF Abandon, CloseDataThen
  <1>38. ASSUME EndOfFile PROVE WholeUploads'
    BY <1>38 DEF EndOfFile, Ends, CloseDataThen
  <1>39. ASSUME DataFails PROVE WholeUploads'
    BY <1>39 DEF DataFails, Ends, CloseDataThen
  <1>40. ASSUME Write PROVE WholeUploads'
    BY <1>40 DEF Write, Ends, CloseDataThen
  <1>41. ASSUME Aborted PROVE WholeUploads'
    BY <1>41 DEF Aborted
  <1>42. ASSUME Complete PROVE WholeUploads'
    <2>1. worker = "complete" /\ (worker' = "reply" => ~stop_requested)
      BY <1>42, ReplySteps DEF Replied
    <2> QED BY <1>42, <2>1 DEF Complete
  <1>43. ASSUME Connects("accept", "CONTROL", "publishControl") PROVE WholeUploads'
    BY <1>43 DEF Connects, settled, card
  <1>44. ASSUME Connects("acceptPassive", "DATA", "takePassive") PROVE WholeUploads'
    BY <1>44 DEF Connects, settled, card
  <1>45. ASSUME Command PROVE WholeUploads'
    BY <1>45 DEF Command, Delivers, card
  <1>46. ASSUME ClientLeaves PROVE WholeUploads'
    BY <1>46 DEF ClientLeaves, card
  <1>47. ASSUME SendReply PROVE WholeUploads'
    BY <1>47 DEF SendReply, Nowhere, card
  <1>48. ASSUME Sent PROVE WholeUploads'
    BY <1>48 DEF Sent, Ends, CloseDataThen
  <1>49. ASSUME Receive PROVE WholeUploads'
    BY <1>49 DEF Receive, Delivers
  <1>50. ASSUME ClientSends PROVE WholeUploads'
    BY <1>50 DEF ClientSends, Uploading
  <1>51. ASSUME ClientCloses PROVE WholeUploads'
    BY <1>51 DEF ClientCloses, Uploading
  <1>52. ASSUME Sleep PROVE WholeUploads'
    BY <1>52 DEF Sleep, card
  <1>53. CASE UNCHANGED vars
    BY <1>53 DEF vars, card
  <1>54. CASE Worker
    BY <1>54, <1>2, <1>3, <1>4, <1>5, <1>6, <1>7, <1>8, <1>9, <1>10, <1>11, <1>12, <1>13, <1>14,
       <1>15, <1>16, <1>17, <1>18, <1>19, <1>20, <1>21, <1>22, <1>23, <1>24, <1>25, <1>26, <1>27,
       <1>28, <1>29, <1>30, <1>31, <1>32, <1>33, <1>34, <1>35, <1>36, <1>37, <1>38, <1>39, <1>40,
       <1>41, <1>42
       DEF Worker, Accepts
  <1>55. CASE Client
    BY <1>55, <1>43, <1>44, <1>45, <1>46, <1>47, <1>48, <1>49, <1>50, <1>51 DEF Client
  <1> QED BY MainLeaves, <1>1, <1>52, <1>53, <1>54, <1>55 DEF Next

-----------------------------------------------------------------------------
(* The invariant is inductive: every part of it survives every step.       *)
LEMMA NextInv == ASSUME IInv, [Next]_vars PROVE IInv'
  <1>1. TypeOK'
    BY MainTypeStep, WorkerTypeStep, CallTypeStep, CardTypeStep
       DEF TypeOK, MainType, WorkerType, CallType, CardType
  <1>2. OwnInv'
    BY SlotsStep, StopStep, FreshStep, AllStep DEF OwnInv
  <1> QED
    BY <1>1, <1>2, MainStep, ShutStep, CallStep, PlaceStep, FileStep, DataStep, UploadStep,
       WholeStep
       DEF IInv

(* In every behaviour, main and worker interleaved in any way, IInv holds. *)
THEOREM Invariance == Spec => []IInv
  <1>1. Init => IInv
    BY InitInv
  <1>2. IInv /\ [Next]_vars => IInv'
    BY NextInv
  <1> QED BY <1>1, <1>2, PTL DEF Spec

(* The variables keep their types, for any sets and bounds.                *)
THEOREM TypeCorrect == Spec => []TypeOK
  <1>1. IInv => TypeOK
    BY DEF IInv
  <1> QED BY <1>1, Invariance, PTL

(* A number that is free has no owner.                                     *)
LEMMA FreeHasNoOwner ==
  ASSUME IInv, NEW f \in FDs, open[f] = "free" PROVE Owners(f) = {}
  <1>1. \A s \in Slots : sockets[s] # f
    BY ManagerFtpAssumption DEF IInv, OwnInv, SlotsOwn, Slots
  <1>2. fresh # f
    BY ManagerFtpAssumption DEF IInv, OwnInv, FreshOwns, FreshKind
  <1>3. \A s \in {"LISTEN", "PASSIVE"} : snapshot[s] # f
    BY ManagerFtpAssumption DEF IInv, OwnInv, StopOwns
  <1> QED BY <1>1, <1>2, <1>3 DEF Owners

(* An open one has exactly one: what a slot, the worker and the stopping   *)
(* thread hold was opened as something else, or by somebody else.          *)
LEMMA OpenHasOneOwner ==
  ASSUME IInv, NEW f \in FDs, open[f] # "free" PROVE \E x : Owners(f) = {x}
  <1> USE ManagerFtpAssumption
  <1>1. ASSUME NEW s \in Slots, sockets[s] = f
        PROVE  /\ \A t \in Slots : sockets[t] = f => t = s
               /\ fresh # f
               /\ \A t \in {"LISTEN", "PASSIVE"} : snapshot[t] # f
    <2>1. open[f] = s
      BY <1>1 DEF IInv, OwnInv, SlotsOwn
    <2>2. \A t \in Slots : sockets[t] = f => t = s
      BY <2>1 DEF IInv, OwnInv, SlotsOwn
    <2>3. fresh # f
      BY <1>1 DEF IInv, OwnInv, FreshOwns
    <2>4. ASSUME NEW t \in {"LISTEN", "PASSIVE"}, snapshot[t] = f PROVE FALSE
      <3>1. t = s
        BY <2>1, <2>4 DEF IInv, OwnInv, StopOwns
      <3>2. stop_requested
        BY <2>4 DEF IInv, MainInv, NoSockets, Slots
      <3> QED BY <1>1, <2>4, <3>1, <3>2 DEF IInv, MainInv
    <2> QED BY <2>2, <2>3, <2>4
  <1>2. ASSUME fresh = f
        PROVE  \A t \in {"LISTEN", "PASSIVE"} : snapshot[t] # f
    BY <1>2 DEF IInv, OwnInv, FreshOwns
  <1>3. \A t, u \in {"LISTEN", "PASSIVE"} : snapshot[t] = f /\ snapshot[u] = f => t = u
    BY DEF IInv, OwnInv, StopOwns
  <1>4. CASE \E s \in Slots : sockets[s] = f
    <2>1. PICK s \in Slots : sockets[s] = f
      BY <1>4
    <2>2. Owners(f) = {s}
      BY <1>1, <2>1 DEF Owners
    <2> QED BY <2>2
  <1>5. CASE (\A s \in Slots : sockets[s] # f) /\ fresh = f
    <2>1. Owners(f) = {"worker"}
      BY <1>2, <1>5 DEF Owners
    <2> QED BY <2>1
  <1>6. CASE (\A s \in Slots : sockets[s] # f) /\ fresh # f
    <2>1. PICK t \in {"LISTEN", "PASSIVE"} : snapshot[t] = f
      BY <1>6 DEF IInv, OwnInv, AllOwned
    <2>2. Owners(f) = {<<t>>}
      BY <1>3, <1>6, <2>1 DEF Owners
    <2> QED BY <2>2
  <1> QED BY <1>4, <1>5, <1>6

(* "Every descriptor is either already in this snapshot, or its later      *)
(* publication is rejected": an open descriptor has one owner at any time, *)
(* no call of the worker is on a number that has become another socket,    *)
(* and a stop shuts down the connection it saw.                            *)
THEOREM DescriptorsHaveOneOwner == Spec => []DescriptorsAreOwn
  <1>1. ASSUME IInv PROVE OneOwner
    <2>1. ASSUME NEW f \in FDs, open[f] = "free" PROVE Cardinality(Owners(f)) = 0
      BY <1>1, <2>1, FreeHasNoOwner, FS_EmptySet
    <2>2. ASSUME NEW f \in FDs, open[f] # "free" PROVE Cardinality(Owners(f)) = 1
      BY <1>1, <2>2, OpenHasOneOwner, FS_Singleton
    <2> QED BY <2>1, <2>2 DEF OneOwner
  <1>2. IInv => OwnCalls
    BY DEF IInv, MainInv, OwnInv, SlotsOwn, CallInv, OwnCalls, Slots
  <1>3. IInv => DescriptorsAreOwn
    BY <1>1, <1>2 DEF DescriptorsAreOwn
  <1> QED BY <1>3, Invariance, PTL

(* Between two commands the worker has no file and no data connection      *)
(* open, whichever way the last transfer ended.                            *)
THEOREM CommandsLeakNothing == Spec => []NothingLeaks
  <1>1. IInv => NothingLeaks
    BY DEF IInv, HasFile, HasData, NothingLeaks, Transfer, Refusing, Answering, Replying
  <1> QED BY <1>1, Invariance, PTL

(* 226 answers an upload only when its client has closed it and all it     *)
(* sent is in the file, though a stop's shutdown reads as the end of it.   *)
THEOREM UploadsAreWhole == Spec => []WholeUploads
  <1>1. IInv => WholeUploads
    BY DEF IInv
  <1> QED BY <1>1, Invariance, PTL
=============================================================================
