----------------------------- MODULE SaveStore -----------------------------
(***************************************************************************)
(* What the guest is promised about its save files, with no queue, no      *)
(* lanes and no writer thread: a store of whole files.  A file changes     *)
(* only when the guest closes a handle, opens a native stream (fopen "wb"  *)
(* truncates) or removes it; nothing that happens in between is visible.   *)
(* AsyncWrite implements this store.                                       *)
(***************************************************************************)
CONSTANTS
  Paths,      \* the save files
  Files,      \* the guest's FILE handles
  Contents,   \* what a whole file can hold
  Absent,     \* no file
  Empty       \* a file of length zero

VARIABLES
  store,      \* [Paths -> Contents \cup {Absent, Empty}]
  handle      \* the open handles: a set of <<file, path, content>>

vars == <<store, handle>>

Init == store = [p \in Paths |-> Absent] /\ handle = {}

(* An opened handle starts empty; the file itself is left alone (a memory  *)
(* image) or truncated (a native stream).                                  *)
Open(f, p) ==
  /\ \A h \in handle : h[1] # f /\ h[2] # p
  /\ handle' = handle \cup {<<f, p, Empty>>}
  /\ store' \in {store, [store EXCEPT ![p] = Empty]}

Write(h, c) ==
  /\ handle' = (handle \ {h}) \cup {<<h[1], h[2], c>>}
  /\ UNCHANGED store

(* Closing makes the whole content the file, at once ...                   *)
Close(h) ==
  /\ handle' = handle \ {h}
  /\ store' = [store EXCEPT ![h[2]] = h[3]]

(* ... or fails and leaves the previous file as it was.                    *)
CloseFailed(h) == handle' = handle \ {h} /\ UNCHANGED store

Remove(p) == store' = [store EXCEPT ![p] = Absent] /\ UNCHANGED handle

Next ==
  \/ \E f \in Files, p \in Paths : Open(f, p)
  \/ \E h \in handle : Close(h) \/ CloseFailed(h) \/ \E c \in Contents : Write(h, c)
  \/ \E p \in Paths : Remove(p)

Spec == Init /\ [][Next]_vars
=============================================================================
