---------------------------- MODULE Cadence_proof ----------------------------
(***************************************************************************)
(* The cadence for every tick length, every limit, every cost of a tick    *)
(* and every stall, late wake-up, breach and change of mode:               *)
(*   UpdatesArePaced   Game::Update is never more than one update and one  *)
(*                     late wake-up ahead of 30 Hz                         *)
(*   LatenessIsBounded what is overdue and what is not rendered is bounded *)
(*   BreachesFailOpen  a tick that was not legal is noticed                *)
(*   CadenceIsKept     nothing else is taken for a breach                  *)
(*                                                                         *)
(* NoBurst is not inductive: whether the next update may begin is decided  *)
(* by the floor.  The strengthening relates the two: while the scheduler   *)
(* is on, the updates are ahead by what is left until the floor and one    *)
(* late wake-up at most; once it is off, they only fall back.              *)
(***************************************************************************)
EXTENDS Cadence, FiniteSetTheorems, TLAPS

(* What the argument needs to know of the statics                          *)
Sched(t) ==
  /\ {"on", "next", "floor"} \subseteq DOMAIN t
  /\ t.next \in Int
  /\ t.floor \in Int /\ Passed <= t.floor /\ t.floor <= GameTick

(* How far the updates may be ahead                                        *)
Lead(t) == MaxLate + (IF ~t.on THEN GameTick ELSE IF t.floor < 0 THEN 0 ELSE t.floor)

IInv ==
  /\ Sched(s)
  /\ ahead \in Nat /\ ahead <= Lead(s)
  /\ at = "off" => ahead = 0
  /\ load \in Loads

(* u is t after checks: the deadlines stand, and nothing switches it on    *)
Checked(t, u) ==
  /\ {"on", "next", "floor"} \subseteq DOMAIN u
  /\ u.next = t.next /\ u.floor = t.floor /\ (u.on => t.on)

-----------------------------------------------------------------------------
(* The constants are as in the source: times are numbers, ticks positive   *)
LEMMA Constants ==
  Tick \in Nat /\ Tick > 0 /\ MaxLate \in Nat /\ GameTick \in Nat /\ Passed \in Int /\ Passed < 0
BY CadenceAssumption DEF GameTick, Passed

(* A part of a tick takes a time that is a number                          *)
LEMMA TimesAreNumbers ==
  ASSUME load \in Loads, NEW part \in Parts, NEW d \in Takes(part)
  PROVE  d \in Nat
<1>1. load[part] \in Nat
  BY CadenceAssumption
<1>2. \A z \in Stalls : z \in Nat
  BY CadenceAssumption
<1> QED BY <1>1, <1>2 DEF Takes

(* The bound is the largest once the scheduler is off                      *)
LEMMA LeadBounds ==
  ASSUME NEW t, Sched(t)
  PROVE  /\ Lead(t) \in Nat /\ MaxLate <= Lead(t) /\ Lead(t) <= MaxLate + GameTick
         /\ ~t.on => Lead(t) = MaxLate + GameTick
         /\ t.on /\ t.floor < 0 => Lead(t) = MaxLate
         /\ t.on /\ t.floor >= 0 => Lead(t) = MaxLate + t.floor
BY Constants DEF Sched, Lead

(* A check leaves the bound as it was, or widens it                        *)
LEMMA CheckedLeads ==
  ASSUME NEW t, NEW u, Sched(t), Checked(t, u)
  PROVE  Sched(u) /\ Lead(t) \in Int /\ Lead(u) \in Int /\ Lead(t) <= Lead(u)
BY Constants DEF Sched, Checked, Lead

(* Checks follow one another                                               *)
LEMMA CheckedTransitive ==
  ASSUME NEW t, NEW u, NEW v, Checked(t, u), Checked(u, v)
  PROVE  Checked(t, v)
BY DEF Checked

LEMMA OffChecked ==
  ASSUME NEW t, Sched(t)
  PROVE  Checked(t, t) /\ Checked(t, Off(t)) /\ ~Off(t).on
BY DEF Sched, Checked, Off

LEMMA OffIfChecked ==
  ASSUME NEW t, NEW b \in BOOLEAN, Sched(t)
  PROVE  Checked(t, OffIf(t, b))
BY OffChecked DEF OffIf

LEMMA NoteChecked ==
  ASSUME NEW t, NEW hook, Sched(t)
  PROVE  Checked(t, Note(t, hook))
<1>1. Checked(t, [t EXCEPT !.flags = @ \cup {hook}])
  BY DEF Sched, Checked
<1> QED BY <1>1, OffChecked DEF Note

(* Time that passes is taken from the floor and from the lead              *)
LEMMA PassLeads ==
  ASSUME NEW t, Sched(t), ahead \in Nat, ahead <= Lead(t), NEW d \in Nat
  PROVE  /\ Sched(Pass(t, d)) /\ Pass(t, d).on = t.on
         /\ Drained(d) \in Nat /\ Drained(d) <= Lead(Pass(t, d)) /\ Drained(d) <= ahead
<1>1. /\ {"on", "next", "floor"} \subseteq DOMAIN Pass(t, d)
      /\ Pass(t, d).on = t.on /\ Pass(t, d).next = t.next - d
      /\ Pass(t, d).floor = Floored(t.floor - d)
  BY DEF Pass, Sched
<1>2. /\ Floored(t.floor - d) \in Int /\ Passed <= Floored(t.floor - d)
      /\ Floored(t.floor - d) <= t.floor
      /\ Floored(t.floor - d) >= t.floor - d
  BY Constants DEF Floored, Sched
<1>3. Sched(Pass(t, d))
  BY <1>1, <1>2, Constants DEF Sched
<1>4. Drained(d) \in Nat /\ Drained(d) <= ahead /\ (Drained(d) = 0 \/ Drained(d) = ahead - d)
  BY DEF Drained
<1>5. Drained(d) <= Lead(Pass(t, d))
  BY <1>1, <1>2, <1>4, Constants DEF Lead, Sched
<1> QED BY <1>1, <1>3, <1>4, <1>5

-----------------------------------------------------------------------------
(* The first state, the loop head and the sessions                         *)
LEMMA ClearedLeads ==
  ASSUME NEW on \in BOOLEAN
  PROVE  Sched(Cleared(on)) /\ Cleared(on).on = on
BY Constants DEF Cleared, Sched

LEMMA InitInv == Init => IInv
<1> SUFFICES ASSUME Init PROVE IInv
  OBVIOUS
<1>1. Sched(s)
  BY ClearedLeads DEF Init
<1>2. s.on
  BY ClearedLeads DEF Init
<1>3. ahead = 0 /\ Lead(s) \in Nat
  BY <1>1, LeadBounds DEF Init
<1>4. load \in Loads
  BY DEF Init
<1> QED BY <1>1, <1>3, <1>4 DEF IInv

(* Dropping ticks and setting the next deadline leave the floor alone      *)
LEMMA DueLeads ==
  ASSUME NEW t, Sched(t)
  PROVE  Sched(Due(t)) /\ Due(t).floor = t.floor /\ (Due(t).on => t.on)
<1> DEFINE due == (-t.next) \div Tick + 1
           moved == [t EXCEPT !.next = @ + (due - StaleDue) * Tick]
           u == Dropped(t)
<1>1. due \in Int
  BY Constants DEF Sched
<1>2. (due - StaleDue) * Tick \in Int
  BY <1>1, Constants, CadenceAssumption
<1> HIDE DEF due
<1>3. Sched(moved) /\ moved.floor = t.floor /\ moved.on = t.on
  BY <1>2 DEF Sched
<1> HIDE DEF moved
<1>4. u = moved \/ u = t
  BY DEF Dropped, due, moved
<1>5. Sched(u) /\ u.floor = t.floor /\ u.on = t.on
  BY <1>3, <1>4
<1> HIDE DEF u
<1> DEFINE b == u.last # None /\ u.next <= u.last
           v == OffIf(u, b)
<1>6. Checked(u, v)
  <2>1. b \in BOOLEAN
    OBVIOUS
  <2> QED BY <2>1, <1>5, OffIfChecked
<1>7. Sched(v)
  BY <1>6, <1>5, CheckedLeads
<1>8. Due(t) = [v EXCEPT !.last = u.next, !.next = u.next + Tick]
  BY DEF Due, u, v, b
<1> HIDE DEF v
<1> QED BY <1>5, <1>6, <1>7, <1>8, Constants DEF Sched, Checked

(* A new tick keeps the bound, or forgets what an off scheduler had        *)
LEMMA BegunLeads ==
  ASSUME NEW t, Sched(t)
  PROVE  Sched(Begun(t)) /\ Lead(t) <= Lead(Begun(t))
<1> DEFINE u == IF t.on THEN Due(t) ELSE t
<1>1. Sched(u) /\ u.floor = t.floor /\ (u.on => t.on)
  BY DueLeads
<1> HIDE DEF u
<1>2. CASE u.on
  <2>1. Begun(t) = [u EXCEPT !.since = 0, !.flags = {}, !.show = TRUE, !.game = None, !.before = 0,
                             !.after = 0]
    BY <1>2 DEF Begun, u
  <2>2. /\ {"on", "next", "floor"} \subseteq DOMAIN Begun(t)
        /\ Begun(t).on = u.on /\ Begun(t).next = u.next /\ Begun(t).floor = u.floor
    BY <2>1, <1>1 DEF Sched
  <2>3. Sched(Begun(t)) /\ Begun(t).on /\ t.on /\ Begun(t).floor = t.floor
    BY <2>2, <1>1, <1>2 DEF Sched
  <2> QED BY <2>3, LeadBounds DEF Lead
<1>3. CASE ~u.on
  <2>1. Begun(t) = [Cleared(FALSE) EXCEPT !.started = TRUE, !.next = Tick]
    BY <1>3 DEF Begun, u
  <2>2. Sched(Cleared(FALSE)) /\ ~Cleared(FALSE).on
    BY ClearedLeads
  <2>3. /\ {"on", "next", "floor"} \subseteq DOMAIN Begun(t)
        /\ ~Begun(t).on /\ Begun(t).next = Tick
        /\ Begun(t).floor = Cleared(FALSE).floor
    BY <2>1, <2>2 DEF Sched
  <2> DEFINE c == Cleared(FALSE)
  <2>4. Sched(c) /\ Begun(t).floor = c.floor
    BY <2>2, <2>3
  <2> HIDE DEF c
  <2>5. /\ Begun(t).floor \in Int
        /\ Passed <= Begun(t).floor /\ Begun(t).floor <= GameTick
    BY <2>4 DEF Sched
  <2>6. Begun(t).next \in Int
    BY <2>3, Constants
  <2>7. Sched(Begun(t))
    BY <2>3, <2>5, <2>6 DEF Sched
  <2> QED BY <2>3, <2>7, LeadBounds
<1> QED BY <1>2, <1>3

LEMMA NewTickInv ==
  ASSUME IInv, NEW t, Sched(t), ahead <= Lead(t), NEW d \in Nat, NewTick(t, d)
  PROVE  IInv'
<1>1. ahead \in Nat
  BY DEF IInv
<1>2. Sched(Pass(t, d)) /\ Drained(d) \in Nat /\ Drained(d) <= Lead(Pass(t, d))
  BY <1>1, PassLeads
<1> DEFINE u == Begun(Pass(t, d))
<1>3. Sched(u) /\ Lead(Pass(t, d)) <= Lead(u)
  BY <1>2, BegunLeads
<1>4. Lead(Pass(t, d)) \in Int /\ Lead(u) \in Int
  BY <1>2, <1>3, Constants DEF Lead, Sched
<1>5. Drained(d) <= Lead(u)
  BY <1>2, <1>3, <1>4
<1>6. s' = u /\ ahead' = Drained(d) /\ at' = "service" /\ load' = load
  BY DEF NewTick
<1> HIDE DEF u
<1> QED BY <1>2, <1>3, <1>5, <1>6 DEF IInv, Lead, Sched

LEMMA LoopHeadInv == ASSUME IInv, LoopHead PROVE IInv'
<1> DEFINE f == FinishPreviousTick(s)
           t == [f EXCEPT !.started = TRUE, !.next = IF s.started THEN @ ELSE 0]
<1>1. Sched(s) /\ ahead \in Nat /\ ahead <= Lead(s)
  BY DEF IInv
<1>2. Checked(s, f)
  <2>1. (s.started /\ s.on /\ ~Whole(s.flags)) \in BOOLEAN
    OBVIOUS
  <2> QED BY <2>1, <1>1, OffIfChecked DEF FinishPreviousTick
<1> HIDE DEF f
<1>3. Sched(f) /\ Lead(s) \in Int /\ Lead(f) \in Int /\ Lead(s) <= Lead(f)
  BY <1>1, <1>2, CheckedLeads
<1>4. Sched(t) /\ Lead(t) = Lead(f)
  BY <1>3 DEF Sched, Lead
<1>5. ahead <= Lead(t)
  BY <1>1, <1>3, <1>4
<1>6. Sched(Off(t)) /\ Lead(t) <= Lead(Off(t)) /\ Lead(Off(t)) \in Int
  BY <1>4, OffChecked, CheckedLeads
<1>7. ahead <= Lead(Off(t))
  BY <1>1, <1>3, <1>4, <1>5, <1>6
<1>8. \/ NewTick(t, 0) \/ NewTick(Off(t), 0)
      \/ t.next > 0 /\ \E o \in 0 .. MaxLate : NewTick(t, t.next + o)
  BY DEF LoopHead, f, t
<1> HIDE DEF t
<1>9. CASE NewTick(t, 0)
  BY <1>9, <1>4, <1>5, NewTickInv
<1>10. CASE NewTick(Off(t), 0)
  BY <1>10, <1>6, <1>7, NewTickInv
<1>11. CASE t.next > 0 /\ \E o \in 0 .. MaxLate : NewTick(t, t.next + o)
  <2>1. PICK o \in 0 .. MaxLate : NewTick(t, t.next + o)
    BY <1>11
  <2>2. t.next + o \in Nat
    BY <1>11, <1>4, Constants DEF Sched
  <2> QED BY <2>1, <2>2, <1>4, <1>5, NewTickInv
<1> QED BY <1>8, <1>9, <1>10, <1>11

(* The invariant of the next state, conjunct by conjunct                   *)
LEMMA NextInv ==
  ASSUME Sched(s'), ahead' \in Nat, ahead' <= Lead(s'), at' = "off" => ahead' = 0, load' \in Loads
  PROVE  IInv'
BY DEF IInv, Sched, Lead

LEMMA DeactivateInv == ASSUME IInv, Deactivate PROVE IInv'
<1>1. s' = Cleared(FALSE) /\ ahead' = 0 /\ load' = load
  BY DEF Deactivate
<1>2. Sched(s') /\ Lead(s') \in Nat
  BY <1>1, ClearedLeads, LeadBounds
<1>3. load' \in Loads
  BY <1>1 DEF IInv
<1> QED BY <1>1, <1>2, <1>3, NextInv

LEMMA ResetInv == ASSUME IInv, Reset PROVE IInv'
<1>1. s' = Cleared(TRUE) /\ ahead' = 0 /\ load' = load /\ at' # "off"
  BY DEF Reset, IInv
<1>2. Sched(s') /\ Lead(s') \in Nat
  BY <1>1, ClearedLeads, LeadBounds
<1>3. load' \in Loads
  BY <1>1 DEF IInv
<1> QED BY <1>1, <1>2, <1>3, NextInv

-----------------------------------------------------------------------------
(* The hooks                                                               *)

(* A hook that takes no time                                               *)
LEMMA HookInv ==
  ASSUME IInv, NEW u, Checked(s, u), s' = u, ahead' = ahead, at' # "off", load' = load
  PROVE  IInv'
<1>1. Sched(s) /\ ahead \in Nat /\ ahead <= Lead(s) /\ load \in Loads
  BY DEF IInv
<1>2. Sched(u) /\ Lead(s) \in Int /\ Lead(u) \in Int /\ Lead(s) <= Lead(u)
  BY <1>1, CheckedLeads
<1>3. Sched(s') /\ ahead' \in Nat /\ ahead' <= Lead(s')
  BY <1>1, <1>2
<1> QED BY <1>1, <1>3, NextInv

(* A hook after a part of the tick that took its time                      *)
LEMMA TimedHookInv ==
  ASSUME IInv, NEW d \in Nat, NEW u, Checked(Pass(s, d), u), s' = u, ahead' = Drained(d),
         at' # "off", load' = load
  PROVE  IInv'
<1> DEFINE t == Pass(s, d)
<1>1. Sched(s) /\ ahead \in Nat /\ ahead <= Lead(s) /\ load \in Loads
  BY DEF IInv
<1>2. Sched(t) /\ Drained(d) \in Nat /\ Drained(d) <= Lead(t)
  BY <1>1, PassLeads
<1>3. Checked(t, u)
  OBVIOUS
<1> HIDE DEF t
<1>4. Sched(u) /\ Lead(t) \in Int /\ Lead(u) \in Int /\ Lead(t) <= Lead(u)
  BY <1>2, <1>3, CheckedLeads
<1>5. Sched(s') /\ ahead' \in Nat /\ ahead' <= Lead(s')
  BY <1>2, <1>4
<1> QED BY <1>1, <1>5, NextInv

(* What IInv gives a hook                                                  *)
LEMMA SchedNow ==
  ASSUME IInv, NEW d \in Nat
  PROVE  Sched(s) /\ Sched(Pass(s, d)) /\ load \in Loads
BY PassLeads DEF IInv

LEMMA ServiceInv == ASSUME IInv, Service PROVE IInv'
<1>1. Checked(s, Note(s, "service"))
  BY NoteChecked DEF IInv
<1> QED BY <1>1, HookInv DEF Service, Hook

LEMMA DispatchInv == ASSUME IInv, Dispatch PROVE IInv'
<1>1. PICK d \in Takes("service") :
        /\ ahead' = Drained(d)
        /\ s' = OffIf(Note(Pass(s, d), "dispatch"),
                      "service" \notin Note(Pass(s, d), "dispatch").flags)
        /\ at' = "entry" /\ load' = load
  BY DEF Dispatch, Hook
<1>2. d \in Nat
  BY TimesAreNumbers DEF IInv, Parts
<1> DEFINE t == Note(Pass(s, d), "dispatch")
           u == OffIf(t, "service" \notin t.flags)
<1>3. Checked(Pass(s, d), t) /\ Sched(t)
  BY <1>2, SchedNow, NoteChecked, CheckedLeads
<1>4. s' = u
  BY <1>1
<1> HIDE DEF t
<1>5. Checked(t, u)
  BY <1>3, OffChecked DEF OffIf
<1> HIDE DEF u
<1>6. Checked(Pass(s, d), u)
  BY <1>3, <1>5, CheckedTransitive
<1> QED BY <1>1, <1>2, <1>4, <1>6, TimedHookInv

LEMMA ManagerEntryInv == ASSUME IInv, ManagerEntry PROVE IInv'
<1> DEFINE t == Note(s, "entry")
           u == [t EXCEPT !.counter = g.counter, !.interp = g.interp, !.game = g.game,
                          !.before = Frame(g), !.after = Frame(g)]
<1>1. Checked(s, t) /\ Sched(t)
  BY NoteChecked, CheckedLeads DEF IInv
<1>2. /\ s' = t \/ s' = Off(t) \/ s' = u
      /\ ahead' = ahead /\ at' # "off" /\ load' = load
  BY DEF ManagerEntry, Hook
<1> HIDE DEF t
<1>3. Checked(t, Off(t)) /\ Checked(t, u)
  BY <1>1, OffChecked DEF Sched, Checked
<1> HIDE DEF u
<1>4. Checked(s, Off(t)) /\ Checked(s, u)
  BY <1>1, <1>3, CheckedTransitive
<1> QED BY <1>1, <1>2, <1>4, HookInv

LEMMA CounterRebaseInv == ASSUME IInv, CounterRebase PROVE IInv'
<1> DEFINE t == Note(s, "rebase")
           u == [t EXCEPT !.counter = Succ(g.counter)]
<1>1. Checked(s, t) /\ Sched(t)
  BY NoteChecked, CheckedLeads DEF IInv
<1>2. /\ s' = t \/ s' = Off(t) \/ s' = u
      /\ ahead' = ahead /\ at' # "off" /\ load' = load
  BY DEF CounterRebase, Hook
<1> HIDE DEF t
<1>3. Checked(t, Off(t)) /\ Checked(t, u)
  BY <1>1, OffChecked DEF Sched, Checked
<1> HIDE DEF u
<1>4. Checked(s, Off(t)) /\ Checked(s, u)
  BY <1>1, <1>3, CheckedTransitive
<1> QED BY <1>1, <1>2, <1>4, HookInv

LEMMA GamePublishInv == ASSUME IInv, GamePublish PROVE IInv'
<1> DEFINE t == Note(s, "publish")
<1>1. Checked(s, t) /\ Sched(t)
  BY NoteChecked, CheckedLeads DEF IInv
<1>2. PICK new \in Games :
        /\ s' = t \/ s' = Off(t) \/ s' = [t EXCEPT !.game = new]
        /\ ahead' = ahead /\ at' # "off" /\ load' = load
  BY DEF GamePublish, Hook
<1> DEFINE u == [t EXCEPT !.game = new]
<1> HIDE DEF t
<1>3. Checked(t, Off(t)) /\ Checked(t, u)
  BY <1>1, OffChecked DEF Sched, Checked
<1>4. s' = t \/ s' = Off(t) \/ s' = u
  BY <1>2
<1> HIDE DEF u
<1>5. Checked(s, Off(t)) /\ Checked(s, u)
  BY <1>1, <1>3, CheckedTransitive
<1> QED BY <1>1, <1>2, <1>4, <1>5, HookInv

-----------------------------------------------------------------------------
(* Game::Update: the only step that moves the updates ahead                *)
LEMMA BeginChecks ==
  ASSUME NEW t, Sched(t)
  PROVE  Checked(t, BeginChecked(t))
<1> DEFINE n == Note(t, "begin")
           u == [n EXCEPT !.site = "normal"]
<1>1. Checked(t, n) /\ Sched(n)
  BY NoteChecked, CheckedLeads
<1>2. BeginChecked(t) = n \/ BeginChecked(t) = u \/ BeginChecked(t) = Off(u)
  BY DEF BeginChecked, OffIf
<1> HIDE DEF n
<1>3. Checked(n, u) /\ Sched(u)
  BY <1>1 DEF Sched, Checked
<1> HIDE DEF u
<1>4. Checked(u, Off(u))
  BY <1>3, OffChecked
<1>5. Checked(t, u) /\ Checked(t, Off(u))
  BY <1>1, <1>3, <1>4, CheckedTransitive
<1> QED BY <1>1, <1>2, <1>5

(* An update that begins after its floor is ahead by one update and what   *)
(* is left of a late wake-up                                               *)
LEMMA UnpacedLeads ==
  ASSUME NEW t, Sched(t), t.on, t.floor <= 0
  PROVE  /\ Sched(Unpaced(t)) /\ Unpaced(t).on
         /\ Lead(t) = MaxLate /\ Lead(Unpaced(t)) = MaxLate + GameTick
<1>1. /\ {"on", "next", "floor"} \subseteq DOMAIN Unpaced(t)
      /\ Unpaced(t).on = t.on /\ Unpaced(t).next = t.next /\ Unpaced(t).floor = GameTick
  BY DEF Unpaced, Sched
<1>2. Sched(Unpaced(t))
  BY <1>1, Constants DEF Sched
<1> QED BY <1>1, <1>2, LeadBounds, Constants DEF Sched

(* An update that slept until its floor, and o longer                      *)
LEMMA PacedLeads ==
  ASSUME NEW t, Sched(t), t.on, t.floor > 0, NEW o \in 0 .. MaxLate, ahead \in Nat, ahead <= Lead(t)
  PROVE  /\ Sched(Paced(t, o)) /\ Paced(t, o).on
         /\ t.floor + o \in Nat /\ Drained(t.floor + o) \in Nat
         /\ Drained(t.floor + o) + GameTick <= Lead(Paced(t, o))
<1> DEFINE d == t.floor + o
           n == Pass(t, d)
           u == Paced(t, o)
<1>1. d \in Nat /\ o \in Nat /\ o <= MaxLate /\ MaxLate < GameTick
  BY Constants, CadenceAssumption DEF Sched, GameTick
<1>2. Sched(n) /\ n.on = t.on
  BY <1>1, PassLeads
<1>3. u = [n EXCEPT !.floor = GameTick - o, !.since = 0, !.before = Frame(g),
                    !.next = IF Fits(t) THEN t.next ELSE @]
  BY DEF Paced
<1>4. Drained(d) \in Nat /\ Drained(d) <= MaxLate - o
  <2>1. ahead <= MaxLate + t.floor
    BY LeadBounds DEF Sched
  <2> QED BY <2>1, <1>1, Constants DEF Drained, Sched
<1> HIDE DEF n
<1>5. /\ {"on", "next", "floor"} \subseteq DOMAIN u
      /\ u.on = n.on /\ u.floor = GameTick - o /\ (u.next = t.next \/ u.next = n.next)
  BY <1>2, <1>3 DEF Sched
<1> HIDE DEF u
<1>6. Sched(u)
  BY <1>1, <1>2, <1>5, Constants DEF Sched
<1>7. Lead(u) = MaxLate + (GameTick - o)
  <2>1. u.on
    BY <1>2, <1>5
  <2>2. u.floor = GameTick - o /\ u.floor >= 0
    BY <1>1, <1>5, Constants
  <2>3. Lead(u) = MaxLate + u.floor
    BY <1>6, <2>1, <2>2, LeadBounds
  <2> QED BY <2>2, <2>3
<1>8. Drained(d) + GameTick <= Lead(u)
  BY <1>1, <1>4, <1>7, Constants
<1>9. Sched(u) /\ u.on /\ d \in Nat /\ Drained(d) \in Nat
  BY <1>1, <1>2, <1>4, <1>5, <1>6
<1> QED BY <1>8, <1>9 DEF u

LEMMA GameUpdateBeginInv == ASSUME IInv, GameUpdateBegin PROVE IInv'
<1> DEFINE t == BeginChecked(s)
<1>1. Sched(s) /\ ahead \in Nat /\ ahead <= Lead(s) /\ load \in Loads
  BY DEF IInv
<1>2. Checked(s, t)
  BY <1>1, BeginChecks
<1>3. Sched(t) /\ ahead <= Lead(t)
  BY <1>1, <1>2, CheckedLeads
<1>4. /\ \/ ~t.on /\ Starts(t, 0)
         \/ t.on /\ t.floor <= 0 /\ Starts(Unpaced(t), 0)
         \/ t.on /\ t.floor > 0 /\ \E o \in 0 .. MaxLate : Starts(Paced(t, o), t.floor + o)
         \/ Starts(Off(t), 0)
      /\ load' = load
  BY DEF GameUpdateBegin
<1> HIDE DEF t
<1>5. Drained(0) = ahead
  BY <1>1 DEF Drained
<1>6. CASE ~t.on /\ Starts(t, 0)
  <2>1. s' = t /\ ahead' = ahead /\ at' # "off"
    BY <1>1, <1>5, <1>6 DEF Starts, Hook
  <2> QED BY <2>1, <1>2, <1>4, HookInv
<1>7. CASE t.on /\ t.floor <= 0 /\ Starts(Unpaced(t), 0)
  <2> DEFINE u == Unpaced(t)
  <2>1. Sched(u) /\ u.on /\ Lead(t) = MaxLate /\ Lead(u) = MaxLate + GameTick
    BY <1>3, <1>7, UnpacedLeads
  <2>2. s' = u /\ ahead' = Drained(0) + (IF u.on THEN GameTick ELSE 0) /\ at' # "off"
    BY <1>7 DEF Starts, Hook
  <2> HIDE DEF u
  <2>3. ahead' = ahead + GameTick
    BY <2>1, <2>2, <1>5
  <2>4. Sched(s') /\ ahead' \in Nat /\ ahead' <= Lead(s')
    BY <2>1, <2>2, <2>3, <1>1, <1>3, Constants
  <2> QED BY <2>2, <2>4, <1>1, <1>4, NextInv
<1>8. CASE t.on /\ t.floor > 0 /\ \E o \in 0 .. MaxLate : Starts(Paced(t, o), t.floor + o)
  <2>1. PICK o \in 0 .. MaxLate : Starts(Paced(t, o), t.floor + o)
    BY <1>8
  <2> DEFINE u == Paced(t, o)
             d == t.floor + o
  <2>2. Sched(u) /\ u.on /\ Drained(d) \in Nat /\ Drained(d) + GameTick <= Lead(u)
    BY <1>1, <1>3, <1>8, PacedLeads
  <2>3. s' = u /\ ahead' = Drained(d) + (IF u.on THEN GameTick ELSE 0) /\ at' # "off"
    BY <2>1 DEF Starts, Hook
  <2> HIDE DEF u, d
  <2>4. Sched(s') /\ ahead' \in Nat /\ ahead' <= Lead(s')
    BY <2>2, <2>3, Constants
  <2> QED BY <2>3, <2>4, <1>1, <1>4, NextInv
<1>9. CASE Starts(Off(t), 0)
  <2>1. Checked(s, Off(t)) /\ ~Off(t).on
    BY <1>2, <1>3, OffChecked, CheckedTransitive
  <2>2. s' = Off(t) /\ ahead' = ahead /\ at' # "off"
    BY <1>1, <1>5, <1>9, <2>1 DEF Starts, Hook
  <2> QED BY <2>1, <2>2, <1>4, HookInv
<1> QED BY <1>4, <1>6, <1>7, <1>8, <1>9

LEMMA EarlyReturnInv == ASSUME IInv, EarlyReturn PROVE IInv'
<1> DEFINE u == [s EXCEPT !.site = "accepted"]
<1>1. Checked(s, u)
  BY DEF IInv, Sched, Checked
<1>2. s' = u /\ ahead' = ahead /\ at' # "off" /\ load' = load
  BY DEF EarlyReturn
<1> QED BY <1>1, <1>2, HookInv

LEMMA EndChecks ==
  ASSUME NEW t, NEW x, Sched(t)
  PROVE  Checked(t, EndChecked(t, x))
<1> DEFINE n == Note(t, "end")
           u == [n EXCEPT !.update = IF "begin" \in t.flags THEN t.since ELSE @, !.after = Frame(x)]
<1>1. Checked(t, n) /\ Sched(n)
  BY NoteChecked, CheckedLeads
<1>2. EndChecked(t, x) = n \/ EndChecked(t, x) = u \/ EndChecked(t, x) = Off(u)
  BY DEF EndChecked, OffIf
<1> HIDE DEF n
<1>3. Checked(n, u) /\ Sched(u)
  BY <1>1 DEF Sched, Checked
<1> HIDE DEF u
<1>4. Checked(u, Off(u))
  BY <1>3, OffChecked
<1>5. Checked(t, u) /\ Checked(t, Off(u))
  BY <1>1, <1>3, <1>4, CheckedTransitive
<1> QED BY <1>1, <1>2, <1>5

LEMMA GameUpdateEndInv == ASSUME IInv, GameUpdateEnd PROVE IInv'
<1>1. PICK d \in Takes("update") :
        /\ ahead' = Drained(d) /\ s' = EndChecked(Pass(s, d), g')
        /\ at' # "off" /\ load' = load
  BY DEF GameUpdateEnd, Hook
<1>2. d \in Nat
  BY TimesAreNumbers DEF IInv, Parts
<1>3. Checked(Pass(s, d), EndChecked(Pass(s, d), g'))
  BY <1>2, SchedNow, EndChecks
<1> QED BY <1>1, <1>2, <1>3, TimedHookInv

LEMMA IdleInv == ASSUME IInv, Idle PROVE IInv'
<1>1. PICK d \in Takes("idle") :
        s' = Pass(s, d) /\ ahead' = Drained(d) /\ at' # "off" /\ load' = load
  BY DEF Idle
<1>2. d \in Nat
  BY TimesAreNumbers DEF IInv, Parts
<1>3. Checked(Pass(s, d), Pass(s, d))
  BY <1>2, SchedNow, OffChecked
<1> QED BY <1>1, <1>2, <1>3, TimedHookInv

-----------------------------------------------------------------------------
(* The render gate and the render                                          *)
LEMMA GatedChecks ==
  ASSUME NEW t, NEW x, Sched(t)
  PROVE  Checked(t, Gated(t, x))
<1> DEFINE n == [t EXCEPT !.interp = x.interp, !.after = Frame(x),
                          !.before = IF Frame(x) # t.after THEN Frame(x) ELSE @]
<1>1. Checked(t, n) /\ Sched(n)
  BY DEF Sched, Checked
<1>2. Gated(t, x) =
        [n EXCEPT !.show = ~Skips(n, x),
                  !.skips = IF ~Skips(n, x) THEN 0 ELSE IF Even(x.counter) THEN @ ELSE @ + 1]
  BY DEF Gated
<1> HIDE DEF n
<1>3. Checked(n, Gated(t, x))
  BY <1>1, <1>2 DEF Sched, Checked
<1> QED BY <1>1, <1>3, CheckedTransitive

LEMMA GateInv == ASSUME IInv, Gate PROVE IInv'
<1> DEFINE t == Note(s, "gate")
           u == Gated(t, g')
<1>1. Checked(s, t) /\ Sched(t)
  BY NoteChecked, CheckedLeads DEF IInv
<1>2. /\ s' = t \/ s' = Off(t) \/ s' = u
      /\ ahead' = ahead /\ at' # "off" /\ load' = load
  BY DEF Gate, PlanRender, Hook
<1> HIDE DEF t
<1>3. Checked(t, Off(t)) /\ Checked(t, u)
  BY <1>1, OffChecked, GatedChecks
<1> HIDE DEF u
<1>4. Checked(s, Off(t)) /\ Checked(s, u)
  BY <1>1, <1>3, CheckedTransitive
<1> QED BY <1>1, <1>2, <1>4, HookInv

LEMMA RenderEntryInv == ASSUME IInv, RenderEntry PROVE IInv'
<1> DEFINE t == Note(s, "render")
           u == OffIf(t, ~t.show \/ "gate" \notin t.flags)
           v == [u EXCEPT !.since = 0]
<1>1. Checked(s, t) /\ Sched(t)
  BY NoteChecked, CheckedLeads DEF IInv
<1>2. s' = v /\ ahead' = ahead /\ at' # "off" /\ load' = load
  BY DEF RenderEntry, Hook
<1> HIDE DEF t
<1>3. Checked(t, u)
  BY <1>1, OffChecked DEF OffIf
<1> HIDE DEF u
<1>4. Sched(u)
  BY <1>1, <1>3, CheckedLeads
<1>5. Checked(u, v)
  BY <1>4 DEF Sched, Checked
<1> HIDE DEF v
<1>6. Checked(s, v)
  BY <1>1, <1>3, <1>5, CheckedTransitive
<1> QED BY <1>2, <1>6, HookInv

LEMMA RenderBodyInv == ASSUME IInv, RenderBody PROVE IInv'
<1> DEFINE t == Note(s, "body")
<1>1. Checked(s, t) /\ Sched(t)
  BY NoteChecked, CheckedLeads DEF IInv
<1>2. /\ s' = t \/ s' = Off(t)
      /\ ahead' = ahead /\ at' # "off" /\ load' = load
  BY DEF RenderBody, Hook, OffIf
<1> HIDE DEF t
<1>3. Checked(s, Off(t))
  BY <1>1, OffChecked, CheckedTransitive
<1> QED BY <1>1, <1>2, <1>3, HookInv

LEMMA PresentInv == ASSUME IInv, Present PROVE IInv'
<1>1. PICK d \in Takes("render") :
        /\ ahead' = Drained(d)
        /\ s' = OffIf(Note(Pass(s, d), "present"), "body" \notin Note(Pass(s, d), "present").flags)
        /\ at' = "return" /\ load' = load
  BY DEF Present, Hook
<1>2. d \in Nat
  BY TimesAreNumbers DEF IInv, Parts
<1> DEFINE t == Note(Pass(s, d), "present")
           u == OffIf(t, "body" \notin t.flags)
<1>3. Checked(Pass(s, d), t) /\ Sched(t)
  BY <1>2, SchedNow, NoteChecked, CheckedLeads
<1>4. s' = u
  BY <1>1
<1> HIDE DEF t
<1>5. Checked(t, u)
  BY <1>3, OffChecked DEF OffIf
<1> HIDE DEF u
<1>6. Checked(Pass(s, d), u)
  BY <1>3, <1>5, CheckedTransitive
<1> QED BY <1>1, <1>2, <1>4, <1>6, TimedHookInv

LEMMA RenderReturnInv == ASSUME IInv, RenderReturn PROVE IInv'
<1> DEFINE t == Note(s, "return")
           u == OffIf(t, "render" \notin t.flags)
           v == [u EXCEPT !.render = IF "render" \in t.flags THEN t.since ELSE @]
<1>1. Checked(s, t) /\ Sched(t)
  BY NoteChecked, CheckedLeads DEF IInv
<1>2. s' = v /\ ahead' = ahead /\ at' # "off" /\ load' = load
  BY DEF RenderReturn, Hook
<1> HIDE DEF t
<1>3. Checked(t, u)
  BY <1>1, OffChecked DEF OffIf
<1> HIDE DEF u
<1>4. Sched(u)
  BY <1>1, <1>3, CheckedLeads
<1>5. Checked(u, v)
  BY <1>4 DEF Sched, Checked
<1> HIDE DEF v
<1>6. Checked(s, v)
  BY <1>1, <1>3, <1>5, CheckedTransitive
<1> QED BY <1>2, <1>6, HookInv

LEMMA LimiterInv == ASSUME IInv, Limiter PROVE IInv'
<1>1. at' # "off" /\ load' = load
  BY DEF Limiter
<1>2. CASE s' = s /\ ahead' = ahead
  BY <1>1, <1>2, OffChecked, HookInv DEF IInv
<1>3. CASE s' = Pass(s, Tick) /\ ahead' = Drained(Tick)
  <2>1. Tick \in Nat /\ Checked(Pass(s, Tick), Pass(s, Tick))
    BY Constants, SchedNow, OffChecked
  <2> QED BY <1>1, <1>3, <2>1, TimedHookInv
<1> QED BY <1>2, <1>3 DEF Limiter

(* What the game and a breach change is not the scheduler's                *)
LEMMA OutsideInv == ASSUME IInv, Change \/ Slip PROVE IInv'
<1>1. s' = s /\ ahead' = ahead /\ at' # "off" /\ load' = load
  BY DEF Change, Slip
<1> QED BY <1>1, OffChecked, HookInv DEF IInv

-----------------------------------------------------------------------------
LEMMA StepInv == IInv /\ [Next]_vars => IInv'
<1> SUFFICES ASSUME IInv, [Next]_vars PROVE IInv'
  OBVIOUS
<1>1. CASE LoopHead
  BY <1>1, LoopHeadInv
<1>2. CASE Service \/ Dispatch \/ ManagerEntry \/ CounterRebase \/ GamePublish
  BY <1>2, ServiceInv, DispatchInv, ManagerEntryInv, CounterRebaseInv, GamePublishInv
<1>3. CASE GameUpdateBegin \/ EarlyReturn \/ GameUpdateEnd \/ Idle
  BY <1>3, GameUpdateBeginInv, EarlyReturnInv, GameUpdateEndInv, IdleInv
<1>4. CASE Gate \/ RenderEntry \/ RenderBody \/ Present \/ RenderReturn \/ Limiter
  BY <1>4, GateInv, RenderEntryInv, RenderBodyInv, PresentInv, RenderReturnInv, LimiterInv
<1>5. CASE Change \/ Slip
  BY <1>5, OutsideInv
<1>6. CASE Deactivate \/ Reset
  BY <1>6, DeactivateInv, ResetInv
<1>7. CASE UNCHANGED vars
  BY <1>7 DEF vars, IInv, Sched, Lead
<1> QED BY <1>1, <1>2, <1>3, <1>4, <1>5, <1>6, <1>7 DEF Next

(* After a stall of any length, lost time is never made up by updates in   *)
(* rapid succession: Game::Update is one update and one late wake-up ahead *)
(* of 30 Hz at most (kage_vita_fullspeed_pace_game_update).                *)
THEOREM UpdatesArePaced == Spec => []NoBurst
<1>1. IInv => NoBurst
  BY LeadBounds, Constants DEF IInv, NoBurst
<1> QED BY InitInv, StepInv, <1>1, PTL DEF Spec

(* While the scheduler is on, the next update waits until what the updates *)
(* are ahead of 30 Hz is spent, but for one late wake-up.                  *)
THEOREM FloorCoversTheLead ==
  Spec => [](s.on => ahead <= MaxLate + (IF s.floor < 0 THEN 0 ELSE s.floor))
<1>1. IInv => (s.on => ahead <= MaxLate + (IF s.floor < 0 THEN 0 ELSE s.floor))
  BY DEF IInv, Lead
<1> QED BY InitInv, StepInv, <1>1, PTL DEF Spec

-----------------------------------------------------------------------------
(* The switch.                                                             *)
(* None of the other three properties is inductive.  The flags of a tick   *)
(* are what its hooks noted (DidInv), and past the gate the counter has    *)
(* moved (PastInv): so that a hook that comes again, or too late, finds    *)
(* its check failing even after the one breach that the guest commits.     *)
(* Without a breach each place of the loop is one the checks know          *)
(* (PlaceInv).  Skipped frames are what the scheduler counted (DarkInv).   *)
(* A hook is described once, by what it writes; the invariants only read   *)
(* these descriptions.                                                     *)
Fields == {"on", "started", "next", "last", "floor", "since", "update", "render", "flags", "show",
           "counter", "interp", "game", "before", "after", "site", "skips"}
Full(t) == Fields \subseteq DOMAIN t
Grid(t) == t.last # None => t.last \in Int /\ t.last < t.next

(* What a hook may leave alone                                             *)
SameView(t, u) == /\ u.counter = t.counter /\ u.interp = t.interp /\ u.game = t.game
SameFrames(t, u) == u.before = t.before /\ u.after = t.after
SameRest(t, u) == u.started = t.started /\ u.skips = t.skips
SameGrid(t, u) == u.next = t.next /\ u.last = t.last
Same(t, u) ==
  Full(u) /\ SameView(t, u) /\ SameFrames(t, u) /\ SameRest(t, u) /\ u.site = t.site

(* t with hook h noted, unless it is switched off because it is not new or *)
(* b holds                                                                 *)
Noted(t, u, h, b) ==
  /\ u.on <=> t.on /\ New(t, h) /\ ~b
  /\ u.on => u.flags = t.flags \cup {h} /\ u.show = t.show
  /\ (t.on \/ t.show) => (u.on \/ u.show)

(* A note writes the switch, the flags and what is shown, and nothing else *)
LEMMA NoteIs ==
  ASSUME NEW t, Full(t), NEW h
  PROVE  Same(t, Note(t, h)) /\ SameGrid(t, Note(t, h)) /\ Noted(t, Note(t, h), h, FALSE)
<1>1. CASE New(t, h)
  <2> DEFINE u == [t EXCEPT !.flags = @ \cup {h}]
  <2>1. Note(t, h) = u
    BY <1>1 DEF Note
  <2>2. Same(t, u) /\ SameGrid(t, u) /\ u.on = t.on /\ u.flags = t.flags \cup {h} /\ u.show = t.show
    BY DEF Full, Fields, Same, SameGrid, SameView, SameFrames, SameRest
  <2> QED BY <1>1, <2>1, <2>2 DEF Noted
<1>2. CASE ~New(t, h)
  <2> DEFINE u == Off(t)
  <2>1. Note(t, h) = u
    BY <1>2 DEF Note
  <2>2. Same(t, u) /\ SameGrid(t, u) /\ ~u.on /\ u.show
    BY DEF Off, Full, Fields, Same, SameGrid, SameView, SameFrames, SameRest
  <2> QED BY <1>2, <2>1, <2>2 DEF Noted
<1> QED BY <1>1, <1>2

(* Switching off writes the switch and what is shown                       *)
LEMMA OffIs ==
  ASSUME NEW t, Full(t)
  PROVE  Same(t, Off(t)) /\ SameGrid(t, Off(t)) /\ ~Off(t).on /\ Off(t).show
BY DEF Off, Full, Fields, Same, SameGrid, SameView, SameFrames, SameRest

(* A check after a note                                                    *)
LEMMA OffIfIs ==
  ASSUME NEW t, NEW u, NEW h, NEW b, Full(t), Full(u), Noted(t, u, h, FALSE)
  PROVE  Same(u, OffIf(u, b)) /\ SameGrid(u, OffIf(u, b)) /\ Noted(t, OffIf(u, b), h, b)
<1>1. CASE b
  BY <1>1, OffIs DEF OffIf, Noted
<1>2. CASE ~b
  BY <1>2 DEF OffIf, Noted, Same, SameGrid, SameView, SameFrames, SameRest
<1> QED BY <1>1, <1>2

(* The clock is taken from the deadlines                                   *)
LEMMA PassIs ==
  ASSUME NEW t, Full(t), NEW d
  PROVE  /\ Same(t, Pass(t, d)) /\ Pass(t, d).on = t.on /\ Pass(t, d).flags = t.flags
         /\ Pass(t, d).show = t.show /\ Pass(t, d).next = t.next - d
         /\ Pass(t, d).last = IF t.last = None THEN None ELSE t.last - d
<1> DEFINE u == Pass(t, d)
<1>1. u.next = t.next - d /\ u.last = (IF t.last = None THEN None ELSE t.last - d)
  BY DEF Pass, Full, Fields
<1>2. Full(u) /\ SameView(t, u) /\ SameFrames(t, u)
  BY DEF Pass, Full, Fields, SameView, SameFrames
<1>3. SameRest(t, u) /\ u.site = t.site
  BY DEF Pass, Full, Fields, SameRest
<1>4. u.on = t.on /\ u.flags = t.flags /\ u.show = t.show
  BY DEF Pass, Full, Fields
<1> QED BY <1>1, <1>2, <1>3, <1>4 DEF Same

(* The deadlines stay in order when the clock passes                       *)
LEMMA PassGrid ==
  ASSUME NEW t, Full(t), Grid(t), t.next \in Int, NEW d \in Int
  PROVE  Grid(Pass(t, d)) /\ (Pass(t, d).last = None <=> t.last = None)
<1>1. None \notin Int
  BY CadenceAssumption
<1> DEFINE u == Pass(t, d)
<1>2. u.next = t.next - d /\ u.last = (IF t.last = None THEN None ELSE t.last - d)
  BY PassIs
<1> HIDE DEF u
<1>3. Grid(u) /\ (u.last = None <=> t.last = None)
  BY <1>1, <1>2 DEF Grid
<1> QED BY <1>3 DEF u

(* What the statics, the guest and the history are                         *)
Shape ==
  /\ Full(s) /\ s.next \in Int /\ Grid(s) /\ (~s.started => s.last = None)
  /\ s.counter \in 0 .. CounterMod - 1 /\ s.skips \in 0 .. MaxSkips /\ (s.on \/ s.show)
  /\ g \in Guest /\ dark \in Nat /\ breach \in BOOLEAN /\ did \in Seq(Hooks)

(* A hook that is noted and checked                                        *)
HookTo(t, h, b) ==
  Full(t) /\ Noted(s, t, h, b) /\ SameRest(s, t) /\ Grid(t) /\ (t.last = None <=> s.last = None)
HookStep(h, b) == HookTo(s', h, b) /\ did' = Append(did, h) /\ UNCHANGED breach

(* What two steps leave alone, both leave alone                            *)
LEMMA SameKeeps ==
  ASSUME NEW t, NEW u, NEW v, Same(t, u), Same(u, v)
  PROVE  Same(t, v)
BY DEF Same, SameView, SameFrames, SameRest

(* Deadlines that were not written are in order as before                  *)
LEMMA SameGridKeeps ==
  ASSUME NEW t, NEW u, SameGrid(t, u)
  PROVE  (Grid(t) => Grid(u)) /\ (u.last = None <=> t.last = None)
BY DEF SameGrid, Grid

(* The clock that passed makes no difference to a note                     *)
LEMMA PassNoted ==
  ASSUME NEW t, Full(t), NEW d, NEW u, NEW h, NEW b, Noted(Pass(t, d), u, h, b)
  PROVE  Noted(t, u, h, b)
<1> DEFINE p == Pass(t, d)
<1>1. p.on = t.on /\ p.flags = t.flags /\ p.show = t.show /\ p.started = t.started
  BY PassIs DEF Same, SameRest
<1>2. Noted(p, u, h, b)
  OBVIOUS
<1> HIDE DEF p
<1> QED BY <1>1, <1>2 DEF Noted, New

(* The simple hook: a note and a check                                     *)
LEMMA CheckIs ==
  ASSUME NEW t, Full(t), NEW h, NEW b
  PROVE  LET u == OffIf(Note(t, h), b) IN Same(t, u) /\ SameGrid(t, u) /\ Noted(t, u, h, b)
<1> DEFINE n == Note(t, h)
           u == OffIf(n, b)
<1>1. Same(t, n) /\ SameGrid(t, n) /\ Noted(t, n, h, FALSE)
  BY NoteIs
<1> HIDE DEF n
<1>2. Same(n, u) /\ SameGrid(n, u) /\ Noted(t, u, h, b)
  BY <1>1, OffIfIs DEF Same
<1>3. Same(t, u) /\ SameGrid(t, u)
  BY <1>1, <1>2, SameKeeps DEF SameGrid
<1> QED BY <1>2, <1>3 DEF n

(* A check that decides the same on a new hook                             *)
LEMMA NotedIff ==
  ASSUME NEW t, NEW u, NEW h, NEW b, NEW c, Noted(t, u, h, b), New(t, h) => (b <=> c)
  PROVE  Noted(t, u, h, c)
BY DEF Noted

(* Such a hook now, and after the clock passed                             *)
LEMMA CheckStep ==
  ASSUME Shape, NEW h, NEW b, s' = OffIf(Note(s, h), b), did' = Append(did, h), UNCHANGED breach
  PROVE  HookStep(h, b) /\ Same(s, s')
<1> DEFINE u == OffIf(Note(s, h), b)
<1>1. Same(s, u) /\ SameGrid(s, u) /\ Noted(s, u, h, b)
  BY CheckIs DEF Shape
<1>2. s' = u
  OBVIOUS
<1> HIDE DEF u
<1> QED BY <1>1, <1>2, SameGridKeeps DEF HookStep, HookTo, Shape, Same

(* Such a hook after the clock passed                                      *)
LEMMA TimedCheckStep ==
  ASSUME Shape, NEW h, NEW b, NEW d \in Int, s' = OffIf(Note(Pass(s, d), h), b),
         did' = Append(did, h), UNCHANGED breach
  PROVE  HookStep(h, b) /\ Same(s, s')
<1> DEFINE p == Pass(s, d)
           u == OffIf(Note(p, h), b)
<1>1. Same(s, p) /\ Grid(p) /\ (p.last = None <=> s.last = None)
  BY PassIs, PassGrid DEF Shape
<1>2. Full(p)
  BY <1>1 DEF Same
<1>3. Same(p, u) /\ SameGrid(p, u) /\ Noted(p, u, h, b)
  BY <1>2, CheckIs
<1>4. s' = u
  OBVIOUS
<1>5. Noted(s, u, h, b)
  BY <1>3, PassNoted DEF Shape
<1> HIDE DEF u, p
<1>6. Same(s, u) /\ Grid(u) /\ (u.last = None <=> s.last = None)
  BY <1>1, <1>3, SameKeeps, SameGridKeeps
<1> QED BY <1>4, <1>5, <1>6 DEF HookStep, HookTo, Same

-----------------------------------------------------------------------------
(* The hooks, one by one: which check each makes, what it leaves alone     *)
LEMMA ServiceIs ==
  ASSUME Shape, Service
  PROVE  /\ HookStep("service", FALSE) /\ Same(s, s')
         /\ at = "service" /\ at' = "dispatch" /\ UNCHANGED <<g, dark>>
<1>1. s' = OffIf(Note(s, "service"), FALSE)
  BY DEF Service, Hook, OffIf
<1>2. /\ did' = Append(did, "service") /\ UNCHANGED breach
      /\ at = "service" /\ at' = "dispatch" /\ UNCHANGED <<g, dark>>
  BY DEF Service, Hook
<1> QED BY <1>1, <1>2, CheckStep

(* A hook's checks read the flags with its own among them                  *)
LEMMA HookIff ==
  ASSUME NEW h, NEW b, NEW c, HookStep(h, b), New(s, h) => (b <=> c)
  PROVE  HookStep(h, c)
BY NotedIff DEF HookStep, HookTo

(* The flags after a note, whether the clock passed or not                 *)
LEMMA FlagsNow ==
  ASSUME Shape, NEW h, NEW d \in Int
  PROVE  New(s, h) => /\ Note(s, h).flags = s.flags \cup {h} /\ Note(s, h).on = s.on
                      /\ Note(s, h).show = s.show
                      /\ Note(Pass(s, d), h).flags = s.flags \cup {h}
                      /\ Note(Pass(s, d), h).on = s.on
<1>0. SUFFICES ASSUME New(s, h)
      PROVE  /\ Note(s, h).flags = s.flags \cup {h} /\ Note(s, h).on = s.on
             /\ Note(s, h).show = s.show
             /\ Note(Pass(s, d), h).flags = s.flags \cup {h}
             /\ Note(Pass(s, d), h).on = s.on
  OBVIOUS
<1> DEFINE p == Pass(s, d)
<1>1. p.flags = s.flags /\ p.started = s.started /\ Full(p) /\ p.on = s.on
  BY PassIs DEF Shape, Same, SameRest
<1> HIDE DEF p
<1>2. New(p, h)
  BY <1>0, <1>1 DEF New
<1>3. \A t : Full(t) /\ New(t, h) =>
        /\ [t EXCEPT !.flags = @ \cup {h}].flags = t.flags \cup {h}
        /\ [t EXCEPT !.flags = @ \cup {h}].on = t.on /\ [t EXCEPT !.flags = @ \cup {h}].show = t.show
  BY DEF Full, Fields
<1>4. \A t : Full(t) /\ New(t, h) =>
        Note(t, h).flags = t.flags \cup {h} /\ Note(t, h).on = t.on /\ Note(t, h).show = t.show
  BY <1>3 DEF Note
<1>5. Full(s)
  BY DEF Shape
<1> QED BY <1>0, <1>1, <1>2, <1>4, <1>5 DEF p

(* The flags after a note                                                  *)
LEMMA NoteFlags ==
  ASSUME Shape, NEW h
  PROVE  New(s, h) => /\ Note(s, h).flags = s.flags \cup {h} /\ Note(s, h).on = s.on
                      /\ Note(s, h).show = s.show
<1>1. 0 \in Int
  OBVIOUS
<1> QED BY <1>1, FlagsNow

(* The dispatch expects the service before it                              *)
LEMMA DispatchIs ==
  ASSUME IInv, Shape, Dispatch
  PROVE  /\ HookStep("dispatch", "service" \notin s.flags) /\ Same(s, s')
         /\ at = "dispatch" /\ at' = "entry" /\ UNCHANGED <<g, dark>>
<1>1. PICK d \in Takes("service") :
        s' = OffIf(Note(Pass(s, d), "dispatch"), "service" \notin Note(Pass(s, d), "dispatch").flags)
  BY DEF Dispatch, Hook
<1>2. d \in Int
  BY TimesAreNumbers DEF IInv, Parts
<1>3. /\ did' = Append(did, "dispatch") /\ UNCHANGED breach
      /\ at = "dispatch" /\ at' = "entry" /\ UNCHANGED <<g, dark>>
  BY DEF Dispatch, Hook
<1>4. /\ HookStep("dispatch", "service" \notin Note(Pass(s, d), "dispatch").flags)
      /\ Same(s, s')
  BY <1>1, <1>2, <1>3, TimedCheckStep
<1>5. New(s, "dispatch") =>
        ("service" \notin Note(Pass(s, d), "dispatch").flags <=> "service" \notin s.flags)
  BY <1>2, FlagsNow
<1> QED BY <1>3, <1>4, <1>5, HookIff


-----------------------------------------------------------------------------
(* Hooks that write more than a note.  p is now, after the clock passed or *)
(* not; v is what is written besides                                       *)
Later(p) ==
  /\ Full(p) /\ p.on = s.on /\ p.flags = s.flags /\ p.show = s.show
  /\ SameRest(s, p) /\ Grid(p) /\ (p.last = None <=> s.last = None)
Core(t, v) ==
  /\ Full(v) /\ v.on = t.on /\ v.flags = t.flags /\ v.show = t.show
  /\ SameRest(t, v) /\ SameGrid(t, v)

(* Now is later than nothing                                               *)
LEMMA LaterNow == ASSUME Shape PROVE Later(s)
BY DEF Shape, Later, SameRest

(* After the clock passed                                                  *)
LEMMA LaterPassed == ASSUME Shape, NEW d \in Int PROVE Later(Pass(s, d))
BY PassIs, PassGrid DEF Shape, Later, Same

(* What a hook writes besides its note does not undo it                    *)
LEMMA EditIs ==
  ASSUME Shape, NEW p, Later(p), NEW h, NEW b, NEW v, Core(Note(p, h), v)
  PROVE  /\ ~v.on \/ ~b => HookTo(v, h, b)
         /\ b \/ ~New(s, h) \/ ~v.on => HookTo(Off(v), h, b)
<1> DEFINE t == Note(p, h)
<1>1. Same(p, t) /\ SameGrid(p, t) /\ Noted(p, t, h, FALSE)
  BY NoteIs DEF Later
<1>2. Core(t, v)
  OBVIOUS
<1> HIDE DEF t
<1>3. /\ Full(v) /\ Noted(p, v, h, FALSE) /\ SameRest(p, v) /\ SameGrid(p, v)
  BY <1>1, <1>2 DEF Core, Noted, Same, SameRest, SameGrid
<1>4. Noted(s, v, h, FALSE)
  BY <1>3 DEF Noted, New, Later, SameRest
<1>5. SameRest(s, v) /\ Grid(v) /\ (v.last = None <=> s.last = None)
  BY <1>3 DEF Later, SameRest, SameGrid, Grid
<1>6. ASSUME ~v.on \/ ~b PROVE HookTo(v, h, b)
  BY <1>3, <1>4, <1>5, <1>6 DEF HookTo, Noted
<1>7. ASSUME b \/ ~New(s, h) \/ ~v.on PROVE HookTo(Off(v), h, b)
  <2>1. Same(v, Off(v)) /\ SameGrid(v, Off(v)) /\ ~Off(v).on /\ Off(v).show
    BY <1>3, OffIs
  <2>2. Noted(s, Off(v), h, b)
    BY <2>1, <1>4, <1>7 DEF Noted
  <2>3. SameRest(s, Off(v)) /\ Grid(Off(v)) /\ (Off(v).last = None <=> s.last = None) /\ Full(Off(v))
    BY <2>1, <1>5 DEF Same, SameRest, SameGrid, Grid
  <2> QED BY <2>2, <2>3 DEF HookTo
<1> QED BY <1>6, <1>7

(* Nothing written                                                         *)
LEMMA CoreSelf == ASSUME NEW t, Full(t) PROVE Core(t, t)
BY DEF Core, SameRest, SameGrid

(* A note is a note of the statics as they were                            *)
LEMMA NoteFull ==
  ASSUME Shape, NEW p, Later(p), NEW h
  PROVE  /\ Full(Note(p, h)) /\ (Note(p, h).on <=> s.on /\ New(s, h))
         /\ New(p, h) <=> New(s, h)
BY NoteIs DEF Later, Same, Noted, New, SameRest

(* The Manager is entered after the dispatch, and its state is kept        *)
LEMMA ManagerEntryIs ==
  ASSUME Shape, ManagerEntry
  PROVE  /\ HookStep("entry", "dispatch" \notin s.flags)
         /\ s'.on => /\ s'.counter = g.counter /\ s'.interp = g.interp /\ s'.game = g.game
                     /\ s'.before = Frame(g) /\ s'.after = Frame(g)
         /\ s'.counter \in {s.counter, g.counter}
         /\ at = "entry" /\ at' = "entered" /\ UNCHANGED <<g, dark>>
<1> DEFINE t == Note(s, "entry")
           v == [t EXCEPT !.counter = g.counter, !.interp = g.interp, !.game = g.game,
                          !.before = Frame(g), !.after = Frame(g)]
           b == "dispatch" \notin s.flags
<1>1. /\ did' = Append(did, "entry") /\ UNCHANGED breach
      /\ at = "entry" /\ at' = "entered" /\ UNCHANGED <<g, dark>>
  BY DEF ManagerEntry, Hook
<1>2. s' = IF ~New(s, "entry") THEN t ELSE IF "dispatch" \notin t.flags THEN Off(t) ELSE v
  BY DEF ManagerEntry, Hook
<1>3. Full(t) /\ (t.on <=> s.on /\ New(s, "entry")) /\ t.counter = s.counter
  BY NoteFull, LaterNow, NoteIs DEF Shape, Same, SameView
<1>4. Core(t, v) /\ Core(t, t)
  <2> HIDE DEF t
  <2>1. /\ v.on = t.on /\ v.flags = t.flags /\ v.show = t.show
        /\ Full(v) /\ SameRest(t, v) /\ SameGrid(t, v)
    BY <1>3 DEF Full, Fields, SameRest, SameGrid
  <2> QED BY <2>1, <1>3, CoreSelf DEF Core
<1>5. /\ v.counter = g.counter /\ v.interp = g.interp /\ v.game = g.game
      /\ v.before = Frame(g) /\ v.after = Frame(g)
  <2> HIDE DEF t
  <2> QED BY <1>3 DEF Full, Fields
<1>6. New(s, "entry") => ("dispatch" \notin t.flags <=> b)
  BY NoteFlags
<1>7. Same(t, Off(t)) /\ ~Off(t).on
  BY <1>3, OffIs
<1>8. /\ ~t.on \/ ~b => HookTo(t, "entry", b)
      /\ b => HookTo(Off(t), "entry", b)
      /\ ~v.on \/ ~b => HookTo(v, "entry", b)
  BY <1>4, LaterNow, EditIs
<1> HIDE DEF v, b, t
<1>9. HookTo(s', "entry", b)
  BY <1>2, <1>3, <1>6, <1>8
<1>10. /\ s'.on => /\ s'.counter = g.counter /\ s'.interp = g.interp /\ s'.game = g.game
                   /\ s'.before = Frame(g) /\ s'.after = Frame(g)
       /\ s'.counter \in {s.counter, g.counter}
  BY <1>2, <1>3, <1>5, <1>7 DEF Same, SameView
<1> QED BY <1>1, <1>9, <1>10 DEF HookStep, b


(* Whatever the check is, the counter of an odd one that is made even is   *)
(* followed                                                                *)
RebaseBad ==
  "entry" \notin s.flags \/ s.flags \cap {"begin", "gate"} # {} \/ g.counter # s.counter

(* The rebase follows the counter                                          *)
LEMMA CounterRebaseIs ==
  ASSUME Shape, CounterRebase
  PROVE  /\ HookStep("rebase", RebaseBad) /\ s'.interp = s.interp /\ s'.game = s.game
         /\ SameFrames(s, s')
         /\ s'.on => s'.counter = Succ(g.counter)
         /\ s'.counter \in {s.counter, Succ(g.counter)}
         /\ at = "entered" /\ ~Even(g.counter)
         /\ at' = (IF g.game = None THEN "publish" ELSE "begin")
         /\ g' = [g EXCEPT !.counter = Succ(@), !.playing = TRUE] /\ UNCHANGED dark
<1> DEFINE t == Note(s, "rebase")
           v == [t EXCEPT !.counter = Succ(g.counter)]
           bad == Untimely(t) \/ g.counter # t.counter \/ Even(g.counter)
<1>1. /\ did' = Append(did, "rebase") /\ UNCHANGED breach
      /\ at = "entered" /\ ~Even(g.counter)
      /\ at' = (IF g.game = None THEN "publish" ELSE "begin")
      /\ g' = [g EXCEPT !.counter = Succ(@), !.playing = TRUE] /\ UNCHANGED dark
  BY DEF CounterRebase, Hook
<1>2. s' = IF ~New(s, "rebase") \/ ~t.on THEN t ELSE IF bad THEN Off(t) ELSE v
  BY DEF CounterRebase, Hook
<1>3. Full(t) /\ (t.on <=> s.on /\ New(s, "rebase")) /\ SameView(s, t) /\ SameFrames(s, t)
  BY NoteFull, LaterNow, NoteIs DEF Shape, Same
<1>4. Core(t, v) /\ Core(t, t)
  <2> HIDE DEF t
  <2>1. /\ v.on = t.on /\ v.flags = t.flags /\ v.show = t.show
        /\ Full(v) /\ SameRest(t, v) /\ SameGrid(t, v)
    BY <1>3 DEF Full, Fields, SameRest, SameGrid
  <2> QED BY <2>1, <1>3, CoreSelf DEF Core
<1>5. v.counter = Succ(g.counter) /\ v.interp = t.interp /\ v.game = t.game /\ SameFrames(t, v)
  <2> HIDE DEF t
  <2> QED BY <1>3 DEF Full, Fields, SameFrames
<1>6. New(s, "rebase") => (bad <=> RebaseBad)
  BY <1>1, <1>3, NoteFlags DEF Untimely, RebaseBad, SameView
<1>7. Same(t, Off(t)) /\ ~Off(t).on
  BY <1>3, OffIs
<1>8. /\ ~t.on \/ ~RebaseBad => HookTo(t, "rebase", RebaseBad)
      /\ RebaseBad => HookTo(Off(t), "rebase", RebaseBad)
      /\ ~v.on \/ ~RebaseBad => HookTo(v, "rebase", RebaseBad)
  BY <1>4, LaterNow, EditIs
<1> HIDE DEF v, bad, t
<1>9. HookTo(s', "rebase", RebaseBad)
  BY <1>2, <1>3, <1>6, <1>8
<1>10. /\ s'.on => s'.counter = Succ(g.counter)
       /\ s'.counter \in {s.counter, Succ(g.counter)}
       /\ s'.interp = s.interp /\ s'.game = s.game /\ SameFrames(s, s')
  BY <1>2, <1>3, <1>5, <1>7 DEF Same, SameView, SameFrames
<1> QED BY <1>1, <1>9, <1>10 DEF HookStep


PublishBad ==
  \/ "entry" \notin s.flags \/ s.flags \cap {"begin", "gate"} # {} \/ g.counter # s.counter
  \/ ~Even(g.counter) \/ s.game # None \/ g.game # None

(* The publish follows the game                                            *)
LEMMA GamePublishIs ==
  ASSUME Shape, GamePublish
  PROVE  /\ HookStep("publish", PublishBad)
         /\ s'.counter = s.counter /\ s'.interp = s.interp /\ SameFrames(s, s')
         /\ at = "publish" \/ (at = "entered" /\ Even(g.counter) /\ g.game = None)
         /\ at' = "begin" /\ UNCHANGED dark /\ (s'.on => s'.game = g'.game)
<1>1. PICK new \in Games :
        /\ g' = [g EXCEPT !.game = new, !.frame = 0, !.playing = TRUE]
        /\ s' = LET t == Note(s, "publish") IN
                 IF ~New(s, "publish") \/ ~t.on THEN t
                 ELSE IF Untimely(t) \/ g.counter # t.counter \/ ~Even(g.counter) \/ t.game # None
                         \/ g.game # None
                      THEN Off(t)
                 ELSE [t EXCEPT !.game = new]
  BY DEF GamePublish, Hook
<1> DEFINE t == Note(s, "publish")
           v == [t EXCEPT !.game = new]
           bad == Untimely(t) \/ g.counter # t.counter \/ ~Even(g.counter) \/ t.game # None
                  \/ g.game # None
<1>2. s' = IF ~New(s, "publish") \/ ~t.on THEN t ELSE IF bad THEN Off(t) ELSE v
  BY <1>1
<1>3. Full(t) /\ (t.on <=> s.on /\ New(s, "publish")) /\ SameView(s, t) /\ SameFrames(s, t)
  BY NoteFull, LaterNow, NoteIs DEF Shape, Same
<1>4. Core(t, v) /\ Core(t, t)
  <2> HIDE DEF t
  <2>1. /\ v.on = t.on /\ v.flags = t.flags /\ v.show = t.show
        /\ Full(v) /\ SameRest(t, v) /\ SameGrid(t, v)
    BY <1>3 DEF Full, Fields, SameRest, SameGrid
  <2> QED BY <2>1, <1>3, CoreSelf DEF Core
<1>5. v.game = new /\ v.interp = t.interp /\ v.counter = t.counter /\ SameFrames(t, v)
  <2> HIDE DEF t
  <2> QED BY <1>3 DEF Full, Fields, SameFrames
<1>6. New(s, "publish") => (bad <=> PublishBad)
  BY <1>3, NoteFlags DEF Untimely, PublishBad, SameView
<1>7. Same(t, Off(t)) /\ ~Off(t).on
  BY <1>3, OffIs
<1>8. /\ ~t.on \/ ~PublishBad => HookTo(t, "publish", PublishBad)
      /\ PublishBad => HookTo(Off(t), "publish", PublishBad)
      /\ ~v.on \/ ~PublishBad => HookTo(v, "publish", PublishBad)
  BY <1>4, LaterNow, EditIs
<1>9. /\ did' = Append(did, "publish") /\ UNCHANGED breach
      /\ at = "publish" \/ (at = "entered" /\ Even(g.counter) /\ g.game = None)
      /\ at' = "begin" /\ UNCHANGED dark
  BY DEF GamePublish, Hook
<1> HIDE DEF v, bad, t
<1>10. HookTo(s', "publish", PublishBad)
  BY <1>2, <1>3, <1>6, <1>8
<1>11. /\ s'.on => s'.game = new
       /\ s'.counter = s.counter /\ s'.interp = s.interp /\ SameFrames(s, s')
  BY <1>2, <1>3, <1>5, <1>7 DEF Same, SameView, SameFrames
<1>12. g'.game = new
  BY <1>1 DEF Shape, Guest
<1> QED BY <1>9, <1>10, <1>11, <1>12 DEF HookStep

(* What a hook wrote besides does not undo its note                        *)
LEMMA WriteKeeps ==
  ASSUME NEW v, Full(v), NEW x, NEW h, NEW b
  PROVE  /\ Same(v, [v EXCEPT !.since = x]) /\ Same(v, [v EXCEPT !.render = x])
         /\ HookTo(v, h, b) => /\ HookTo([v EXCEPT !.since = x], h, b)
                               /\ HookTo([v EXCEPT !.render = x], h, b)
<1> DEFINE u == [v EXCEPT !.since = x]
           w == [v EXCEPT !.render = x]
<1>1. Same(v, u) /\ SameGrid(v, u) /\ u.on = v.on /\ u.flags = v.flags /\ u.show = v.show
  BY DEF Full, Fields, Same, SameView, SameFrames, SameRest, SameGrid
<1>2. Same(v, w) /\ SameGrid(v, w) /\ w.on = v.on /\ w.flags = v.flags /\ w.show = v.show
  BY DEF Full, Fields, Same, SameView, SameFrames, SameRest, SameGrid
<1> HIDE DEF u, w
<1>3. HookTo(v, h, b) => HookTo(u, h, b)
  BY <1>1 DEF HookTo, Noted, Same, SameRest, SameGrid, Grid
<1>4. HookTo(v, h, b) => HookTo(w, h, b)
  BY <1>2 DEF HookTo, Noted, Same, SameRest, SameGrid, Grid
<1> QED BY <1>1, <1>2, <1>3, <1>4 DEF u, w

BeginBad ==
  \/ "entry" \notin s.flags \/ g.counter # s.counter \/ g.game = None \/ g.game # s.game
  \/ ~Even(g.counter)

(* The begin of an update is checked before it waits for its floor         *)
LEMMA BeginCheckedIs ==
  ASSUME Shape
  PROVE  /\ HookTo(BeginChecked(s), "begin", BeginBad)
         /\ SameView(s, BeginChecked(s)) /\ BeginChecked(s).after = s.after
<1> DEFINE t == Note(s, "begin")
           v == [t EXCEPT !.site = "normal"]
           bad == "entry" \notin v.flags \/ g.counter # v.counter \/ g.game = None
                  \/ g.game # v.game \/ ~Even(g.counter)
           c == BeginChecked(s)
<1>1. c = IF ~New(s, "begin") THEN t ELSE IF ~v.on THEN v ELSE IF bad THEN Off(v) ELSE v
  BY DEF BeginChecked, OffIf
<1>2. Full(t) /\ (t.on <=> s.on /\ New(s, "begin")) /\ SameView(s, t) /\ SameFrames(s, t)
  BY NoteFull, LaterNow, NoteIs DEF Shape, Same
<1>3. Core(t, v) /\ Core(t, t) /\ SameView(t, v) /\ SameFrames(t, v)
  <2> HIDE DEF t
  <2>1. /\ v.on = t.on /\ v.flags = t.flags /\ v.show = t.show
        /\ Full(v) /\ SameRest(t, v) /\ SameGrid(t, v) /\ SameView(t, v) /\ SameFrames(t, v)
    BY <1>2 DEF Full, Fields, SameRest, SameGrid, SameView, SameFrames
  <2> QED BY <2>1, <1>2, CoreSelf DEF Core
<1>4. New(s, "begin") => (bad <=> BeginBad)
  BY <1>2, <1>3, NoteFlags DEF BeginBad, SameView, Core
<1>5. Same(v, Off(v)) /\ ~Off(v).on
  BY <1>3, OffIs DEF Core
<1>6. /\ ~t.on \/ ~BeginBad => HookTo(t, "begin", BeginBad)
      /\ BeginBad => HookTo(Off(v), "begin", BeginBad)
      /\ ~v.on \/ ~BeginBad => HookTo(v, "begin", BeginBad)
  BY <1>3, LaterNow, EditIs
<1> HIDE DEF v, bad, t, c
<1>7. HookTo(c, "begin", BeginBad)
  BY <1>1, <1>2, <1>4, <1>6
<1>8. SameView(s, c) /\ SameFrames(s, c)
  BY <1>1, <1>2, <1>3, <1>5 DEF Same, SameView, SameFrames
<1> QED BY <1>7, <1>8 DEF c, SameFrames


(* An update that begins now, or after a sleep until its floor             *)
LEMMA UnpacedIs ==
  ASSUME NEW t, NEW h, NEW b, HookTo(t, h, b)
  PROVE  /\ HookTo(Unpaced(t), h, b) /\ SameView(t, Unpaced(t))
         /\ Unpaced(t).after = t.after /\ Unpaced(t).before = Frame(g)
<1> DEFINE u == Unpaced(t)
<1>1. Full(t)
  BY DEF HookTo
<1>2. /\ Full(u) /\ SameView(t, u) /\ SameRest(t, u) /\ SameGrid(t, u) /\ u.on = t.on
      /\ u.flags = t.flags /\ u.show = t.show /\ u.after = t.after /\ u.before = Frame(g)
  BY <1>1 DEF Unpaced, Full, Fields, SameView, SameRest, SameGrid
<1> HIDE DEF u
<1>3. HookTo(u, h, b)
  BY <1>2 DEF HookTo, Noted, SameRest, SameGrid, Grid
<1> QED BY <1>2, <1>3 DEF u

(* The sleep moves every deadline but the next tick's, which may stay      *)
LEMMA PacedIs ==
  ASSUME NEW t, NEW h, NEW b, HookTo(t, h, b), t.next \in Int, t.floor \in Int, t.floor > 0,
         NEW o \in 0 .. MaxLate
  PROVE  /\ HookTo(Paced(t, o), h, b) /\ SameView(t, Paced(t, o))
         /\ Paced(t, o).after = t.after /\ Paced(t, o).before = Frame(g)
<1> DEFINE d == t.floor + o
           n == Pass(t, d)
           w == [n EXCEPT !.floor = GameTick - o, !.since = 0, !.before = Frame(g)]
           u == Paced(t, o)
<1>1. Full(t) /\ Grid(t) /\ d \in Int /\ d >= 0 /\ None \notin Int
  BY Constants, CadenceAssumption DEF HookTo
<1>2. /\ Same(t, n) /\ n.on = t.on /\ n.flags = t.flags /\ n.show = t.show
      /\ n.next = t.next - d /\ n.last = IF t.last = None THEN None ELSE t.last - d
  BY <1>1, PassIs
<1>3. u = [n EXCEPT !.floor = GameTick - o, !.since = 0, !.before = Frame(g),
                    !.next = IF Fits(t) THEN t.next ELSE @]
  BY DEF Paced
<1> HIDE DEF n
<1>4. /\ Full(u) /\ SameView(n, u) /\ SameRest(n, u) /\ u.last = n.last /\ u.on = n.on
      /\ u.flags = n.flags /\ u.show = n.show /\ u.after = n.after /\ u.before = Frame(g)
      /\ (u.next = t.next \/ u.next = n.next)
  BY <1>2, <1>3 DEF Same, Full, Fields, SameView, SameRest
<1> HIDE DEF u
<1>5. Grid(u) /\ (u.last = None <=> t.last = None)
  <2> HIDE DEF d
  <2> QED BY <1>1, <1>2, <1>4 DEF Grid
<1>6. SameView(t, u) /\ SameRest(t, u) /\ u.after = t.after
  BY <1>2, <1>4 DEF Same, SameView, SameRest, SameFrames
<1>7. HookTo(u, h, b)
  BY <1>2, <1>4, <1>5, <1>6 DEF HookTo, Noted, SameRest
<1> QED BY <1>4, <1>6, <1>7 DEF u

(* A check that decides the same                                           *)
LEMMA HookToIff ==
  ASSUME NEW t, NEW h, NEW b, NEW c, HookTo(t, h, b), b <=> c
  PROVE  HookTo(t, h, c)
BY DEF HookTo, Noted

(* Game::Update begins: only a sleep that fails is no check of the guest   *)
LEMMA GameUpdateBeginIs ==
  ASSUME IInv, Shape, GameUpdateBegin
  PROVE  /\ HookTo(s', "begin", BeginBad \/ breach' # breach) /\ did' = Append(did, "begin")
         /\ UNCHANGED breach \/ (~breach /\ breach' = TRUE)
         /\ SameView(s, s') /\ s'.after = s.after /\ (s'.on => s'.before = Frame(g))
         /\ at = "begin" \/ (at = "entered" /\ Updates)
         /\ at' = "update" /\ UNCHANGED <<g, dark>>
<1> DEFINE t == BeginChecked(s)
           b == BeginBad \/ breach' # breach
<1>1. HookTo(t, "begin", BeginBad) /\ SameView(s, t) /\ t.after = s.after
  BY BeginCheckedIs
<1>2. Sched(t)
  BY BeginChecks, CheckedLeads DEF IInv
<1>3. /\ \/ ~t.on /\ s' = t /\ UNCHANGED breach
         \/ t.on /\ s' = Unpaced(t) /\ UNCHANGED breach
         \/ t.on /\ t.floor > 0 /\ UNCHANGED breach /\ \E o \in 0 .. MaxLate : s' = Paced(t, o)
         \/ t.on /\ ~breach /\ breach' = TRUE /\ s' = Off(t)
      /\ did' = Append(did, "begin") /\ at' = "update" /\ UNCHANGED <<g, dark>>
      /\ at = "begin" \/ (at = "entered" /\ Updates)
  BY DEF GameUpdateBegin, Starts, Hook, Breach
<1> HIDE DEF t
<1>4. CASE ~t.on /\ s' = t /\ UNCHANGED breach
  <2>1. HookTo(t, "begin", b)
    BY <1>1, <1>4, HookToIff
  <2> QED BY <1>1, <1>3, <1>4, <2>1
<1>5. CASE t.on /\ s' = Unpaced(t) /\ UNCHANGED breach
  <2> DEFINE u == Unpaced(t)
  <2>1. HookTo(u, "begin", BeginBad) /\ SameView(t, u) /\ u.after = t.after /\ u.before = Frame(g)
    BY <1>1, UnpacedIs
  <2>2. s' = u
    BY <1>5
  <2> HIDE DEF u
  <2>3. HookTo(u, "begin", b)
    BY <1>5, <2>1, HookToIff
  <2> QED BY <1>1, <1>3, <1>5, <2>1, <2>2, <2>3 DEF SameView
<1>6. CASE t.floor > 0 /\ UNCHANGED breach /\ \E o \in 0 .. MaxLate : s' = Paced(t, o)
  <2>1. PICK o \in 0 .. MaxLate : s' = Paced(t, o)
    BY <1>6
  <2> DEFINE u == Paced(t, o)
  <2>2. HookTo(u, "begin", BeginBad) /\ SameView(t, u) /\ u.after = t.after /\ u.before = Frame(g)
    BY <1>1, <1>2, <1>6, PacedIs DEF Sched
  <2>3. s' = u
    BY <2>1
  <2> HIDE DEF u
  <2>4. HookTo(u, "begin", b)
    BY <1>6, <2>2, HookToIff
  <2> QED BY <1>1, <1>3, <1>6, <2>2, <2>3, <2>4 DEF SameView
<1>7. CASE t.on /\ ~breach /\ breach' = TRUE /\ s' = Off(t)
  <2> DEFINE u == Off(t)
  <2>1. Same(t, u) /\ SameGrid(t, u) /\ ~u.on /\ u.show
    BY <1>1, OffIs DEF HookTo
  <2>2. s' = u /\ breach' # breach
    BY <1>7
  <2> HIDE DEF u
  <2>3. HookTo(u, "begin", b)
    BY <1>1, <2>1, <2>2 DEF HookTo, Noted, Same, SameRest, SameGrid, Grid
  <2> QED BY <1>1, <1>3, <1>7, <2>1, <2>2, <2>3 DEF Same, SameView, SameFrames
<1> QED BY <1>3, <1>4, <1>5, <1>6, <1>7

-----------------------------------------------------------------------------
(* A step that is no hook: at most the clock passed                        *)
Quiet ==
  /\ Later(s') /\ SameView(s, s') /\ SameFrames(s, s') /\ UNCHANGED <<did, dark, breach>>

(* A known early return marks its site                                     *)
LEMMA EarlyReturnIs ==
  ASSUME Shape, EarlyReturn
  PROVE  /\ Quiet /\ s'.site = "accepted" /\ at = "update" /\ at' = "left"
         /\ \E play \in BOOLEAN : g' = [g EXCEPT !.playing = play]
<1> DEFINE u == [s EXCEPT !.site = "accepted"]
<1>1. s' = u
  BY DEF EarlyReturn
<1>2. /\ Full(u) /\ SameView(s, u) /\ SameFrames(s, u) /\ SameRest(s, u) /\ SameGrid(s, u)
      /\ u.on = s.on /\ u.flags = s.flags /\ u.show = s.show /\ u.site = "accepted"
  BY DEF Shape, Full, Fields, SameView, SameFrames, SameRest, SameGrid
<1> HIDE DEF u
<1>3. Later(u)
  BY <1>2, SameGridKeeps DEF Later, Shape
<1>4. /\ UNCHANGED <<did, dark, breach>> /\ at = "update" /\ at' = "left"
      /\ \E play \in BOOLEAN : g' = [g EXCEPT !.playing = play]
  BY DEF EarlyReturn
<1> QED BY <1>1, <1>2, <1>3, <1>4 DEF Quiet

EndBad ==
  \/ "begin" \notin s.flags \/ g'.game = None \/ g'.game # s.game
  \/ /\ Frame(g') # (s.before + 1) % FrameMod
     /\ ~(s.site = "accepted" /\ Frame(g') = s.before)

(* Game::Update ends: the frame has moved, or returned early               *)
LEMMA GameUpdateEndIs ==
  ASSUME IInv, Shape, GameUpdateEnd
  PROVE  /\ HookStep("end", EndBad) /\ SameView(s, s') /\ (s'.on => s'.after = Frame(g'))
         /\ at \in {"update", "left"} /\ at' = "gate" /\ UNCHANGED dark
         /\ g' = IF at = "update" THEN [g EXCEPT !.frame = (@ + 1) % FrameMod] ELSE g
<1>1. PICK d \in Takes("update") : s' = EndChecked(Pass(s, d), g')
  BY DEF GameUpdateEnd, Hook
<1>2. d \in Int
  BY TimesAreNumbers DEF IInv, Parts
<1>3. /\ did' = Append(did, "end") /\ UNCHANGED breach
      /\ at \in {"update", "left"} /\ at' = "gate" /\ UNCHANGED dark
      /\ g' = IF at = "update" THEN [g EXCEPT !.frame = (@ + 1) % FrameMod] ELSE g
  BY DEF GameUpdateEnd, Hook
<1> DEFINE p == Pass(s, d)
           t == Note(p, "end")
           v == [t EXCEPT !.update = IF "begin" \in p.flags THEN p.since ELSE @, !.after = Frame(g')]
           bad == \/ "begin" \notin v.flags \/ g'.game = None \/ g'.game # v.game
                  \/ /\ Frame(g') # (v.before + 1) % FrameMod
                     /\ ~(v.site = "accepted" /\ Frame(g') = v.before)
<1>4. s' = IF ~New(p, "end") THEN t ELSE IF ~v.on THEN v ELSE IF bad THEN Off(v) ELSE v
  BY <1>1 DEF EndChecked, OffIf
<1>5. Later(p) /\ Same(s, p)
  BY <1>2, LaterPassed, PassIs DEF Shape
<1>6. New(s, "end") => t.flags = s.flags \cup {"end"}
  BY <1>2, FlagsNow
<1> HIDE DEF p
<1>7. /\ Full(t) /\ (t.on <=> s.on /\ New(s, "end")) /\ Same(p, t)
      /\ (New(p, "end") <=> New(s, "end"))
  BY <1>5, NoteFull, NoteIs DEF Later
<1>8. Core(t, v) /\ Core(t, t) /\ SameView(t, v) /\ v.before = t.before /\ v.after = Frame(g')
      /\ v.site = t.site
  <2> HIDE DEF t
  <2>1. /\ v.on = t.on /\ v.flags = t.flags /\ v.show = t.show
        /\ Full(v) /\ SameRest(t, v) /\ SameGrid(t, v) /\ SameView(t, v) /\ v.before = t.before
        /\ v.after = Frame(g') /\ v.site = t.site
    BY <1>7 DEF Full, Fields, SameRest, SameGrid, SameView
  <2> QED BY <2>1, <1>7, CoreSelf DEF Core
<1>9. Same(v, Off(v)) /\ ~Off(v).on
  BY <1>8, OffIs DEF Core
<1>10. /\ ~t.on \/ ~EndBad => HookTo(t, "end", EndBad)
       /\ EndBad => HookTo(Off(v), "end", EndBad)
       /\ ~v.on \/ ~EndBad => HookTo(v, "end", EndBad)
  BY <1>5, <1>8, EditIs
<1> HIDE DEF v, t
<1>11. New(s, "end") => (bad <=> EndBad)
  BY <1>5, <1>6, <1>7, <1>8 DEF EndBad, Same, SameView, SameFrames, Core
<1> HIDE DEF bad
<1>12. HookTo(s', "end", EndBad)
  BY <1>4, <1>7, <1>10, <1>11
<1>13. SameView(s, s') /\ (s'.on => s'.after = Frame(g'))
  BY <1>4, <1>5, <1>7, <1>8, <1>9 DEF Same, SameView, SameFrames
<1> QED BY <1>3, <1>12, <1>13 DEF HookStep

(* A tick without an update                                                *)
LEMMA IdleIs ==
  ASSUME IInv, Shape, Idle
  PROVE  /\ Quiet /\ at = "entered" /\ ~Updates /\ at' = "gate"
         /\ \/ UNCHANGED g
            \/ ~Even(g.counter) /\ \E f \in 0 .. FrameMod - 1 : g' = [g EXCEPT !.frame = f]
<1>1. PICK d \in Takes("idle") : s' = Pass(s, d)
  BY DEF Idle
<1>2. d \in Int
  BY TimesAreNumbers DEF IInv, Parts
<1> DEFINE p == Pass(s, d)
<1>3. Later(p) /\ Same(s, p) /\ s' = p
  BY <1>1, <1>2, LaterPassed, PassIs DEF Shape
<1> HIDE DEF p
<1>4. /\ UNCHANGED <<did, dark, breach>> /\ at = "entered" /\ ~Updates /\ at' = "gate"
      /\ \/ UNCHANGED g
         \/ ~Even(g.counter) /\ \E f \in 0 .. FrameMod - 1 : g' = [g EXCEPT !.frame = f]
  BY DEF Idle
<1> QED BY <1>3, <1>4 DEF Quiet, Same

(* The limiter takes time only while the scheduler is off                  *)
LEMMA LimiterIs ==
  ASSUME Shape, Limiter
  PROVE  Quiet /\ at = "limiter" /\ at' = "head" /\ UNCHANGED g
<1> DEFINE p == Pass(s, Tick)
<1>1. Later(p) /\ Same(s, p)
  BY Constants, LaterPassed, PassIs DEF Shape
<1>2. s' = s \/ s' = p
  BY DEF Limiter
<1> HIDE DEF p
<1>3. Later(s') /\ SameView(s, s') /\ SameFrames(s, s')
  BY <1>1, <1>2, LaterNow DEF Same, SameView, SameFrames
<1> QED BY <1>3 DEF Quiet, Limiter


-----------------------------------------------------------------------------
(* The render gate                                                         *)
Planned(t, u, x) ==
  \/ u.show /\ u.skips = 0 /\ (Even(x.counter) => x.interp)
  \/ ~u.show /\ Even(x.counter) /\ u.skips = t.skips
  \/ ~u.show /\ ~Even(x.counter) /\ t.skips < MaxSkips /\ u.skips = t.skips + 1

(* The plan of a render, from a gate that found nothing                    *)
LEMMA GatedIs ==
  ASSUME NEW t, NEW x, Full(t)
  PROVE  LET u == Gated(t, x) IN
         /\ Full(u) /\ SameGrid(t, u) /\ u.on = t.on /\ u.flags = t.flags /\ u.started = t.started
         /\ u.counter = t.counter /\ u.game = t.game /\ u.interp = x.interp /\ Planned(t, u, x)
<1> DEFINE n == [t EXCEPT !.interp = x.interp, !.after = Frame(x),
                          !.before = IF Frame(x) # t.after THEN Frame(x) ELSE @]
           k == Skips(n, x)
           u == [n EXCEPT !.show = ~k, !.skips = IF ~k THEN 0 ELSE IF Even(x.counter) THEN @ ELSE @ + 1]
<1>1. Gated(t, x) = u
  BY DEF Gated
<1>2. /\ Full(n) /\ SameGrid(t, n) /\ n.on = t.on /\ n.flags = t.flags /\ n.started = t.started
      /\ n.counter = t.counter /\ n.game = t.game /\ n.interp = x.interp /\ n.skips = t.skips
  BY DEF Full, Fields, SameGrid
<1>3. k => IF Even(x.counter) THEN TRUE ELSE n.skips < MaxSkips
  BY DEF Skips
<1>4. ~k => (Even(x.counter) => x.interp)
  BY DEF Skips
<1> HIDE DEF n, k
<1>5. /\ Full(u) /\ SameGrid(n, u) /\ u.on = n.on /\ u.flags = n.flags /\ u.started = n.started
      /\ u.counter = n.counter /\ u.game = n.game /\ u.interp = n.interp
      /\ u.show = ~k
      /\ u.skips = IF ~k THEN 0 ELSE IF Even(x.counter) THEN n.skips ELSE n.skips + 1
  BY <1>2 DEF Full, Fields, SameGrid
<1> HIDE DEF u
<1>6. Planned(t, u, x)
  BY <1>2, <1>3, <1>4, <1>5 DEF Planned
<1> QED BY <1>1, <1>2, <1>5, <1>6 DEF SameGrid

(* The gate plans a render, or finds a breach                              *)
LEMMA GateIs ==
  ASSUME Shape, Gate
  PROVE  /\ Full(s') /\ s'.started = s.started /\ Grid(s') /\ (s'.last = None <=> s.last = None)
         /\ s'.counter = s.counter /\ s'.game = s.game
         /\ s'.on <=> s.on /\ New(s, "gate") /\ ~GateBreach(s, g')
         /\ s'.on => s'.flags = s.flags \cup {"gate"} /\ s'.interp = g'.interp /\ Planned(s, s', g')
         /\ ~s'.on => s'.show /\ s'.skips = s.skips
         /\ did' = Append(did, "gate") /\ UNCHANGED breach
         /\ at = "gate" /\ at' = (IF s'.show THEN "render" ELSE "limiter")
         /\ dark' = IF s'.show THEN 0 ELSE dark + 1
         /\ \/ g' = [g EXCEPT !.counter = Succ(@)]
            \/ "end" \in s.flags /\ g' = [g EXCEPT !.counter = Succ(@), !.interp = ~@]
<1> DEFINE t == Note(s, "gate")
           w == Gated(t, g')
           o == Off(t)
<1>1. /\ s' = IF ~New(s, "gate") \/ ~t.on THEN t ELSE IF GateBreach(t, g') THEN o ELSE w
      /\ did' = Append(did, "gate") /\ UNCHANGED breach
      /\ at = "gate" /\ at' = (IF s'.show THEN "render" ELSE "limiter")
      /\ dark' = IF s'.show THEN 0 ELSE dark + 1
      /\ \/ g' = [g EXCEPT !.counter = Succ(@)]
         \/ "end" \in s.flags /\ g' = [g EXCEPT !.counter = Succ(@), !.interp = ~@]
  BY DEF Gate, PlanRender, Hook
<1>2. /\ Full(t) /\ (t.on <=> s.on /\ New(s, "gate")) /\ Same(s, t) /\ SameGrid(s, t)
      /\ (t.on \/ t.show)
  BY NoteFull, LaterNow, NoteIs DEF Shape, Noted
<1>3. New(s, "gate") => t.flags = s.flags \cup {"gate"}
  BY NoteFlags
<1> HIDE DEF t
<1>4. /\ Full(w) /\ SameGrid(t, w) /\ w.on = t.on /\ w.flags = t.flags /\ w.started = t.started
      /\ w.counter = t.counter /\ w.game = t.game /\ w.interp = g'.interp /\ Planned(t, w, g')
  BY <1>2, GatedIs
<1>5. Same(t, o) /\ SameGrid(t, o) /\ ~o.on /\ o.show
  BY <1>2, OffIs
<1>6. New(s, "gate") => (GateBreach(t, g') <=> GateBreach(s, g'))
  <2>1. SUFFICES ASSUME New(s, "gate") PROVE GateBreach(t, g') <=> GateBreach(s, g')
    OBVIOUS
  <2>2. t.flags \cap {"begin", "end"} = s.flags \cap {"begin", "end"}
    BY <2>1, <1>3
  <2>3. t.flags \cap {"rebase", "publish"} = s.flags \cap {"rebase", "publish"}
    BY <2>1, <1>3
  <2>4. "entry" \in t.flags <=> "entry" \in s.flags
    BY <2>1, <1>3
  <2>5. t.interp = s.interp /\ t.counter = s.counter /\ t.game = s.game /\ t.after = s.after
    BY <1>2 DEF Same, SameView, SameFrames
  <2> QED BY <2>2, <2>3, <2>4, <2>5 DEF GateBreach
<1> HIDE DEF w, o
<1>7. /\ Full(s') /\ SameGrid(s, s') /\ s'.started = s.started
      /\ s'.counter = s.counter /\ s'.game = s.game
  BY <1>1, <1>2, <1>4, <1>5 DEF Same, SameRest, SameGrid, SameView
<1>8. Grid(s') /\ (s'.last = None <=> s.last = None) /\ s'.started = s.started
  BY <1>7, SameGridKeeps DEF Shape
<1>9. s'.on <=> s.on /\ New(s, "gate") /\ ~GateBreach(s, g')
  BY <1>1, <1>2, <1>4, <1>5, <1>6
<1>10. s'.on => s'.flags = s.flags \cup {"gate"} /\ s'.interp = g'.interp /\ Planned(s, s', g')
  <2>1. s'.on => s' = w
    BY <1>1, <1>2, <1>5
  <2>2. t.skips = s.skips
    BY <1>2 DEF Same, SameRest
  <2> QED BY <2>1, <2>2, <1>3, <1>4, <1>9 DEF Planned
<1>11. ~s'.on => s'.show /\ s'.skips = s.skips
  BY <1>1, <1>2, <1>4, <1>5 DEF Same, SameRest
<1> QED BY <1>1, <1>7, <1>8, <1>9, <1>10, <1>11

-----------------------------------------------------------------------------
(* Render                                                                  *)
LEMMA RenderEntryIs ==
  ASSUME Shape, RenderEntry
  PROVE  /\ HookStep("render", ~s.show \/ "gate" \notin s.flags) /\ Same(s, s')
         /\ at = "render" /\ at' = "body" /\ UNCHANGED <<g, dark>>
<1> DEFINE t == Note(s, "render")
           b == ~t.show \/ "gate" \notin t.flags
           c == ~s.show \/ "gate" \notin s.flags
           u == OffIf(t, b)
           v == [u EXCEPT !.since = 0]
<1>1. /\ s' = v /\ did' = Append(did, "render") /\ UNCHANGED breach
      /\ at = "render" /\ at' = "body" /\ UNCHANGED <<g, dark>>
  BY DEF RenderEntry, Hook
<1>2. Same(s, u) /\ SameGrid(s, u) /\ Noted(s, u, "render", b)
  BY CheckIs DEF Shape
<1>3. New(s, "render") => (b <=> c)
  BY NoteFlags
<1> HIDE DEF u, b, c
<1>4. Noted(s, u, "render", c)
  BY <1>2, <1>3, NotedIff
<1>5. HookTo(u, "render", c)
  BY <1>2, <1>4, SameGridKeeps DEF HookTo, Same, Shape
<1>6. HookTo(v, "render", c) /\ Same(u, v)
  BY <1>5, WriteKeeps DEF HookTo
<1> HIDE DEF v
<1> QED BY <1>1, <1>2, <1>6, SameKeeps DEF HookStep, c

BodyBad ==
  \/ "render" \notin s.flags \/ g.counter # Succ(s.counter)
  \/ Even(g.counter) /\ ~g.interp
  \/ g.interp # s.interp

(* The body of a render expects the counter and the mode that the gate saw *)
LEMMA RenderBodyIs ==
  ASSUME Shape, RenderBody
  PROVE  /\ HookStep("body", BodyBad) /\ Same(s, s')
         /\ at = "body" /\ at' = "present" /\ UNCHANGED <<g, dark>>
<1> DEFINE t == Note(s, "body")
           bad == \/ "render" \notin t.flags \/ g.counter # Succ(t.counter)
                  \/ Even(g.counter) /\ ~g.interp
                  \/ g.interp # t.interp
<1>1. /\ s' = (IF ~New(s, "body") \/ ~t.on THEN t ELSE IF bad THEN Off(t) ELSE t)
      /\ did' = Append(did, "body") /\ UNCHANGED breach
      /\ at = "body" /\ at' = "present" /\ UNCHANGED <<g, dark>>
  BY DEF RenderBody, Hook, OffIf
<1>2. Full(t) /\ (t.on <=> s.on /\ New(s, "body")) /\ Same(s, t)
  BY NoteFull, LaterNow, NoteIs DEF Shape
<1>3. New(s, "body") => (bad <=> BodyBad)
  BY <1>2, NoteFlags DEF BodyBad, Same, SameView
<1>4. /\ ~t.on \/ ~BodyBad => HookTo(t, "body", BodyBad)
      /\ BodyBad => HookTo(Off(t), "body", BodyBad)
  BY <1>2, CoreSelf, LaterNow, EditIs
<1>5. Same(t, Off(t))
  BY <1>2, OffIs
<1> HIDE DEF t, bad
<1>6. HookTo(s', "body", BodyBad)
  BY <1>1, <1>2, <1>3, <1>4
<1>7. Same(s, s')
  BY <1>1, <1>2, <1>5, SameKeeps
<1> QED BY <1>1, <1>6, <1>7 DEF HookStep

(* A present expects the body                                              *)
LEMMA PresentIs ==
  ASSUME IInv, Shape, Present
  PROVE  /\ HookStep("present", "body" \notin s.flags) /\ Same(s, s')
         /\ at = "present" /\ at' = "return" /\ UNCHANGED <<g, dark>>
<1>1. PICK d \in Takes("render") :
        s' = OffIf(Note(Pass(s, d), "present"), "body" \notin Note(Pass(s, d), "present").flags)
  BY DEF Present, Hook
<1>2. d \in Int
  BY TimesAreNumbers DEF IInv, Parts
<1>3. /\ did' = Append(did, "present") /\ UNCHANGED breach
      /\ at = "present" /\ at' = "return" /\ UNCHANGED <<g, dark>>
  BY DEF Present, Hook
<1>4. /\ HookStep("present", "body" \notin Note(Pass(s, d), "present").flags)
      /\ Same(s, s')
  BY <1>1, <1>2, <1>3, TimedCheckStep
<1>5. New(s, "present") =>
        ("body" \notin Note(Pass(s, d), "present").flags <=> "body" \notin s.flags)
  BY <1>2, FlagsNow
<1> QED BY <1>3, <1>4, <1>5, HookIff

(* The return of a render is measured                                      *)
LEMMA RenderReturnIs ==
  ASSUME Shape, RenderReturn
  PROVE  /\ HookStep("return", "render" \notin s.flags) /\ Same(s, s')
         /\ at = "return" /\ at' = "limiter" /\ UNCHANGED <<g, dark>>
<1> DEFINE t == Note(s, "return")
           b == "render" \notin t.flags
           c == "render" \notin s.flags
           u == OffIf(t, b)
           x == IF "render" \in t.flags THEN t.since ELSE u.render
           v == [u EXCEPT !.render = x]
<1>1. /\ s' = v /\ did' = Append(did, "return") /\ UNCHANGED breach
      /\ at = "return" /\ at' = "limiter" /\ UNCHANGED <<g, dark>>
  BY DEF RenderReturn, Hook
<1>2. Same(s, u) /\ SameGrid(s, u) /\ Noted(s, u, "return", b)
  BY CheckIs DEF Shape
<1>3. New(s, "return") => (b <=> c)
  BY NoteFlags
<1> HIDE DEF u, b, c, x
<1>4. Noted(s, u, "return", c)
  BY <1>2, <1>3, NotedIff
<1>5. HookTo(u, "return", c)
  BY <1>2, <1>4, SameGridKeeps DEF HookTo, Same, Shape
<1>6. HookTo(v, "return", c) /\ Same(u, v)
  BY <1>5, WriteKeeps DEF HookTo
<1> HIDE DEF v
<1> QED BY <1>1, <1>2, <1>6, SameKeeps DEF HookStep, c


-----------------------------------------------------------------------------
(* The loop head                                                           *)

(* What is dropped is enough, and no more: whole ticks, so that less than  *)
(* MaxDue of them are overdue                                              *)
LEMMA DropIsEnough ==
  ASSUME NEW n \in Int
  PROVE  LET due == (-n) \div Tick + 1
             m == n + (due - StaleDue) * Tick IN
         /\ due \in Int /\ m \in Int /\ MaxDue * Tick \in Int
         /\ due > MaxDue => n <= m /\ -m < MaxDue * Tick
         /\ due <= MaxDue => -n < MaxDue * Tick
<1> DEFINE q == (-n) \div Tick
           due == q + 1
           z == due * Tick
           y == (due - StaleDue) * Tick
           w == StaleDue * Tick
           x == MaxDue * Tick
<1>1. Tick \in Int /\ Tick > 0 /\ StaleDue \in Int /\ MaxDue \in Int /\ 1 <= StaleDue
      /\ StaleDue <= MaxDue
  BY CadenceAssumption
<1>2. q \in Int /\ -n < q * Tick + Tick
  BY <1>1
<1> HIDE DEF q
<1>3. z = q * Tick + Tick
  BY <1>1, <1>2
<1>4. z \in Int /\ y \in Int /\ w \in Int /\ x \in Int
  BY <1>1, <1>2
<1>5. y = z - w
  BY <1>1, <1>2
<1>6. w <= x
  BY <1>1
<1>7. due > MaxDue => y >= 0
  <2>1. ASSUME NEW k \in Int, k >= 0 PROVE k * Tick >= 0
    BY <1>1, <2>1
  <2> QED BY <1>1, <1>2, <2>1
<1>8. due <= MaxDue => z <= x
  <2>1. ASSUME NEW k \in Int, k <= MaxDue PROVE k * Tick <= MaxDue * Tick
    BY <1>1, <2>1
  <2> QED BY <1>1, <1>2, <2>1
<1>9. due \in Int /\ -n < z
  BY <1>2, <1>3
<1> HIDE DEF due, z, y, w, x
<1>10. /\ due \in Int /\ n + y \in Int /\ x \in Int
       /\ due > MaxDue => n <= n + y /\ -(n + y) < x
       /\ due <= MaxDue => -n < x
  BY <1>1, <1>4, <1>5, <1>6, <1>7, <1>8, <1>9
<1> QED BY <1>10 DEF due, q, x, y

(* Dropping moves the next deadline only, and far enough                   *)
LEMMA DroppedIs ==
  ASSUME NEW t, Full(t), t.next \in Int
  PROVE  LET u == Dropped(t) IN
         /\ Full(u) /\ u.on = t.on /\ u.started = t.started /\ u.skips = t.skips
         /\ u.counter = t.counter /\ u.last = t.last
         /\ u.next \in Int /\ t.next <= u.next /\ -u.next < MaxDue * Tick
<1> DEFINE due == (-t.next) \div Tick + 1
           m == t.next + (due - StaleDue) * Tick
           v == [t EXCEPT !.next = @ + (due - StaleDue) * Tick]
           u == Dropped(t)
<1>1. /\ due \in Int /\ m \in Int
      /\ due > MaxDue => t.next <= m /\ -m < MaxDue * Tick
      /\ due <= MaxDue => -t.next < MaxDue * Tick
  BY DropIsEnough
<1>2. /\ Full(v) /\ v.on = t.on /\ v.started = t.started /\ v.skips = t.skips
      /\ v.counter = t.counter /\ v.last = t.last /\ v.next = m
  BY DEF Full, Fields
<1>3. u = IF due > MaxDue THEN v ELSE t
  BY DEF Dropped
<1>4. MaxDue \in Int
  BY CadenceAssumption
<1> HIDE DEF due, m, v, u
<1>5. (due > MaxDue \/ due <= MaxDue) /\ t.next <= t.next
  BY <1>1, <1>4
<1>6. /\ Full(u) /\ u.on = t.on /\ u.started = t.started /\ u.skips = t.skips
      /\ u.counter = t.counter /\ u.last = t.last
      /\ u.next \in Int /\ t.next <= u.next /\ -u.next < MaxDue * Tick
  <2>1. CASE due > MaxDue
    BY <1>1, <1>2, <1>3, <2>1
  <2>2. CASE ~(due > MaxDue)
    BY <1>1, <1>3, <1>5, <2>2
  <2> QED BY <2>1, <2>2
<1> QED BY <1>6 DEF u

(* The check of the deadlines never fails                                  *)
LEMMA DueIs ==
  ASSUME NEW t, Full(t), Grid(t), t.next \in Int
  PROVE  LET u == Due(t) IN
         /\ Full(u) /\ u.on = t.on /\ u.started = t.started /\ u.skips = t.skips
         /\ u.counter = t.counter
         /\ u.last \in Int /\ u.last < u.next /\ -u.last < MaxDue * Tick
<1> DEFINE v == Dropped(t)
           u == Due(t)
<1>1. /\ Full(v) /\ v.on = t.on /\ v.started = t.started /\ v.skips = t.skips
      /\ v.counter = t.counter /\ v.last = t.last
      /\ v.next \in Int /\ t.next <= v.next /\ -v.next < MaxDue * Tick
  BY DroppedIs
<1>2. u = [OffIf(v, v.last # None /\ v.next <= v.last) EXCEPT !.last = v.next, !.next = v.next + Tick]
  BY DEF Due
<1> HIDE DEF v
<1>3. ~(v.last # None /\ v.next <= v.last)
  BY <1>1 DEF Grid
<1>4. u = [v EXCEPT !.last = v.next, !.next = v.next + Tick]
  BY <1>2, <1>3 DEF OffIf
<1>5. /\ Full(u) /\ u.on = v.on /\ u.started = v.started /\ u.skips = v.skips
      /\ u.counter = v.counter /\ u.last = v.next /\ u.next = v.next + Tick
  BY <1>1, <1>4 DEF Full, Fields
<1> HIDE DEF u
<1>6. v.next < v.next + Tick
  BY <1>1, Constants
<1>7. /\ Full(u) /\ u.on = t.on /\ u.started = t.started /\ u.skips = t.skips
      /\ u.counter = t.counter
      /\ u.last \in Int /\ u.last < u.next /\ -u.last < MaxDue * Tick
  BY <1>1, <1>5, <1>6
<1> QED BY <1>7 DEF u

(* What the statics are after a reset                                      *)
LEMMA ClearedIs ==
  ASSUME NEW on
  PROVE  LET c == Cleared(on) IN
         /\ Full(c) /\ c.on = on /\ c.started = FALSE /\ c.next = 0 /\ c.last = None
         /\ c.flags = {} /\ c.show /\ c.counter = 0 /\ c.skips = 0
BY DEF Cleared, Full, Fields

(* The tick that begins: less than MaxDue ticks are overdue                *)
LEMMA BegunIs ==
  ASSUME NEW t, Full(t), Grid(t), t.next \in Int, t.started
  PROVE  LET u == Begun(t) IN
         /\ Full(u) /\ u.started /\ Grid(u) /\ (u.on <=> t.on) /\ u.show
         /\ u.on => /\ u.flags = {} /\ u.skips = t.skips /\ u.counter = t.counter
                    /\ u.last # None /\ -u.last < MaxDue * Tick
         /\ ~u.on => u.skips = 0 /\ u.counter = 0
<1> DEFINE u == Begun(t)
<1>1. CASE t.on
  <2> DEFINE v == Due(t)
  <2>1. /\ Full(v) /\ v.on = t.on /\ v.started = t.started /\ v.skips = t.skips
        /\ v.counter = t.counter
        /\ v.last \in Int /\ v.last < v.next /\ -v.last < MaxDue * Tick
    BY DueIs
  <2>2. u = [v EXCEPT !.since = 0, !.flags = {}, !.show = TRUE, !.game = None, !.before = 0,
                      !.after = 0]
    BY <1>1, <2>1 DEF Begun
  <2> HIDE DEF v
  <2>3. /\ Full(u) /\ u.on = v.on /\ u.started = v.started /\ u.skips = v.skips /\ u.show = TRUE
        /\ u.counter = v.counter /\ u.last = v.last /\ u.next = v.next /\ u.flags = {}
    BY <2>1, <2>2 DEF Full, Fields
  <2>4. None \notin Int
    BY CadenceAssumption
  <2> HIDE DEF u
  <2>5. Grid(u)
    BY <2>1, <2>3 DEF Grid
  <2>6. /\ Full(u) /\ u.started /\ (u.on <=> t.on) /\ u.show
        /\ u.on => /\ u.flags = {} /\ u.skips = t.skips /\ u.counter = t.counter
                   /\ u.last # None /\ -u.last < MaxDue * Tick
        /\ u.on
    BY <1>1, <2>1, <2>3, <2>4
  <2> QED BY <2>5, <2>6 DEF u
<1>2. CASE ~t.on
  <2> DEFINE c == Cleared(FALSE)
  <2>1. u = [c EXCEPT !.started = TRUE, !.next = Tick]
    BY <1>2 DEF Begun
  <2>2. Full(c) /\ ~c.on /\ c.last = None /\ c.show /\ c.counter = 0 /\ c.skips = 0
    BY ClearedIs
  <2> HIDE DEF c
  <2>3. /\ Full(u) /\ u.on = c.on /\ u.started /\ u.last = c.last /\ u.show = c.show
        /\ u.counter = c.counter /\ u.skips = c.skips
    BY <2>1, <2>2 DEF Full, Fields
  <2> HIDE DEF u
  <2>4. /\ Full(u) /\ u.started /\ Grid(u) /\ ~u.on /\ u.show /\ u.skips = 0 /\ u.counter = 0
    BY <2>2, <2>3 DEF Grid
  <2> QED BY <1>2, <2>4 DEF u
<1> QED BY <1>1, <1>2

(* The last tick was whole, if there was one                               *)
LastWhole == s.started => Whole(s.flags)

(* The loop head keeps the scheduler on, unless the last tick was not      *)
(* whole or the sleep fails                                                *)
LEMMA LoopHeadIs ==
  ASSUME Shape, LoopHead
  PROVE  /\ Full(s') /\ s'.started /\ Grid(s') /\ s'.show
         /\ UNCHANGED breach => (s'.on <=> s.on /\ LastWhole)
         /\ s'.on => /\ s.on /\ LastWhole /\ s'.flags = {} /\ s'.skips = s.skips
                     /\ s'.counter = s.counter /\ -s'.last < MaxDue * Tick
         /\ ~s'.on => s'.skips = 0 /\ s'.counter = 0
         /\ UNCHANGED breach \/ (~breach /\ breach' = TRUE)
         /\ at \in {"head", "off"} /\ at' = "service" /\ did' = <<>> /\ UNCHANGED <<g, dark>>
<1> DEFINE f == FinishPreviousTick(s)
           t == [f EXCEPT !.started = TRUE, !.next = IF s.started THEN @ ELSE 0]
<1>1. \/ NewTick(t, 0) /\ UNCHANGED breach
      \/ t.on /\ UNCHANGED breach /\ \E o \in 0 .. MaxLate : NewTick(t, t.next + o)
      \/ ~breach /\ breach' = TRUE /\ NewTick(Off(t), 0)
  BY DEF LoopHead, Breach
<1>2. /\ Full(f) /\ SameGrid(s, f) /\ Same(s, f) /\ (f.on <=> s.on /\ LastWhole)
  <2>1. f = IF s.started /\ s.on /\ ~Whole(s.flags) THEN Off(s) ELSE s
    BY DEF FinishPreviousTick, OffIf
  <2>2. Same(s, Off(s)) /\ SameGrid(s, Off(s)) /\ ~Off(s).on
    BY OffIs DEF Shape
  <2>3. Same(s, s) /\ SameGrid(s, s)
    BY DEF Shape, Same, SameGrid, SameView, SameFrames, SameRest
  <2> HIDE DEF f
  <2> QED BY <2>1, <2>2, <2>3 DEF LastWhole, Same
<1> HIDE DEF f
<1>3. /\ Full(t) /\ t.started = TRUE /\ t.on = f.on /\ t.skips = f.skips /\ t.counter = f.counter
      /\ t.last = f.last /\ t.next = IF s.started THEN f.next ELSE 0
  BY <1>2 DEF Full, Fields
<1> HIDE DEF t
<1>4. /\ Full(t) /\ t.started /\ (t.on <=> s.on /\ LastWhole) /\ t.skips = s.skips
      /\ t.counter = s.counter /\ t.next \in Int /\ Grid(t)
  BY <1>2, <1>3 DEF Shape, Same, SameRest, SameView, SameGrid, Grid
<1>5. ASSUME NEW r, Full(r), Grid(r), r.next \in Int, r.started, NEW d \in Int, NewTick(r, d)
      PROVE  /\ Full(s') /\ s'.started /\ Grid(s') /\ s'.show /\ (s'.on <=> r.on)
             /\ s'.on => /\ s'.flags = {} /\ s'.skips = r.skips /\ s'.counter = r.counter
                         /\ -s'.last < MaxDue * Tick
             /\ ~s'.on => s'.skips = 0 /\ s'.counter = 0
             /\ at \in {"head", "off"} /\ at' = "service" /\ did' = <<>> /\ UNCHANGED <<g, dark>>
  <2> DEFINE p == Pass(r, d)
             u == Begun(p)
  <2>1. /\ Same(r, p) /\ p.on = r.on /\ Grid(p) /\ p.next = r.next - d
    BY <1>5, PassIs, PassGrid
  <2> HIDE DEF p
  <2>2. /\ Full(p) /\ p.next \in Int /\ p.started /\ p.skips = r.skips /\ p.counter = r.counter
    BY <1>5, <2>1 DEF Same, SameRest, SameView
  <2>3. /\ Full(u) /\ u.started /\ Grid(u) /\ (u.on <=> p.on) /\ u.show
        /\ u.on => /\ u.flags = {} /\ u.skips = p.skips /\ u.counter = p.counter
                   /\ u.last # None /\ -u.last < MaxDue * Tick
        /\ ~u.on => u.skips = 0 /\ u.counter = 0
    BY <2>1, <2>2, BegunIs
  <2>4. /\ s' = u /\ at \in {"head", "off"} /\ at' = "service" /\ did' = <<>>
        /\ UNCHANGED <<g, dark>>
    BY <1>5 DEF NewTick, p
  <2> HIDE DEF u
  <2> QED BY <2>1, <2>2, <2>3, <2>4
<1>6. CASE NewTick(t, 0) /\ UNCHANGED breach
  <2>1. 0 \in Int
    OBVIOUS
  <2> QED BY <1>4, <1>5, <1>6, <2>1
<1>7. CASE t.on /\ UNCHANGED breach /\ \E o \in 0 .. MaxLate : NewTick(t, t.next + o)
  <2>1. PICK o \in 0 .. MaxLate : NewTick(t, t.next + o)
    BY <1>7
  <2>2. t.next + o \in Int
    BY <1>4, Constants
  <2> QED BY <1>4, <1>5, <1>7, <2>1, <2>2
<1>8. CASE ~breach /\ breach' = TRUE /\ NewTick(Off(t), 0)
  <2> DEFINE o == Off(t)
  <2>1. 0 \in Int
    OBVIOUS
  <2>2. Same(t, o) /\ SameGrid(t, o) /\ ~o.on
    BY <1>4, OffIs
  <2>3. NewTick(o, 0)
    BY <1>8
  <2> HIDE DEF o
  <2>4. Full(o) /\ Grid(o) /\ o.next \in Int /\ o.started
    BY <1>4, <2>2 DEF Same, SameRest, SameGrid, Grid
  <2> QED BY <1>5, <1>8, <2>1, <2>2, <2>3, <2>4
<1> QED BY <1>1, <1>6, <1>7, <1>8


-----------------------------------------------------------------------------
(* The counter and the frame                                               *)
LEMMA ModIs ==
  ASSUME NEW m \in Nat \ {0}, NEW n \in 0 .. m - 1
  PROVE  (n + 1) % m = (IF n + 1 = m THEN 0 ELSE n + 1) /\ (n + 1) % m \in 0 .. m - 1
<1>1. CASE n + 1 = m
  <2>1. m % m = 0
    OBVIOUS
  <2> QED BY <1>1, <2>1
<1>2. CASE n + 1 # m
  <2>1. n + 1 \in 0 .. m - 1
    BY <1>2
  <2>2. (n + 1) % m = n + 1
    BY <2>1
  <2> QED BY <1>2, <2>1, <2>2
<1> QED BY <1>1, <1>2

(* The counter's parity alternates, and it never stands still              *)
LEMMA SuccIs ==
  ASSUME NEW n \in 0 .. CounterMod - 1
  PROVE  Succ(n) \in 0 .. CounterMod - 1 /\ (Even(Succ(n)) <=> ~Even(n)) /\ Succ(n) # n
<1>1. CounterMod \in Nat \ {0} /\ CounterMod % 2 = 0
  BY CadenceAssumption
<1>2. Succ(n) \in 0 .. CounterMod - 1 /\ Succ(n) = (IF n + 1 = CounterMod THEN 0 ELSE n + 1)
  BY <1>1, ModIs DEF Succ
<1>3. Even(Succ(n)) <=> ~Even(n)
  BY <1>1, <1>2 DEF Even
<1> QED BY <1>2, <1>3

(* What is written to the guest keeps it a guest                           *)
LEMMA GuestIs ==
  ASSUME NEW x \in Guest
  PROVE  /\ x.counter \in 0 .. CounterMod - 1 /\ x.frame \in 0 .. FrameMod - 1
         /\ x.game \in Games \cup {None} /\ x.interp \in BOOLEAN /\ x.playing \in BOOLEAN
         /\ Frame(x) \in 0 .. FrameMod - 1
         /\ [x EXCEPT !.counter = Succ(@)] \in Guest
         /\ [x EXCEPT !.counter = Succ(@), !.playing = TRUE] \in Guest
         /\ [x EXCEPT !.counter = Succ(@), !.interp = ~@] \in Guest
         /\ \A new \in Games : [x EXCEPT !.game = new, !.frame = 0, !.playing = TRUE] \in Guest
         /\ \A p \in BOOLEAN : [x EXCEPT !.playing = p] \in Guest
         /\ \A f \in 0 .. FrameMod - 1 : [x EXCEPT !.frame = f] \in Guest
         /\ [x EXCEPT !.frame = (@ + 1) % FrameMod] \in Guest
<1>1. /\ x.counter \in 0 .. CounterMod - 1 /\ x.frame \in 0 .. FrameMod - 1
      /\ x.game \in Games \cup {None} /\ x.interp \in BOOLEAN /\ x.playing \in BOOLEAN
  BY DEF Guest
<1>2. FrameMod \in Nat \ {0} /\ 0 \in 0 .. FrameMod - 1
  BY CadenceAssumption
<1>3. Frame(x) \in 0 .. FrameMod - 1
  BY <1>1, <1>2 DEF Frame
<1>4. Succ(x.counter) \in 0 .. CounterMod - 1 /\ (x.frame + 1) % FrameMod \in 0 .. FrameMod - 1
  BY <1>1, <1>2, SuccIs, ModIs
<1> HIDE DEF Frame, Succ
<1>5. /\ [x EXCEPT !.counter = Succ(@)] \in Guest
      /\ [x EXCEPT !.counter = Succ(@), !.playing = TRUE] \in Guest
      /\ [x EXCEPT !.counter = Succ(@), !.interp = ~@] \in Guest
  BY <1>1, <1>4 DEF Guest
<1>6. \A new \in Games : [x EXCEPT !.game = new, !.frame = 0, !.playing = TRUE] \in Guest
  BY <1>1, <1>2 DEF Guest
<1>7. /\ \A p \in BOOLEAN : [x EXCEPT !.playing = p] \in Guest
      /\ \A f \in 0 .. FrameMod - 1 : [x EXCEPT !.frame = f] \in Guest
      /\ [x EXCEPT !.frame = (@ + 1) % FrameMod] \in Guest
  BY <1>1, <1>4 DEF Guest
<1> QED BY <1>1, <1>3, <1>5, <1>6, <1>7

-----------------------------------------------------------------------------
(* The shape of every state                                                *)
LEMMA ShapeHook ==
  ASSUME Shape, Sched(s'), NEW h \in Hooks, NEW b, HookTo(s', h, b), did' = Append(did, h),
         s'.counter \in 0 .. CounterMod - 1, g' \in Guest, dark' \in Nat, breach' \in BOOLEAN
  PROVE  Shape'
<1>1. Full(s') /\ s'.next \in Int /\ Grid(s') /\ (~s'.started => s'.last = None)
  BY DEF HookTo, SameRest, Shape, Sched
<1>2. s'.skips \in 0 .. MaxSkips /\ (s'.on \/ s'.show)
  BY DEF HookTo, SameRest, Shape, Noted
<1>3. did' \in Seq(Hooks)
  BY DEF Shape
<1> QED BY <1>1, <1>2, <1>3 DEF Shape, Full, Grid

(* A step that is no hook keeps the shape                                  *)
LEMMA ShapeQuiet ==
  ASSUME Shape, Sched(s'), Quiet, g' \in Guest
  PROVE  Shape'
<1>1. Full(s') /\ s'.next \in Int /\ Grid(s') /\ (~s'.started => s'.last = None)
  BY DEF Quiet, Later, SameRest, Shape, Sched
<1>2. s'.skips \in 0 .. MaxSkips /\ (s'.on \/ s'.show) /\ s'.counter \in 0 .. CounterMod - 1
  BY DEF Quiet, Later, SameRest, SameView, Shape
<1>3. did' \in Seq(Hooks) /\ dark' \in Nat /\ breach' \in BOOLEAN
  BY DEF Shape, Quiet
<1> QED BY <1>1, <1>2, <1>3 DEF Shape, Full, Grid

(* No hook was called yet                                                  *)
LEMMA NoHookYet == <<>> \in Seq(Hooks)
OBVIOUS

(* The first state has the shape                                           *)
LEMMA ShapeInit == Init => Shape
<1> SUFFICES ASSUME Init PROVE Shape
  OBVIOUS
<1>1. /\ Full(s) /\ s.on /\ s.next = 0 /\ s.last = None /\ s.counter = 0 /\ s.skips = 0
  BY ClearedIs DEF Init
<1>2. 0 \in 0 .. CounterMod - 1 /\ 0 \in 0 .. MaxSkips
  BY CadenceAssumption
<1>3. g \in Guest /\ dark = 0 /\ breach = FALSE /\ did = <<>>
  BY DEF Init
<1>4. Grid(s)
  BY <1>1 DEF Grid
<1>5. did \in Seq(Hooks)
  BY <1>3, NoHookYet
<1>6. s.next \in Int /\ dark \in Nat
  BY <1>1, <1>3
<1>7. breach \in BOOLEAN
  <2>1. breach = FALSE
    BY DEF Init
  <2> QED BY <2>1, Zenon
<1> QED BY <1>1, <1>2, <1>3, <1>4, <1>5, <1>6, <1>7 DEF Shape

(* The loop head keeps the shape                                           *)
LEMMA ShapeLoopHead ==
  ASSUME Shape, Sched(s'), LoopHead
  PROVE  Shape'
<1>1. /\ Full(s') /\ s'.started /\ Grid(s') /\ s'.show
      /\ s'.on => s'.skips = s.skips /\ s'.counter = s.counter
      /\ ~s'.on => s'.skips = 0 /\ s'.counter = 0
      /\ UNCHANGED breach \/ (~breach /\ breach' = TRUE)
      /\ did' = <<>> /\ UNCHANGED <<g, dark>>
  BY LoopHeadIs
<1>2. 0 \in 0 .. CounterMod - 1 /\ 0 \in 0 .. MaxSkips
  BY CadenceAssumption
<1>3. s'.skips \in 0 .. MaxSkips /\ s'.counter \in 0 .. CounterMod - 1
  BY <1>1, <1>2 DEF Shape
<1>4. g' \in Guest /\ dark' \in Nat /\ breach' \in BOOLEAN /\ did' \in Seq(Hooks)
  BY <1>1, NoHookYet DEF Shape
<1> QED BY <1>1, <1>3, <1>4 DEF Shape, Full, Grid, Sched

(* The gate keeps the shape                                                *)
LEMMA ShapeGate ==
  ASSUME Shape, Sched(s'), Gate
  PROVE  Shape'
<1>1. /\ Full(s') /\ s'.started = s.started /\ Grid(s') /\ (s'.last = None <=> s.last = None)
      /\ s'.counter = s.counter
      /\ s'.on => Planned(s, s', g')
      /\ ~s'.on => s'.show /\ s'.skips = s.skips
      /\ did' = Append(did, "gate") /\ UNCHANGED breach
      /\ dark' = IF s'.show THEN 0 ELSE dark + 1
  BY GateIs
<1>2. g' \in Guest
  BY GateIs, GuestIs DEF Shape
<1>3. s'.skips \in 0 .. MaxSkips
  BY <1>1, CadenceAssumption DEF Shape, Planned
<1>4. did' \in Seq(Hooks) /\ dark' \in Nat
  BY <1>1 DEF Shape, Hooks
<1> QED BY <1>1, <1>2, <1>3, <1>4 DEF Shape, Full, Grid, Sched

(* What happens outside of the loop                                        *)
LEMMA DeactivateIs ==
  ASSUME Deactivate
  PROVE  /\ Full(s') /\ ~s'.on /\ s'.show /\ s'.last = None /\ s'.counter = 0 /\ s'.skips = 0
         /\ ~s'.started /\ at = "head" /\ at' = "off" /\ did' = <<>> /\ UNCHANGED <<g, breach, dark>>
BY ClearedIs DEF Deactivate

(* The backend is activated again                                          *)
LEMMA ResetIs ==
  ASSUME Reset
  PROVE  /\ Full(s') /\ s'.on /\ s'.show /\ s'.last = None /\ s'.counter = 0 /\ s'.skips = 0
         /\ ~s'.started /\ at = "off" /\ at' = "head" /\ dark' = 0 /\ UNCHANGED <<g, breach, did>>
BY ClearedIs DEF Reset

(* The game changes between two ticks                                      *)
LEMMA ChangeIs ==
  ASSUME Change
  PROVE  /\ at = "head" /\ UNCHANGED <<at, s, breach, dark, did>>
         /\ g' \in Guest /\ g'.counter = g.counter /\ (g'.playing => g'.game # None)
BY DEF Change

(* A breach is the only one, and the scheduler does not see it yet         *)
LEMMA SlipIs ==
  ASSUME Shape, Slip
  PROVE  /\ ~breach /\ breach' = TRUE /\ g' \in Guest /\ UNCHANGED <<s, dark, did>>
         /\ \/ at' # at /\ UNCHANGED g
            \/ at' = at
BY DEF Slip, Breach, Shape

(* What happens outside of the loop keeps the shape                        *)
LEMMA ShapeOther ==
  ASSUME Shape, Sched(s'), Deactivate \/ Reset \/ Change \/ Slip
  PROVE  Shape'
<1>1. 0 \in 0 .. CounterMod - 1 /\ 0 \in 0 .. MaxSkips /\ 0 \in Nat /\ TRUE \in BOOLEAN
  BY CadenceAssumption
<1>2. CASE Deactivate
  BY <1>1, <1>2, DeactivateIs DEF Shape, Full, Grid, Sched
<1>3. CASE Reset
  BY <1>1, <1>3, ResetIs DEF Shape, Full, Grid, Sched
<1>4. CASE Change
  BY <1>4, ChangeIs DEF Shape, Full, Grid
<1>5. CASE Slip
  BY <1>1, <1>5, SlipIs DEF Shape, Full, Grid
<1> QED BY <1>2, <1>3, <1>4, <1>5

(* Every step keeps the shape                                              *)
LEMMA ShapeStep == IInv /\ Shape /\ [Next]_vars => Shape'
<1> SUFFICES ASSUME IInv, Shape, [Next]_vars PROVE Shape'
  OBVIOUS
<1>1. Sched(s')
  BY StepInv DEF IInv, Sched
<1>2. /\ s.counter \in 0 .. CounterMod - 1 /\ g \in Guest /\ dark \in Nat /\ breach \in BOOLEAN
      /\ g.counter \in 0 .. CounterMod - 1 /\ Succ(g.counter) \in 0 .. CounterMod - 1
  BY GuestIs, SuccIs DEF Shape
<1>3. CASE LoopHead
  BY <1>1, <1>3, ShapeLoopHead
<1>4. CASE Service
  <2>1. HookStep("service", FALSE) /\ Same(s, s') /\ UNCHANGED <<g, dark>>
    BY <1>4, ServiceIs
  <2> QED BY <1>1, <1>2, <2>1, ShapeHook DEF HookStep, Same, SameView, Hooks
<1>5. CASE Dispatch
  <2>1. HookStep("dispatch", "service" \notin s.flags) /\ Same(s, s') /\ UNCHANGED <<g, dark>>
    BY <1>5, DispatchIs
  <2> QED BY <1>1, <1>2, <2>1, ShapeHook DEF HookStep, Same, SameView, Hooks
<1>6. CASE ManagerEntry
  <2>1. /\ HookStep("entry", "dispatch" \notin s.flags) /\ s'.counter \in {s.counter, g.counter}
        /\ UNCHANGED <<g, dark>>
    BY <1>6, ManagerEntryIs
  <2> QED BY <1>1, <1>2, <2>1, ShapeHook DEF HookStep, Hooks
<1>7. CASE CounterRebase
  <2>1. /\ HookStep("rebase", RebaseBad) /\ s'.counter \in {s.counter, Succ(g.counter)}
        /\ g' = [g EXCEPT !.counter = Succ(@), !.playing = TRUE] /\ UNCHANGED dark
    BY <1>7, CounterRebaseIs
  <2>2. g' \in Guest
    BY <1>2, <2>1, GuestIs
  <2> QED BY <1>1, <1>2, <2>1, <2>2, ShapeHook DEF HookStep, Hooks
<1>8. CASE GamePublish
  <2>1. HookStep("publish", PublishBad) /\ s'.counter = s.counter /\ UNCHANGED dark
    BY <1>8, GamePublishIs
  <2>2. PICK new \in Games : g' = [g EXCEPT !.game = new, !.frame = 0, !.playing = TRUE]
    BY <1>8 DEF GamePublish
  <2>3. g' \in Guest
    BY <1>2, <2>2, GuestIs
  <2> QED BY <1>1, <1>2, <2>1, <2>3, ShapeHook DEF HookStep, Hooks
<1>9. CASE GameUpdateBegin
  <2>1. /\ HookTo(s', "begin", BeginBad \/ breach' # breach) /\ did' = Append(did, "begin")
        /\ UNCHANGED breach \/ (~breach /\ breach' = TRUE)
        /\ SameView(s, s') /\ UNCHANGED <<g, dark>>
    BY <1>9, GameUpdateBeginIs
  <2>2. breach' \in BOOLEAN /\ s'.counter = s.counter
    BY <1>2, <2>1 DEF SameView
  <2>3. g' \in Guest /\ dark' \in Nat /\ "begin" \in Hooks
    BY <1>2, <2>1 DEF Hooks
  <2> QED BY <1>1, <1>2, <2>1, <2>2, <2>3, ShapeHook
<1>10. CASE EarlyReturn
  <2>1. Quiet /\ g' \in Guest
    BY <1>2, <1>10, EarlyReturnIs, GuestIs
  <2> QED BY <1>1, <2>1, ShapeQuiet
<1>11. CASE GameUpdateEnd
  <2>1. HookStep("end", EndBad) /\ SameView(s, s') /\ UNCHANGED dark
    BY <1>11, GameUpdateEndIs
  <2>2. g' \in Guest
    BY <1>2, <1>11, GameUpdateEndIs, GuestIs
  <2> QED BY <1>1, <1>2, <2>1, <2>2, ShapeHook DEF HookStep, SameView, Hooks
<1>12. CASE Idle
  <2>1. Quiet /\ g' \in Guest
    BY <1>2, <1>12, IdleIs, GuestIs
  <2> QED BY <1>1, <2>1, ShapeQuiet
<1>13. CASE Gate
  BY <1>1, <1>13, ShapeGate
<1>14. CASE RenderEntry
  <2>1. /\ HookStep("render", ~s.show \/ "gate" \notin s.flags) /\ Same(s, s')
        /\ UNCHANGED <<g, dark>>
    BY <1>14, RenderEntryIs
  <2> QED BY <1>1, <1>2, <2>1, ShapeHook DEF HookStep, Same, SameView, Hooks
<1>15. CASE RenderBody
  <2>1. HookStep("body", BodyBad) /\ Same(s, s') /\ UNCHANGED <<g, dark>>
    BY <1>15, RenderBodyIs
  <2> QED BY <1>1, <1>2, <2>1, ShapeHook DEF HookStep, Same, SameView, Hooks
<1>16. CASE Present
  <2>1. HookStep("present", "body" \notin s.flags) /\ Same(s, s') /\ UNCHANGED <<g, dark>>
    BY <1>16, PresentIs
  <2> QED BY <1>1, <1>2, <2>1, ShapeHook DEF HookStep, Same, SameView, Hooks
<1>17. CASE RenderReturn
  <2>1. HookStep("return", "render" \notin s.flags) /\ Same(s, s') /\ UNCHANGED <<g, dark>>
    BY <1>17, RenderReturnIs
  <2> QED BY <1>1, <1>2, <2>1, ShapeHook DEF HookStep, Same, SameView, Hooks
<1>18. CASE Limiter
  <2>1. Quiet /\ g' \in Guest
    BY <1>2, <1>18, LimiterIs
  <2> QED BY <1>1, <2>1, ShapeQuiet
<1>19. CASE Change \/ Slip \/ Deactivate \/ Reset
  BY <1>1, <1>19, ShapeOther
<1>20. CASE UNCHANGED vars
  BY <1>20 DEF vars, Shape, Full, Grid
<1> QED BY <1>3, <1>4, <1>5, <1>6, <1>7, <1>8, <1>9, <1>10, <1>11, <1>12, <1>13, <1>14, <1>15,
           <1>16, <1>17, <1>18, <1>19, <1>20 DEF Next


-----------------------------------------------------------------------------
(* A frame is rendered in time, and what is overdue is bounded.            *)

(* Frames that may have been skipped: those of the full phases that the    *)
(* scheduler counts, and the interpolated ones between them                *)
Skippable(t, x) == IF t.on THEN 2 * t.skips + (IF Even(x.counter) THEN 1 ELSE 0) ELSE 2 * MaxSkips + 1
Overdue == at = "service" /\ did = <<>> /\ s.on /\ s.last # None => -s.last < MaxDue * Tick
DarkInv ==
  /\ ~breach => dark <= Skippable(s, g)
  /\ ~breach /\ did = <<>> => at = "service" \/ s.last = None
  /\ Overdue

(* No more than MaxSkips full frames, and the interpolated ones between    *)
LEMMA SkippableBounds ==
  ASSUME Shape
  PROVE  Skippable(s, g) \in Int /\ Skippable(s, g) <= 2 * MaxSkips + 1
<1>1. MaxSkips \in Nat
  BY CadenceAssumption
<1> QED BY <1>1 DEF Shape, Skippable

(* A tick with a hook is not empty                                         *)
LEMMA AppendIsSome ==
  ASSUME Shape, NEW h
  PROVE  Append(did, h) # <<>>
BY DEF Shape

(* A hook that renders nothing and skips nothing                           *)
LEMMA DarkHook ==
  ASSUME Shape, Shape', DarkInv, NEW h, NEW b, HookTo(s', h, b), did' = Append(did, h), UNCHANGED dark,
         breach => breach', Even(g.counter) => Even(g'.counter)
  PROVE  DarkInv'
<1>1. did' # <<>>
  BY AppendIsSome
<1>2. MaxSkips \in Nat /\ s.skips \in 0 .. MaxSkips /\ dark \in Nat
  BY CadenceAssumption DEF Shape
<1>3. s'.skips = s.skips /\ (s'.on => s.on)
  BY DEF HookTo, SameRest, Noted
<1>4. ~breach' => dark' <= Skippable(s', g')
  BY <1>2, <1>3 DEF DarkInv, Skippable
<1> QED BY <1>1, <1>4 DEF DarkInv, Skippable, Overdue

(* A step that is no hook, elsewhere than at the service                   *)
LEMMA DarkQuiet ==
  ASSUME Shape, DarkInv, Quiet, at # "service", at' # "service", Even(g.counter) <=> Even(g'.counter)
  PROVE  DarkInv'
<1>1. /\ s'.skips = s.skips /\ s'.on = s.on /\ (s'.last = None <=> s.last = None)
      /\ dark' = dark /\ did' = did /\ breach' = breach
  BY DEF Quiet, Later, SameRest
<1>2. Skippable(s', g') = Skippable(s, g)
  BY <1>1 DEF Skippable
<1> QED BY <1>1, <1>2 DEF DarkInv, Skippable, Overdue

(* The gate renders a frame or counts the full one that it skips; parities *)
(* alternate                                                               *)
LEMMA DarkGate ==
  ASSUME Shape, Shape', DarkInv, Gate
  PROVE  DarkInv'
<1>1. /\ s'.on => s.on /\ Planned(s, s', g')
      /\ ~s'.on => s'.show /\ s'.skips = s.skips
      /\ did' = Append(did, "gate") /\ UNCHANGED breach
      /\ dark' = IF s'.show THEN 0 ELSE dark + 1
  BY GateIs
<1>2. did' # <<>>
  BY <1>1, AppendIsSome
<1>3. Even(g'.counter) <=> ~Even(g.counter)
  <2>1. g'.counter = Succ(g.counter)
    BY GateIs DEF Shape, Guest
  <2> QED BY <2>1, SuccIs, GuestIs DEF Shape
<1>4. /\ MaxSkips \in Nat /\ s.skips \in 0 .. MaxSkips /\ dark \in Nat /\ s'.skips \in 0 .. MaxSkips
  BY CadenceAssumption DEF Shape
<1>5. ~breach' => dark' <= Skippable(s', g')
  <2>1. CASE s'.show
    BY <2>1, <1>1, <1>4 DEF Skippable
  <2>2. CASE ~s'.show
    <3>1. s.on /\ s'.on /\ dark' = dark + 1
      BY <2>2, <1>1
    <3>2. \/ Even(g'.counter) /\ s'.skips = s.skips
          \/ ~Even(g'.counter) /\ s'.skips = s.skips + 1
      BY <2>2, <3>1, <1>1 DEF Planned
    <3>3. ~breach => dark <= Skippable(s, g)
      BY DEF DarkInv
    <3>4. Skippable(s, g) = 2 * s.skips + (IF Even(g.counter) THEN 1 ELSE 0)
      BY <3>1 DEF Skippable
    <3>5. Skippable(s', g') = 2 * s'.skips + (IF Even(g'.counter) THEN 1 ELSE 0)
      BY <3>1 DEF Skippable
    <3> HIDE DEF Skippable
    <3> QED BY <3>1, <3>2, <3>3, <3>4, <3>5, <1>1, <1>3, <1>4
  <2> QED BY <2>1, <2>2
<1> QED BY <1>2, <1>5 DEF DarkInv, Skippable, Overdue

(* The loop head drops what is overdue                                     *)
LEMMA DarkLoopHead ==
  ASSUME Shape, Shape', DarkInv, LoopHead
  PROVE  DarkInv'
<1>1. /\ s'.on => s.on /\ s'.skips = s.skips /\ -s'.last < MaxDue * Tick
      /\ UNCHANGED breach \/ (~breach /\ breach' = TRUE)
      /\ at' = "service" /\ did' = <<>> /\ UNCHANGED <<g, dark>>
  BY LoopHeadIs
<1>2. MaxSkips \in Nat /\ s.skips \in 0 .. MaxSkips /\ dark \in Nat
  BY CadenceAssumption DEF Shape
<1>3. ~breach' => dark' <= Skippable(s', g')
  BY <1>1, <1>2 DEF DarkInv, Skippable
<1> QED BY <1>1, <1>3 DEF DarkInv, Skippable, Overdue

(* A new session starts anew, and a breach is no tick that begins          *)
LEMMA DarkOther ==
  ASSUME Shape, Shape', DarkInv, Deactivate \/ Reset \/ Change \/ Slip
  PROVE  DarkInv'
<1>1. Skippable(s, g) \in Int /\ Skippable(s, g) <= 2 * MaxSkips + 1 /\ MaxSkips \in Nat /\ dark \in Nat
  BY SkippableBounds, CadenceAssumption DEF Shape
<1>2. CASE Deactivate
  <2>1. ~breach' => dark' <= 2 * MaxSkips + 1
    BY <1>1, <1>2, DeactivateIs DEF DarkInv
  <2> QED BY <1>2, <2>1, DeactivateIs DEF DarkInv, Skippable, Overdue
<1>3. CASE Reset
  <2>1. 0 <= 2 * s'.skips + (IF Even(g'.counter) THEN 1 ELSE 0)
    BY <1>3, ResetIs
  <2> QED BY <1>3, <2>1, ResetIs DEF DarkInv, Skippable, Overdue
<1>4. CASE Change
  BY <1>4, ChangeIs DEF DarkInv, Skippable, Overdue
<1>5. CASE Slip
  <2>1. Overdue'
    <3>1. SUFFICES ASSUME at' = "service", did' = <<>>, s'.on, s'.last # None
          PROVE  -s'.last < MaxDue * Tick
      BY DEF Overdue
    <3>2. ~breach /\ UNCHANGED <<s, did>>
      BY <1>5, SlipIs
    <3>3. at = "service"
      BY <3>1, <3>2 DEF DarkInv
    <3> QED BY <3>1, <3>2, <3>3 DEF DarkInv, Overdue
  <2> QED BY <1>5, <2>1, SlipIs DEF DarkInv, Skippable, Overdue
<1> QED BY <1>2, <1>3, <1>4, <1>5

(* The first state                                                         *)
LEMMA DarkInit == Init => DarkInv
<1> SUFFICES ASSUME Init PROVE DarkInv
  OBVIOUS
<1>1. s.on /\ s.last = None /\ s.skips = 0 /\ dark = 0
  BY ClearedIs DEF Init
<1> QED BY <1>1 DEF DarkInv, Skippable, Overdue

(* Every step                                                              *)
LEMMA DarkStep == IInv /\ Shape /\ DarkInv /\ [Next]_vars => DarkInv'
<1> SUFFICES ASSUME IInv, Shape, DarkInv, [Next]_vars PROVE DarkInv'
  OBVIOUS
<1>1. Shape'
  BY ShapeStep
<1>2. CASE LoopHead
  BY <1>1, <1>2, DarkLoopHead
<1>3. CASE Gate
  BY <1>1, <1>3, DarkGate
<1>4. CASE Service
  <2>1. HookTo(s', "service", FALSE) /\ did' = Append(did, "service") /\ UNCHANGED <<g, dark, breach>>
    BY <1>4, ServiceIs DEF HookStep
  <2> QED BY <1>1, <2>1, DarkHook
<1>5. CASE Dispatch
  BY <1>1, <1>5, DispatchIs, DarkHook DEF HookStep
<1>6. CASE ManagerEntry
  BY <1>1, <1>6, ManagerEntryIs, DarkHook DEF HookStep
<1>7. CASE CounterRebase
  <2>1. /\ HookStep("rebase", RebaseBad) /\ UNCHANGED dark /\ ~Even(g.counter)
    BY <1>7, CounterRebaseIs
  <2> QED BY <1>1, <2>1, DarkHook DEF HookStep
<1>8. CASE GamePublish
  <2>1. HookStep("publish", PublishBad) /\ UNCHANGED dark
    BY <1>8, GamePublishIs
  <2>2. g'.counter = g.counter
    BY <1>8 DEF GamePublish, Shape, Guest
  <2> QED BY <1>1, <2>1, <2>2, DarkHook DEF HookStep
<1>9. CASE GameUpdateBegin
  <2>1. /\ HookTo(s', "begin", BeginBad \/ breach' # breach) /\ did' = Append(did, "begin")
        /\ UNCHANGED breach \/ (~breach /\ breach' = TRUE)
        /\ UNCHANGED <<g, dark>>
    BY <1>9, GameUpdateBeginIs
  <2> QED BY <1>1, <2>1, DarkHook
<1>10. CASE EarlyReturn
  <2>1. Quiet /\ at # "service" /\ at' # "service"
    BY <1>10, EarlyReturnIs
  <2>2. g'.counter = g.counter
    BY <1>10 DEF EarlyReturn, Shape, Guest
  <2> QED BY <2>1, <2>2, DarkQuiet
<1>11. CASE GameUpdateEnd
  <2>1. HookStep("end", EndBad) /\ UNCHANGED dark
    BY <1>11, GameUpdateEndIs
  <2>2. g'.counter = g.counter
    BY <1>11 DEF GameUpdateEnd, Shape, Guest
  <2> QED BY <1>1, <2>1, <2>2, DarkHook DEF HookStep
<1>12. CASE Idle
  <2>1. Quiet /\ at # "service" /\ at' # "service"
    BY <1>12, IdleIs
  <2>2. g'.counter = g.counter
    BY <1>12 DEF Idle, Shape, Guest
  <2> QED BY <2>1, <2>2, DarkQuiet
<1>13. CASE RenderEntry
  BY <1>1, <1>13, RenderEntryIs, DarkHook DEF HookStep
<1>14. CASE RenderBody
  BY <1>1, <1>14, RenderBodyIs, DarkHook DEF HookStep
<1>15. CASE Present
  BY <1>1, <1>15, PresentIs, DarkHook DEF HookStep
<1>16. CASE RenderReturn
  BY <1>1, <1>16, RenderReturnIs, DarkHook DEF HookStep
<1>17. CASE Limiter
  <2>1. Quiet /\ at # "service" /\ at' # "service" /\ UNCHANGED g
    BY <1>17, LimiterIs
  <2> QED BY <2>1, DarkQuiet
<1>18. CASE Change \/ Slip \/ Deactivate \/ Reset
  BY <1>1, <1>18, DarkOther
<1>19. CASE UNCHANGED vars
  BY <1>19 DEF vars, DarkInv, Skippable, Overdue
<1> QED BY <1>2, <1>3, <1>4, <1>5, <1>6, <1>7, <1>8, <1>9, <1>10, <1>11, <1>12, <1>13, <1>14, <1>15,
           <1>16, <1>17, <1>18, <1>19 DEF Next

(* What is overdue at the loop head stays below MaxDue ticks, and however  *)
(* late the loop is, a frame is rendered after MaxSkips skipped full ones  *)
(* and the interpolated ones between them.                                 *)
THEOREM LatenessIsBounded == Spec => []Bounded
<1>1. IInv /\ Shape /\ DarkInv => Bounded
  <2> SUFFICES ASSUME IInv, Shape, DarkInv PROVE Bounded
    OBVIOUS
  <2>1. ~breach => dark <= 2 * MaxSkips + 1
    BY SkippableBounds, CadenceAssumption DEF DarkInv, Shape
  <2> QED BY <2>1 DEF DarkInv, Overdue, Bounded
<1> QED BY InitInv, ShapeInit, DarkInit, StepInv, ShapeStep, DarkStep, <1>1, PTL DEF Spec


-----------------------------------------------------------------------------
(* A scheduler that is on has seen a legal tick so far                     *)

(* A hook is noted only after the one that it checks for                   *)
Needs ==
  {<<"dispatch", "service">>, <<"entry", "dispatch">>, <<"rebase", "entry">>, <<"publish", "entry">>,
   <<"begin", "entry">>, <<"end", "begin">>, <<"gate", "entry">>, <<"render", "gate">>,
   <<"body", "render">>, <<"present", "body">>, <<"return", "render">>}
InOrder(d) ==
  \A i, j \in DOMAIN d : i <= j => <<d[j], d[i]>> \notin Order /\ (d[i] = d[j] => i = j)
DidInv ==
  s.on /\ s.started =>
    /\ {did[i] : i \in DOMAIN did} = s.flags
    /\ InOrder(did)
    /\ \A p \in Needs : p[1] \in s.flags => p[2] \in s.flags
    /\ "publish" \in s.flags => Even(s.counter)

(* Past the gate the counter has moved, so that no update begins           *)
After == {"render", "body", "present", "return", "limiter", "head"}
Counted == g.counter = Succ(s.counter)
PastInv ==
  s.on /\ s.started /\ "gate" \in s.flags =>
    /\ "begin" \in s.flags <=> "end" \in s.flags
    /\ at \in After \/ Counted
    /\ ~breach => at \in After /\ Counted

(* What may not come before each hook                                      *)
LEMMA OrderIs ==
  ASSUME NEW k
  PROVE  /\ <<"service", k>> \in Order => k = "dispatch"
         /\ <<"dispatch", k>> \in Order => k = "entry"
         /\ <<"entry", k>> \in Order => k \in {"rebase", "publish", "begin", "gate"}
         /\ <<"rebase", k>> \in Order => k \in {"publish", "begin"}
         /\ <<"publish", k>> \in Order => k = "begin"
         /\ <<"begin", k>> \in Order => k = "end"
         /\ <<"end", k>> \in Order => k = "gate"
         /\ <<"gate", k>> \in Order => k = "render"
         /\ <<"render", k>> \in Order => k \in {"body", "return"}
         /\ <<"body", k>> \in Order => k = "present"
         /\ <<"present", k>> \notin Order /\ <<"return", k>> \notin Order
         /\ <<k, k>> \notin Order
BY DEF Order

(* What the checks make of the flags                                       *)
LEMMA NeedsIs ==
  ASSUME NEW F, \A p \in Needs : p[1] \in F => p[2] \in F
  PROVE  /\ "dispatch" \in F => "service" \in F
         /\ "entry" \in F => "dispatch" \in F
         /\ F \cap {"rebase", "publish", "begin", "gate"} # {} => "entry" \in F
         /\ "end" \in F => "begin" \in F
         /\ "render" \in F => "gate" \in F
         /\ F \cap {"body", "return"} # {} => "render" \in F
         /\ "present" \in F => "body" \in F
<1>1. \A a, b : <<a, b>> \in Needs => (a \in F => b \in F)
  OBVIOUS
<1> QED BY <1>1 DEF Needs

(* A new hook that none of the earlier ones must follow keeps the order    *)
LEMMA AppendInOrder ==
  ASSUME NEW d \in Seq(Hooks), InOrder(d), NEW h \in Hooks,
         \A i \in DOMAIN d : d[i] # h /\ <<h, d[i]>> \notin Order
  PROVE  /\ InOrder(Append(d, h))
         /\ {Append(d, h)[i] : i \in DOMAIN Append(d, h)} = {d[i] : i \in DOMAIN d} \cup {h}
<1> DEFINE e == Append(d, h)
           n == Len(d)
<1>1. n \in Nat /\ DOMAIN d = 1 .. n /\ DOMAIN e = 1 .. n + 1 /\ e[n + 1] = h
  OBVIOUS
<1>2. \A i \in 1 .. n : e[i] = d[i]
  OBVIOUS
<1>3. <<h, h>> \notin Order
  BY OrderIs
<1> HIDE DEF e, n
<1>4. ASSUME NEW i \in DOMAIN e, NEW j \in DOMAIN e, i <= j
      PROVE  <<e[j], e[i]>> \notin Order /\ (e[i] = e[j] => i = j)
  <2>1. CASE j = n + 1 /\ i = n + 1
    BY <1>1, <1>3, <2>1
  <2>2. CASE j = n + 1 /\ i \in 1 .. n
    BY <1>1, <1>2, <2>2
  <2>3. CASE j \in 1 .. n /\ i \in 1 .. n
    BY <1>1, <1>2, <1>4, <2>3 DEF InOrder
  <2> QED BY <1>1, <1>4, <2>1, <2>2, <2>3
<1>5. InOrder(e)
  BY <1>4 DEF InOrder
<1>6. {e[i] : i \in DOMAIN e} = {d[i] : i \in DOMAIN d} \cup {h}
  BY <1>1, <1>2
<1> QED BY <1>5, <1>6 DEF e

(* A hook that is noted when what it needs was, and what must follow it    *)
(* was not                                                                 *)
LEMMA DidGained ==
  ASSUME Shape, DidInv, NEW h \in Hooks, did' = Append(did, h),
         s'.started = s.started, s'.on => s.on /\ New(s, h) /\ s'.flags = s.flags \cup {h},
         s'.on => /\ \A k \in s.flags : <<h, k>> \notin Order
                  /\ \A p \in Needs : p[1] = h => p[2] \in s.flags
                  /\ "publish" \in s'.flags => Even(s'.counter)
  PROVE  DidInv'
<1> SUFFICES ASSUME s'.on, s'.started
             PROVE  /\ {did'[i] : i \in DOMAIN did'} = s'.flags
                    /\ InOrder(did')
                    /\ \A p \in Needs : p[1] \in s'.flags => p[2] \in s'.flags
                    /\ "publish" \in s'.flags => Even(s'.counter)
  BY DEF DidInv, InOrder
<1>1. s.on /\ s.started /\ h \notin s.flags /\ s'.flags = s.flags \cup {h}
  BY DEF New
<1>2. /\ {did[i] : i \in DOMAIN did} = s.flags
      /\ InOrder(did)
      /\ \A p \in Needs : p[1] \in s.flags => p[2] \in s.flags
  BY <1>1 DEF DidInv
<1>3. \A i \in DOMAIN did : did[i] \in s.flags
  BY <1>2
<1>4. \A i \in DOMAIN did : did[i] # h /\ <<h, did[i]>> \notin Order
  BY <1>1, <1>3
<1>5. did \in Seq(Hooks)
  BY DEF Shape
<1>6. /\ InOrder(did')
      /\ {did'[i] : i \in DOMAIN did'} = {did[i] : i \in DOMAIN did} \cup {h}
  BY <1>2, <1>4, <1>5, AppendInOrder
<1>7. \A p \in Needs : p[1] \in s'.flags => p[2] \in s'.flags
  BY <1>1, <1>2
<1> QED BY <1>1, <1>2, <1>6, <1>7

(* The same for a hook with its note and its check                         *)
LEMMA DidHook ==
  ASSUME Shape, DidInv, NEW h \in Hooks, NEW b, HookTo(s', h, b), did' = Append(did, h),
         s'.on => /\ \A k \in s.flags : <<h, k>> \notin Order
                  /\ \A p \in Needs : p[1] = h => p[2] \in s.flags
                  /\ "publish" \in s'.flags => Even(s'.counter)
  PROVE  DidInv'
<1>1. s'.started = s.started /\ (s'.on => s.on /\ New(s, h) /\ s'.flags = s.flags \cup {h})
  BY DEF HookTo, Noted, SameRest
<1> QED BY <1>1, DidGained

(* A hook past the gate neither begins an update nor moves the counter     *)
LEMMA GateHook ==
  ASSUME PastInv, NEW h, NEW b, HookTo(s', h, b), h # "gate", breach => breach',
         s'.on /\ "gate" \in s.flags =>
           /\ h \notin {"begin", "end"} /\ s'.counter = s.counter /\ g'.counter = g.counter
           /\ at \in After => at' \in After
  PROVE  PastInv'
<1> SUFFICES ASSUME s'.on, s'.started, "gate" \in s'.flags
             PROVE  /\ "begin" \in s'.flags <=> "end" \in s'.flags
                    /\ at' \in After \/ Counted'
                    /\ ~breach' => at' \in After /\ Counted'
  BY DEF PastInv
<1>1. s.on /\ s.started /\ s'.flags = s.flags \cup {h}
  BY DEF HookTo, Noted, New
<1>2. "gate" \in s.flags
  BY <1>1
<1>3. Counted' <=> Counted
  BY <1>2 DEF Counted
<1> QED BY <1>1, <1>2, <1>3 DEF PastInv

(* A step that is no hook                                                  *)
LEMMA QuietKeepsDid ==
  ASSUME Quiet, DidInv, PastInv, at \in After => at' \in After, g'.counter = g.counter
  PROVE  DidInv' /\ PastInv'
<1>1. /\ s'.on = s.on /\ s'.started = s.started /\ s'.flags = s.flags /\ s'.counter = s.counter
      /\ did' = did /\ breach' = breach
  BY DEF Quiet, Later, SameRest, SameView
<1> QED BY <1>1 DEF DidInv, PastInv, InOrder, Counted


(* What the flags of a tick say of each other                              *)
Flagged(F) ==
  /\ "dispatch" \in F => "service" \in F
  /\ "entry" \in F => "dispatch" \in F
  /\ F \cap {"rebase", "publish", "begin", "gate"} # {} => "entry" \in F
  /\ "end" \in F => "begin" \in F
  /\ "render" \in F => "gate" \in F
  /\ F \cap {"body", "return"} # {} => "render" \in F
  /\ "present" \in F => "body" \in F

(* What a scheduler that is still on knew before the hook                  *)
LEMMA NotedNow ==
  ASSUME DidInv, NEW h, NEW b, HookTo(s', h, b), s'.on
  PROVE  /\ s.on /\ s.started /\ ~b /\ h \notin s.flags /\ s'.flags = s.flags \cup {h}
         /\ Flagged(s.flags)
         /\ "publish" \in s.flags => Even(s.counter)
<1>1. s.on /\ s.started /\ ~b /\ h \notin s.flags /\ s'.flags = s.flags \cup {h}
  BY DEF HookTo, Noted, New
<1>2. /\ \A p \in Needs : p[1] \in s.flags => p[2] \in s.flags
      /\ "publish" \in s.flags => Even(s.counter)
  BY <1>1 DEF DidInv
<1>3. Flagged(s.flags)
  BY <1>2, NeedsIs DEF Flagged
<1> QED BY <1>1, <1>2, <1>3

(* What each hook needs                                                    *)
LEMMA NeedsOf ==
  ASSUME NEW p \in Needs
  PROVE  /\ p[1] = "dispatch" => p[2] = "service"
         /\ p[1] = "entry" => p[2] = "dispatch"
         /\ p[1] \in {"rebase", "publish", "begin", "gate"} => p[2] = "entry"
         /\ p[1] = "end" => p[2] = "begin"
         /\ p[1] = "render" => p[2] = "gate"
         /\ p[1] \in {"body", "return"} => p[2] = "render"
         /\ p[1] = "present" => p[2] = "body"
         /\ p[1] # "service"
BY DEF Needs

Seen == DidInv /\ PastInv

(* The hooks, one by one: what was noted before and what was not           *)
LEMMA ServiceSeen == ASSUME Shape, Seen, Service PROVE Seen'
<1>1. /\ HookTo(s', "service", FALSE) /\ did' = Append(did, "service") /\ Same(s, s')
      /\ at = "service" /\ UNCHANGED <<g, breach>>
  BY ServiceIs DEF HookStep
<1>2. /\ s'.on => Flagged(s.flags) /\ "service" \notin s.flags /\ s'.flags = s.flags \cup {"service"}
                  /\ ("publish" \in s.flags => Even(s.counter))
      /\ s'.counter = s.counter
  BY <1>1, NotedNow DEF Seen, Same, SameView
<1>3. DidInv'
  BY <1>1, <1>2, OrderIs, NeedsOf, DidHook DEF Seen, Flagged, Hooks
<1>4. PastInv'
  BY <1>1, <1>2, GateHook DEF Seen, After
<1> QED BY <1>3, <1>4 DEF Seen

(* The dispatch comes before the Manager is entered                        *)
LEMMA DispatchSeen == ASSUME IInv, Shape, Seen, Dispatch PROVE Seen'
<1> DEFINE b == "service" \notin s.flags
<1>1. /\ HookTo(s', "dispatch", b) /\ did' = Append(did, "dispatch") /\ Same(s, s')
      /\ at = "dispatch" /\ UNCHANGED <<g, breach>>
  BY DispatchIs DEF HookStep
<1>2. /\ s'.on => /\ Flagged(s.flags) /\ "dispatch" \notin s.flags /\ ~b
                  /\ s'.flags = s.flags \cup {"dispatch"}
                  /\ ("publish" \in s.flags => Even(s.counter))
      /\ s'.counter = s.counter
  BY <1>1, NotedNow DEF Seen, Same, SameView
<1>3. DidInv'
  BY <1>1, <1>2, OrderIs, NeedsOf, DidHook DEF Seen, Flagged, Hooks
<1>4. PastInv'
  BY <1>1, <1>2, GateHook DEF Seen, After
<1> QED BY <1>3, <1>4 DEF Seen

(* The Manager is entered before anything in it                            *)
LEMMA ManagerEntrySeen == ASSUME Shape, Seen, ManagerEntry PROVE Seen'
<1> DEFINE b == "dispatch" \notin s.flags
<1>1. /\ HookTo(s', "entry", b) /\ did' = Append(did, "entry")
      /\ at = "entry" /\ UNCHANGED <<g, breach>>
  BY ManagerEntryIs DEF HookStep
<1>2. s'.on => /\ Flagged(s.flags) /\ "entry" \notin s.flags /\ ~b
               /\ s'.flags = s.flags \cup {"entry"}
  BY <1>1, NotedNow DEF Seen
<1>3. DidInv'
  BY <1>1, <1>2, OrderIs, NeedsOf, DidHook DEF Seen, Flagged, Hooks
<1>4. PastInv'
  BY <1>1, <1>2, GateHook DEF Seen, Flagged
<1> QED BY <1>3, <1>4 DEF Seen

(* A rebase finds an odd counter, so that no game was published yet        *)
LEMMA CounterRebaseSeen == ASSUME Shape, Seen, CounterRebase PROVE Seen'
<1> DEFINE b == RebaseBad
<1>1. /\ HookTo(s', "rebase", b) /\ did' = Append(did, "rebase")
      /\ at = "entered" /\ ~Even(g.counter) /\ UNCHANGED breach
  BY CounterRebaseIs DEF HookStep
<1>2. s'.on => /\ Flagged(s.flags) /\ "rebase" \notin s.flags /\ ~b
               /\ s'.flags = s.flags \cup {"rebase"}
               /\ ("publish" \in s.flags => Even(s.counter))
  BY <1>1, NotedNow DEF Seen
<1>3. s'.on => /\ "entry" \in s.flags /\ "begin" \notin s.flags /\ "gate" \notin s.flags
               /\ "publish" \notin s.flags
  BY <1>1, <1>2 DEF RebaseBad
<1>4. DidInv'
  BY <1>1, <1>2, <1>3, OrderIs, NeedsOf, DidHook DEF Seen, Hooks
<1>5. PastInv'
  BY <1>1, <1>3, GateHook DEF Seen
<1> QED BY <1>4, <1>5 DEF Seen

(* A publish finds an even counter                                         *)
LEMMA GamePublishSeen == ASSUME Shape, Seen, GamePublish PROVE Seen'
<1> DEFINE b == PublishBad
<1>1. /\ HookTo(s', "publish", b) /\ did' = Append(did, "publish")
      /\ s'.counter = s.counter /\ UNCHANGED breach
  BY GamePublishIs DEF HookStep
<1>2. s'.on => /\ Flagged(s.flags) /\ "publish" \notin s.flags /\ ~b
               /\ s'.flags = s.flags \cup {"publish"}
  BY <1>1, NotedNow DEF Seen
<1>3. s'.on => /\ "entry" \in s.flags /\ "begin" \notin s.flags /\ "gate" \notin s.flags
               /\ Even(s'.counter)
  BY <1>1, <1>2 DEF PublishBad
<1>4. DidInv'
  BY <1>1, <1>2, <1>3, OrderIs, NeedsOf, DidHook DEF Seen, Hooks
<1>5. PastInv'
  BY <1>1, <1>3, GateHook DEF Seen
<1> QED BY <1>4, <1>5 DEF Seen

(* No update begins past the gate: the counter has moved                   *)
LEMMA GameUpdateBeginSeen == ASSUME IInv, Shape, Seen, GameUpdateBegin PROVE Seen'
<1> DEFINE b == BeginBad \/ breach' # breach
<1>1. /\ HookTo(s', "begin", b) /\ did' = Append(did, "begin")
      /\ UNCHANGED breach \/ (~breach /\ breach' = TRUE)
      /\ SameView(s, s') /\ at \in {"begin", "entered"} /\ UNCHANGED g
  BY GameUpdateBeginIs
<1>2. /\ s'.on => /\ s.on /\ s.started /\ Flagged(s.flags) /\ "begin" \notin s.flags /\ ~b
                  /\ s'.flags = s.flags \cup {"begin"}
                  /\ ("publish" \in s.flags => Even(s.counter))
      /\ s'.counter = s.counter
  BY <1>1, NotedNow DEF Seen, SameView
<1>3. s'.on => "entry" \in s.flags /\ g.counter = s.counter
  BY <1>2 DEF BeginBad
<1>4. s'.on => "gate" \notin s.flags
  <2>1. Succ(s.counter) # s.counter
    BY SuccIs DEF Shape
  <2> QED BY <1>1, <1>2, <1>3, <2>1 DEF Seen, PastInv, Counted, After
<1> HIDE DEF b
<1>5. DidInv'
  BY <1>1, <1>2, <1>3, OrderIs, NeedsOf, DidHook DEF Seen, Flagged, Hooks
<1>6. PastInv'
  BY <1>1, <1>4, GateHook DEF Seen
<1> QED BY <1>5, <1>6 DEF Seen

(* An update that did not begin before the gate does not end after it      *)
LEMMA GameUpdateEndSeen == ASSUME IInv, Shape, Seen, GameUpdateEnd PROVE Seen'
<1> DEFINE b == EndBad
<1>1. /\ HookTo(s', "end", b) /\ did' = Append(did, "end")
      /\ SameView(s, s') /\ UNCHANGED breach
  BY GameUpdateEndIs DEF HookStep
<1>2. /\ s'.on => /\ s.on /\ s.started /\ Flagged(s.flags) /\ "end" \notin s.flags /\ ~b
                  /\ s'.flags = s.flags \cup {"end"}
                  /\ ("publish" \in s.flags => Even(s.counter))
      /\ s'.counter = s.counter
  BY <1>1, NotedNow DEF Seen, SameView
<1>3. s'.on => "begin" \in s.flags
  BY <1>2 DEF EndBad
<1>4. s'.on => "gate" \notin s.flags
  BY <1>2, <1>3 DEF Seen, PastInv
<1> HIDE DEF b
<1>5. DidInv'
  BY <1>1, <1>2, <1>3, <1>4, OrderIs, NeedsOf, DidHook DEF Seen, Hooks
<1>6. PastInv'
  BY <1>1, <1>4, GateHook DEF Seen
<1> QED BY <1>5, <1>6 DEF Seen


(* At the gate an update has begun and ended, or neither                   *)
LEMMA GateSeen == ASSUME Shape, Seen, Gate PROVE Seen'
<1>1. /\ s'.started = s.started /\ s'.counter = s.counter
      /\ s'.on => /\ s.on /\ New(s, "gate") /\ ~GateBreach(s, g')
                  /\ s'.flags = s.flags \cup {"gate"}
      /\ did' = Append(did, "gate") /\ at' \in {"render", "limiter"}
  BY GateIs
<1>2. s'.on => /\ s.started /\ "gate" \notin s.flags /\ Flagged(s.flags)
               /\ ("publish" \in s.flags => Even(s.counter))
  BY <1>1, NeedsIs DEF New, Seen, DidInv, Flagged
<1>3. s'.on => "entry" \in s.flags /\ g'.counter = Succ(s.counter)
  BY <1>1 DEF GateBreach
<1>4. DidInv'
  BY <1>1, <1>2, <1>3, OrderIs, NeedsOf, DidGained DEF Seen, Flagged, Hooks
<1>5. s'.on => ("begin" \in s.flags <=> "end" \in s.flags)
  <2>1. SUFFICES ASSUME s'.on, ~("begin" \in s.flags <=> "end" \in s.flags) PROVE FALSE
    OBVIOUS
  <2>2. s.flags \cap {"begin", "end"} = {"begin"} \/ s.flags \cap {"begin", "end"} = {"end"}
    BY <2>1
  <2>3. Cardinality({"begin"}) = 1 /\ Cardinality({"end"}) = 1
    BY FS_Singleton
  <2>4. Cardinality(s.flags \cap {"begin", "end"}) # 1
    BY <1>1, <2>1 DEF GateBreach
  <2> QED BY <2>2, <2>3, <2>4
<1>6. PastInv'
  BY <1>1, <1>3, <1>5 DEF PastInv, Counted, After
<1> QED BY <1>4, <1>6 DEF Seen

(* The hooks of a render follow each other                                 *)
LEMMA RenderSeen ==
  ASSUME IInv, Shape, Seen, RenderEntry \/ RenderBody \/ Present \/ RenderReturn
  PROVE  Seen'
<1>1. PICK h \in {"render", "body", "present", "return"} : \E b :
        /\ HookTo(s', h, b) /\ did' = Append(did, h) /\ Same(s, s') /\ at' \in After
        /\ UNCHANGED <<g, breach>>
        /\ ~b => /\ h = "render" => "gate" \in s.flags
                 /\ h \in {"body", "return"} => "render" \in s.flags
                 /\ h = "present" => "body" \in s.flags
  <2>1. CASE RenderEntry
    BY <2>1, RenderEntryIs DEF HookStep, After
  <2>2. CASE RenderBody
    BY <2>2, RenderBodyIs DEF HookStep, After, BodyBad
  <2>3. CASE Present
    BY <2>3, PresentIs DEF HookStep, After
  <2>4. CASE RenderReturn
    BY <2>4, RenderReturnIs DEF HookStep, After
  <2> QED BY <2>1, <2>2, <2>3, <2>4
<1>2. PICK b :
        /\ HookTo(s', h, b) /\ did' = Append(did, h) /\ Same(s, s') /\ at' \in After
        /\ UNCHANGED <<g, breach>>
        /\ ~b => /\ h = "render" => "gate" \in s.flags
                 /\ h \in {"body", "return"} => "render" \in s.flags
                 /\ h = "present" => "body" \in s.flags
  BY <1>1
<1>3. /\ s'.on => /\ Flagged(s.flags) /\ h \notin s.flags /\ ~b /\ s'.flags = s.flags \cup {h}
                  /\ ("publish" \in s.flags => Even(s.counter))
      /\ s'.counter = s.counter
  BY <1>2, NotedNow DEF Seen, Same, SameView
<1>4. s'.on => \A k \in s.flags : <<h, k>> \notin Order
  BY <1>3, OrderIs DEF Flagged
<1>5. s'.on => \A p \in Needs : p[1] = h => p[2] \in s.flags
  BY <1>2, <1>3, NeedsOf
<1>6. DidInv'
  BY <1>2, <1>3, <1>4, <1>5, DidHook DEF Seen, Hooks
<1>7. PastInv'
  BY <1>2, <1>3, GateHook DEF Seen
<1> QED BY <1>6, <1>7 DEF Seen

(* The first state                                                         *)
LEMMA SeenInit == Init => Seen
<1> SUFFICES ASSUME Init PROVE Seen
  OBVIOUS
<1>1. s.started = FALSE
  BY ClearedIs DEF Init
<1> QED BY <1>1 DEF Seen, DidInv, PastInv

(* A tick begins with no hooks; what a breach does is not noted            *)
LEMMA OtherSeen ==
  ASSUME Shape, Seen, LoopHead \/ Deactivate \/ Reset \/ Change \/ Slip
  PROVE  Seen'
<1>1. CASE LoopHead
  <2>1. s'.on => s'.flags = {} /\ did' = <<>>
    BY <1>1, LoopHeadIs
  <2>2. \A p \in Needs : p[1] \notin {}
    OBVIOUS
  <2> QED BY <2>1, <2>2 DEF Seen, DidInv, PastInv, InOrder
<1>2. CASE Deactivate \/ Reset
  BY <1>2, DeactivateIs, ResetIs DEF Seen, DidInv, PastInv
<1>3. CASE Change
  BY <1>3, ChangeIs DEF Seen, DidInv, PastInv, InOrder, Counted
<1>4. CASE Slip
  <2>1. /\ ~breach /\ breach' = TRUE /\ UNCHANGED <<s, did>>
        /\ \/ at' # at /\ UNCHANGED g
           \/ at' = at
    BY <1>4, SlipIs
  <2>2. DidInv'
    BY <2>1 DEF Seen, DidInv, InOrder
  <2>3. PastInv'
    BY <2>1 DEF Seen, PastInv, Counted
  <2> QED BY <2>2, <2>3 DEF Seen
<1> QED BY <1>1, <1>2, <1>3, <1>4

(* Every step                                                              *)
LEMMA SeenStep == IInv /\ Shape /\ Seen /\ [Next]_vars => Seen'
<1> SUFFICES ASSUME IInv, Shape, Seen, [Next]_vars PROVE Seen'
  OBVIOUS
<1>1. CASE LoopHead \/ Deactivate \/ Reset \/ Change \/ Slip
  BY <1>1, OtherSeen
<1>2. CASE Service \/ Dispatch \/ ManagerEntry \/ CounterRebase \/ GamePublish
  BY <1>2, ServiceSeen, DispatchSeen, ManagerEntrySeen, CounterRebaseSeen, GamePublishSeen
<1>3. CASE GameUpdateBegin \/ GameUpdateEnd
  BY <1>3, GameUpdateBeginSeen, GameUpdateEndSeen
<1>4. CASE Gate \/ RenderEntry \/ RenderBody \/ Present \/ RenderReturn
  BY <1>4, GateSeen, RenderSeen
<1>5. CASE EarlyReturn
  <2>1. Quiet /\ at = "update"
    BY <1>5, EarlyReturnIs
  <2>2. g'.counter = g.counter
    BY <1>5 DEF EarlyReturn, Shape, Guest
  <2> QED BY <2>1, <2>2, QuietKeepsDid DEF Seen, After
<1>6. CASE Idle
  <2>1. Quiet /\ at = "entered"
    BY <1>6, IdleIs
  <2>2. g'.counter = g.counter
    BY <1>6 DEF Idle, Shape, Guest
  <2> QED BY <2>1, <2>2, QuietKeepsDid DEF Seen, After
<1>7. CASE Limiter
  BY <1>7, LimiterIs, QuietKeepsDid DEF Seen, After
<1>8. CASE UNCHANGED vars
  BY <1>8 DEF vars, Seen, DidInv, PastInv, InOrder, Counted
<1> QED BY <1>1, <1>2, <1>3, <1>4, <1>5, <1>6, <1>7, <1>8 DEF Next


(* Only an activation turns the scheduler on, and it is skipped renders    *)
(* only that leave the player without a frame                              *)
LEMMA OnlyResetTurnsOn ==
  ASSUME IInv, Shape, [Next]_vars
  PROVE  /\ s'.on => s.on \/ at = "off"
         /\ dark' > dark => s.on
<1>1. dark \in Nat
  BY DEF Shape
<1>2. ASSUME NEW h, NEW b, HookTo(s', h, b), UNCHANGED dark
      PROVE  (s'.on => s.on) /\ ~(dark' > dark)
  BY <1>1, <1>2 DEF HookTo, Noted
<1>3. ASSUME Quiet
      PROVE  (s'.on => s.on) /\ ~(dark' > dark)
  BY <1>1, <1>3 DEF Quiet, Later
<1>4. CASE LoopHead
  BY <1>1, <1>4, LoopHeadIs
<1>5. CASE Service
  <2>1. HookTo(s', "service", FALSE) /\ UNCHANGED dark
    BY <1>5, ServiceIs DEF HookStep
  <2> QED BY <1>2, <2>1
<1>6. CASE Dispatch
  BY <1>2, <1>6, DispatchIs DEF HookStep
<1>7. CASE ManagerEntry
  BY <1>2, <1>7, ManagerEntryIs DEF HookStep
<1>8. CASE CounterRebase
  BY <1>2, <1>8, CounterRebaseIs DEF HookStep
<1>9. CASE GamePublish
  <2>1. HookTo(s', "publish", PublishBad) /\ UNCHANGED dark
    BY <1>9, GamePublishIs DEF HookStep
  <2> QED BY <1>2, <2>1
<1>10. CASE GameUpdateBegin
  BY <1>2, <1>10, GameUpdateBeginIs
<1>11. CASE EarlyReturn
  BY <1>3, <1>11, EarlyReturnIs
<1>12. CASE GameUpdateEnd
  BY <1>2, <1>12, GameUpdateEndIs DEF HookStep
<1>13. CASE Idle
  BY <1>3, <1>13, IdleIs
<1>14. CASE Gate
  BY <1>1, <1>14, GateIs
<1>15. CASE RenderEntry
  BY <1>2, <1>15, RenderEntryIs DEF HookStep
<1>16. CASE RenderBody
  BY <1>2, <1>16, RenderBodyIs DEF HookStep
<1>17. CASE Present
  BY <1>2, <1>17, PresentIs DEF HookStep
<1>18. CASE RenderReturn
  BY <1>2, <1>18, RenderReturnIs DEF HookStep
<1>19. CASE Limiter
  BY <1>3, <1>19, LimiterIs
<1>20. CASE Change \/ Slip
  <2>1. s' = s /\ dark' = dark
    BY <1>20 DEF Change, Slip
  <2> QED BY <1>1, <2>1
<1>21. CASE Deactivate
  BY <1>1, <1>21, DeactivateIs
<1>22. CASE Reset
  BY <1>1, <1>22, ResetIs
<1>23. CASE UNCHANGED vars
  BY <1>1, <1>23 DEF vars
<1> QED BY <1>4, <1>5, <1>6, <1>7, <1>8, <1>9, <1>10, <1>11, <1>12, <1>13, <1>14, <1>15, <1>16,
           <1>17, <1>18, <1>19, <1>20, <1>21, <1>22, <1>23 DEF Next

(* A tick that the loop head finds whole, and the scheduler still on, was  *)
(* legal                                                                   *)
LEMMA WholeIsLegal ==
  ASSUME DidInv, s.on, s.started, Whole(s.flags)
  PROVE  Legal(did)
<1> DEFINE H == {did[i] : i \in DOMAIN did}
<1>1. H = s.flags /\ InOrder(did)
  BY DEF DidInv
<1>2. /\ {"service", "dispatch", "entry", "gate"} \subseteq H
      /\ "rebase" \in H \/ "publish" \in H => "begin" \in H
      /\ "begin" \in H <=> "end" \in H
      /\ "render" \in H => {"body", "present", "return"} \subseteq H
  BY <1>1 DEF Whole
<1> QED BY <1>1, <1>2 DEF Legal, InOrder

(* A tick whose hooks came twice, in another order or not at all is noticed*)
(* before the next one; from then on every frame is rendered, until the    *)
(* backend is activated again (kage_vita_fullspeed_scheduler_disable).     *)
THEOREM BreachesFailOpen == Spec => FailsOpen
<1> DEFINE J == IInv /\ Shape /\ Seen
           A == /\ at = "head" /\ at' = "service" /\ breach' = breach /\ s.started /\ s'.on
                    => Legal(did)
                /\ s'.on => s.on \/ at = "off"
                /\ dark' > dark => s.on
<1>1. Init => J
  BY InitInv, ShapeInit, SeenInit
<1>2. J /\ [Next]_vars => J'
  BY StepInv, ShapeStep, SeenStep
<1>3. J /\ [Next]_vars => [A]_vars
  <2>1. SUFFICES ASSUME IInv, Shape, Seen, [Next]_vars
                 PROVE  /\ at = "head" /\ at' = "service" /\ breach' = breach /\ s.started /\ s'.on
                              => Legal(did)
                        /\ s'.on => s.on \/ at = "off"
                        /\ dark' > dark => s.on
    OBVIOUS
  <2>2. ASSUME at = "head", at' = "service", breach' = breach, s.started, s'.on
        PROVE  Legal(did)
    <3>1. LoopHead
      <4>1. ~Slip
        BY <2>1, <2>2, SlipIs
      <4> QED BY <2>1, <2>2, <4>1
           DEF Next, Service, Dispatch, ManagerEntry, CounterRebase, GamePublish, GameUpdateBegin,
               EarlyReturn, GameUpdateEnd, Idle, Gate, RenderEntry, RenderBody, Present,
               RenderReturn, Limiter, Change, Deactivate, Reset, vars
    <3>2. s.on /\ LastWhole
      BY <2>1, <2>2, <3>1, LoopHeadIs
    <3> QED BY <2>1, <2>2, <3>2, WholeIsLegal DEF LastWhole, Seen
  <2> QED BY <2>1, <2>2, OnlyResetTurnsOn
<1>4. FailsOpen <=> [][A]_vars
  BY DEF FailsOpen
<1> QED BY <1>1, <1>2, <1>3, <1>4, PTL DEF Spec


-----------------------------------------------------------------------------
(* What the checks expect of the guest at each place of the loop is what   *)
(* the guest does, unless the schedule was breached                        *)

(* A game is played only where there is one                                *)
PlayInv ==
  ~breach => /\ at # "publish" /\ g.playing => g.game # None
             /\ at \in {"begin", "update", "left"} => g.game # None

Opening == {"service", "dispatch", "entry"}
Changes == {"rebase", "publish"}
Drawing == {"render", "body", "present", "return"}
Agrees  == s.counter = g.counter /\ s.interp = g.interp /\ s.game = g.game
Closed(F) ==
  /\ Opening \cup {"gate"} \subseteq F /\ ("begin" \in F <=> "end" \in F)
  /\ F \cap Changes # {} => "begin" \in F
PlaceInv ==
  /\ at # "off" /\ (at # "head" => s.started)
  /\ at = "head" /\ s.started => Whole(s.flags)
  /\ at = "service" => s.flags = {}
  /\ at = "dispatch" => s.flags = {"service"}
  /\ at = "entry" => s.flags = {"service", "dispatch"}
  /\ at = "entered" => s.flags = Opening /\ Agrees /\ s.after = Frame(g)
  /\ at = "publish" => s.flags = Opening \cup {"rebase"} /\ Agrees /\ Even(g.counter) /\ g.game = None
  /\ at = "begin" => s.flags \ Changes = Opening
  /\ at \in {"update", "left"} => s.flags \ Changes = Opening \cup {"begin"} /\ s.before = g.frame
  /\ at \in {"begin", "update", "left"} => Agrees /\ Even(g.counter)
  /\ at = "left" => s.site = "accepted"
  /\ at = "gate" => /\ Agrees
                    /\ \/ s.flags = Opening /\ (s.after = Frame(g) \/ ~Even(g.counter))
                       \/ /\ s.flags \ Changes = Opening \cup {"begin", "end"}
                          /\ Even(g.counter) /\ s.after = Frame(g)
  /\ at \in Drawing => /\ Closed(s.flags) /\ s.show /\ Counted /\ s.interp = g.interp
                       /\ Even(g.counter) => g.interp
  /\ at = "render" => s.flags \cap Drawing = {}
  /\ at = "body" => s.flags \cap Drawing = {"render"}
  /\ at = "present" => s.flags \cap Drawing = {"render", "body"}
  /\ at = "return" => s.flags \cap Drawing = {"render", "body", "present"}
  /\ at = "limiter" => Whole(s.flags)
KeepInv == PlayInv /\ (~breach /\ s.on => PlaceInv)

(* What the guest does                                                     *)
LEMMA GuestDoes ==
  ASSUME Shape
  PROVE  /\ CounterRebase => /\ g'.counter = Succ(g.counter) /\ g'.game = g.game /\ g'.interp = g.interp
                             /\ g'.frame = g.frame
         /\ GamePublish => g'.counter = g.counter /\ g'.game # None /\ g'.interp = g.interp
         /\ EarlyReturn => /\ g'.counter = g.counter /\ g'.game = g.game /\ g'.interp = g.interp
                           /\ g'.frame = g.frame
         /\ GameUpdateEnd => /\ g'.counter = g.counter /\ g'.game = g.game /\ g'.interp = g.interp
                             /\ g'.frame = (IF at = "update" THEN (g.frame + 1) % FrameMod ELSE g.frame)
                             /\ g'.playing = g.playing
         /\ Idle => /\ g'.counter = g.counter /\ g'.game = g.game /\ g'.interp = g.interp
                    /\ g'.playing = g.playing /\ (Even(g.counter) => g' = g)
         /\ Gate => /\ g'.counter = Succ(g.counter) /\ g'.game = g.game /\ g'.frame = g.frame
                    /\ g'.playing = g.playing /\ (g'.interp = g.interp \/ "end" \in s.flags)
<1>1. g \in Guest
  BY DEF Shape
<1>2. None \notin Games
  BY CadenceAssumption
<1>3. CounterRebase => /\ g'.counter = Succ(g.counter) /\ g'.game = g.game /\ g'.interp = g.interp
                       /\ g'.frame = g.frame
  BY <1>1 DEF CounterRebase, Guest
<1>4. GamePublish => g'.counter = g.counter /\ g'.game # None /\ g'.interp = g.interp
  BY <1>1, <1>2 DEF GamePublish, Guest
<1>5. EarlyReturn => /\ g'.counter = g.counter /\ g'.game = g.game /\ g'.interp = g.interp
                     /\ g'.frame = g.frame
  BY <1>1 DEF EarlyReturn, Guest
<1>6. GameUpdateEnd => /\ g'.counter = g.counter /\ g'.game = g.game /\ g'.interp = g.interp
                       /\ g'.frame = (IF at = "update" THEN (g.frame + 1) % FrameMod ELSE g.frame)
                       /\ g'.playing = g.playing
  BY <1>1 DEF GameUpdateEnd, Guest
<1>7. Idle => /\ g'.counter = g.counter /\ g'.game = g.game /\ g'.interp = g.interp
              /\ g'.playing = g.playing /\ (Even(g.counter) => g' = g)
  BY <1>1 DEF Idle, Guest
<1>8. Gate => /\ g'.counter = Succ(g.counter) /\ g'.game = g.game /\ g'.frame = g.frame
              /\ g'.playing = g.playing /\ (g'.interp = g.interp \/ "end" \in s.flags)
  BY <1>1 DEF Gate, Guest
<1> QED BY <1>3, <1>4, <1>5, <1>6, <1>7, <1>8

(* Every step of the guest, whether the scheduler is on or not             *)
LEMMA PlayStep == IInv /\ Shape /\ PlayInv /\ [Next]_vars => PlayInv'
<1> SUFFICES ASSUME IInv, Shape, PlayInv, [Next]_vars PROVE PlayInv'
  OBVIOUS
<1>1. ASSUME UNCHANGED g, at' \notin {"begin", "update", "left"}, at # "publish", breach => breach'
      PROVE  PlayInv'
  BY <1>1 DEF PlayInv
<1>2. CASE LoopHead
  <2>1. /\ UNCHANGED g /\ at' = "service" /\ at \in {"head", "off"}
        /\ UNCHANGED breach \/ (~breach /\ breach' = TRUE)
    BY <1>2, LoopHeadIs
  <2> QED BY <1>1, <2>1
<1>3. CASE Service \/ Dispatch \/ ManagerEntry
  <2>1. UNCHANGED <<g, breach>> /\ at' \notin {"begin", "update", "left"} /\ at # "publish"
    BY <1>3 DEF Service, Dispatch, ManagerEntry, Hook
  <2> QED BY <1>1, <2>1
<1>4. CASE CounterRebase
  BY <1>4, GuestDoes, CounterRebaseIs DEF PlayInv
<1>5. CASE GamePublish
  BY <1>5, GuestDoes, GamePublishIs DEF PlayInv
<1>6. CASE GameUpdateBegin
  <2>1. /\ UNCHANGED breach \/ (~breach /\ breach' = TRUE)
        /\ at = "begin" \/ (at = "entered" /\ Updates)
        /\ at' = "update" /\ UNCHANGED g
    BY <1>6, GameUpdateBeginIs
  <2> QED BY <2>1 DEF PlayInv, Updates
<1>7. CASE EarlyReturn
  BY <1>7, GuestDoes, EarlyReturnIs DEF PlayInv, Quiet
<1>8. CASE GameUpdateEnd
  <2>1. g'.game = g.game /\ at \in {"update", "left"} /\ at' = "gate" /\ UNCHANGED breach
    BY <1>8, GuestDoes, GameUpdateEndIs DEF HookStep
  <2> QED BY <2>1 DEF PlayInv
<1>9. CASE Idle
  BY <1>9, GuestDoes, IdleIs DEF PlayInv, Quiet
<1>10. CASE Gate
  <2>1. /\ g'.game = g.game /\ g'.playing = g.playing /\ at = "gate" /\ at' \in {"render", "limiter"}
        /\ UNCHANGED breach
    BY <1>10, GuestDoes, GateIs
  <2> QED BY <2>1 DEF PlayInv
<1>11. CASE RenderEntry \/ RenderBody \/ Present \/ RenderReturn \/ Limiter
  <2>1. UNCHANGED <<g, breach>> /\ at' \notin {"begin", "update", "left"} /\ at # "publish"
    BY <1>11 DEF RenderEntry, RenderBody, Present, RenderReturn, Limiter, Hook
  <2> QED BY <1>1, <2>1
<1>12. CASE Change
  BY <1>12, ChangeIs DEF PlayInv
<1>13. CASE Slip
  BY <1>13, SlipIs DEF PlayInv
<1>14. CASE Deactivate \/ Reset
  <2>1. UNCHANGED <<g, breach>> /\ at' \notin {"begin", "update", "left"} /\ at # "publish"
    BY <1>14 DEF Deactivate, Reset
  <2> QED BY <1>1, <2>1
<1>15. CASE UNCHANGED vars
  BY <1>15 DEF vars, PlayInv
<1> QED BY <1>2, <1>3, <1>4, <1>5, <1>6, <1>7, <1>8, <1>9, <1>10, <1>11, <1>12, <1>13, <1>14,
           <1>15 DEF Next


(* The hooks are noted, and their checks hold                              *)
LEMMA NotedOn ==
  ASSUME NEW h, NEW b, HookTo(s', h, b), s.on, s.started, h \notin s.flags, ~b
  PROVE  s'.on /\ s'.flags = s.flags \cup {h} /\ s'.show = s.show /\ s'.started
BY DEF HookTo, Noted, New, SameRest

Keeps == s'.on /\ PlaceInv'

(* The last tick was whole, and the deadlines are in order                 *)
LEMMA LoopHeadKeeps ==
  ASSUME Shape, PlaceInv, s.on, ~breach, ~breach', LoopHead
  PROVE  Keeps
<1>1. at = "head" /\ LastWhole /\ UNCHANGED breach
  BY LoopHeadIs DEF PlaceInv, LastWhole
<1>2. s'.on /\ s'.started /\ s'.flags = {} /\ at' = "service"
  BY <1>1, LoopHeadIs
<1> QED BY <1>2 DEF Keeps, PlaceInv, Drawing

(* The service comes first, the dispatch after it                          *)
LEMMA OpeningKeeps ==
  ASSUME IInv, Shape, PlaceInv, s.on, Service \/ Dispatch
  PROVE  Keeps
<1>1. CASE Service
  <2>1. HookTo(s', "service", FALSE) /\ at = "service" /\ at' = "dispatch"
    BY <1>1, ServiceIs DEF HookStep
  <2>2. s.started /\ s.flags = {}
    BY <2>1 DEF PlaceInv
  <2>3. s'.on /\ s'.started /\ s'.flags = {"service"}
    BY <2>1, <2>2, NotedOn
  <2> QED BY <2>1, <2>3 DEF Keeps, PlaceInv, Drawing
<1>2. CASE Dispatch
  <2> DEFINE b == "service" \notin s.flags
  <2>1. HookTo(s', "dispatch", b) /\ at = "dispatch" /\ at' = "entry"
    BY <1>2, DispatchIs DEF HookStep
  <2>2. s.started /\ s.flags = {"service"} /\ ~b
    BY <2>1 DEF PlaceInv
  <2>3. s'.on /\ s'.started /\ s'.flags = {"service", "dispatch"}
    BY <2>1, <2>2, NotedOn
  <2> QED BY <2>1, <2>3 DEF Keeps, PlaceInv, Drawing
<1> QED BY <1>1, <1>2

(* The Manager is entered after both                                       *)
LEMMA ManagerEntryKeeps ==
  ASSUME Shape, PlaceInv, s.on, ManagerEntry
  PROVE  Keeps
<1> DEFINE b == "dispatch" \notin s.flags
<1>1. /\ HookTo(s', "entry", b) /\ at = "entry" /\ at' = "entered" /\ UNCHANGED g
      /\ s'.on => /\ s'.counter = g.counter /\ s'.interp = g.interp /\ s'.game = g.game
                  /\ s'.after = Frame(g)
  BY ManagerEntryIs DEF HookStep
<1>2. s.started /\ s.flags = {"service", "dispatch"} /\ ~b
  BY <1>1 DEF PlaceInv
<1>3. s'.on /\ s'.started /\ s'.flags = Opening
  <2>1. s'.on /\ s'.started /\ s'.flags = s.flags \cup {"entry"}
    BY <1>1, <1>2, NotedOn
  <2> QED BY <1>2, <2>1 DEF Opening
<1>4. Agrees' /\ s'.after = Frame(g')
  BY <1>1, <1>3 DEF Agrees, Frame
<1>5. Agrees' /\ s'.after = Frame(g)'
  BY <1>4 DEF Frame
<1> QED BY <1>1, <1>3, <1>5 DEF Keeps, PlaceInv, Drawing

(* An odd counter is made even, as the scheduler follows                   *)
LEMMA CounterRebaseKeeps ==
  ASSUME Shape, PlaceInv, s.on, CounterRebase
  PROVE  Keeps
<1> DEFINE b == RebaseBad
<1>1. /\ HookTo(s', "rebase", b) /\ s'.interp = s.interp /\ s'.game = s.game
      /\ s'.on => s'.counter = Succ(g.counter)
      /\ at = "entered" /\ ~Even(g.counter)
      /\ at' = (IF g.game = None THEN "publish" ELSE "begin")
  BY CounterRebaseIs DEF HookStep
<1>2. s.started /\ s.flags = Opening /\ Agrees
  BY <1>1 DEF PlaceInv
<1>3. ~b /\ "rebase" \notin s.flags
  BY <1>2 DEF RebaseBad, Opening, Agrees
<1>4. s'.on /\ s'.started /\ s'.flags = Opening \cup {"rebase"}
  BY <1>1, <1>2, <1>3, NotedOn
<1>5. g'.counter = Succ(g.counter) /\ g'.game = g.game /\ g'.interp = g.interp
  BY GuestDoes
<1>6. Even(g'.counter)
  BY <1>1, <1>5, SuccIs, GuestIs DEF Shape
<1>7. Agrees'
  BY <1>1, <1>2, <1>4, <1>5 DEF Agrees
<1>8. s'.flags \ Changes = Opening
  BY <1>4 DEF Opening, Changes
<1>9. CASE g.game = None
  BY <1>1, <1>4, <1>5, <1>6, <1>7, <1>9 DEF Keeps, PlaceInv, Drawing
<1>10. CASE g.game # None
  BY <1>1, <1>4, <1>6, <1>7, <1>8, <1>10 DEF Keeps, PlaceInv, Drawing
<1> QED BY <1>9, <1>10

(* A game is published where there was none                                *)
LEMMA GamePublishKeeps ==
  ASSUME Shape, PlaceInv, s.on, GamePublish
  PROVE  Keeps
<1> DEFINE b == PublishBad
<1>1. /\ HookTo(s', "publish", b) /\ s'.counter = s.counter /\ s'.interp = s.interp
      /\ at = "publish" \/ (at = "entered" /\ Even(g.counter) /\ g.game = None)
      /\ at' = "begin"
  BY GamePublishIs DEF HookStep
<1>2. /\ s.started /\ s.flags \in {Opening, Opening \cup {"rebase"}} /\ Agrees
      /\ Even(g.counter) /\ g.game = None
  BY <1>1 DEF PlaceInv
<1>3. ~b /\ "publish" \notin s.flags
  BY <1>2 DEF PublishBad, Opening, Agrees
<1>4. s'.on /\ s'.started /\ s'.flags = s.flags \cup {"publish"}
  BY <1>1, <1>2, <1>3, NotedOn
<1>5. g'.counter = g.counter /\ g'.interp = g.interp
  BY GuestDoes
<1>6. g'.game = s'.game
  BY <1>4, GamePublishIs
<1>7. Agrees' /\ Even(g'.counter)
  BY <1>1, <1>2, <1>5, <1>6 DEF Agrees
<1>8. s'.flags \ Changes = Opening
  BY <1>2, <1>4 DEF Opening, Changes
<1> QED BY <1>1, <1>4, <1>7, <1>8 DEF Keeps, PlaceInv, Drawing

(* The update begins with the game that was entered or published           *)
LEMMA GameUpdateBeginKeeps ==
  ASSUME IInv, Shape, PlayInv, PlaceInv, s.on, ~breach, ~breach', GameUpdateBegin
  PROVE  Keeps
<1> DEFINE b == BeginBad \/ breach' # breach
<1>1. /\ HookTo(s', "begin", b) /\ UNCHANGED breach
      /\ SameView(s, s') /\ (s'.on => s'.before = Frame(g))
      /\ at = "begin" \/ (at = "entered" /\ Updates)
      /\ at' = "update" /\ UNCHANGED g
  BY GameUpdateBeginIs
<1>2. /\ s.started /\ s.flags \ Changes = Opening /\ Agrees /\ Even(g.counter)
  BY <1>1 DEF PlaceInv, Updates, Changes, Opening
<1>3. g.game # None
  BY <1>1 DEF PlayInv, Updates
<1>4. ~b /\ "begin" \notin s.flags
  BY <1>1, <1>2, <1>3 DEF BeginBad, Opening, Changes, Agrees
<1> HIDE DEF b
<1>5. s'.on /\ s'.started /\ s'.flags = s.flags \cup {"begin"}
  BY <1>1, <1>2, <1>4, NotedOn
<1>6. s'.flags \ Changes = Opening \cup {"begin"}
  BY <1>2, <1>5 DEF Opening, Changes
<1>7. Agrees' /\ Even(g'.counter) /\ s'.before = g'.frame
  BY <1>1, <1>2, <1>3, <1>5 DEF Agrees, SameView, Frame
<1> QED BY <1>1, <1>5, <1>6, <1>7 DEF Keeps, PlaceInv, Drawing

(* The update returns early, its frame as it was                           *)
LEMMA EarlyReturnKeeps ==
  ASSUME Shape, PlaceInv, s.on, EarlyReturn
  PROVE  Keeps
<1>1. Quiet /\ s'.site = "accepted" /\ at = "update" /\ at' = "left"
  BY EarlyReturnIs
<1>2. g'.counter = g.counter /\ g'.game = g.game /\ g'.interp = g.interp /\ g'.frame = g.frame
  BY GuestDoes
<1>3. /\ s'.on /\ s'.started = s.started /\ s'.flags = s.flags /\ SameView(s, s') /\ s'.before = s.before
  BY <1>1 DEF Quiet, Later, SameRest, SameFrames
<1>4. /\ s.started /\ s.flags \ Changes = Opening \cup {"begin"} /\ s.before = g.frame
      /\ Agrees /\ Even(g.counter)
  BY <1>1 DEF PlaceInv
<1>5. Agrees' /\ Even(g'.counter)
  BY <1>2, <1>3, <1>4 DEF Agrees, SameView
<1> QED BY <1>1, <1>2, <1>3, <1>4, <1>5 DEF Keeps, PlaceInv, Drawing

(* The update ends with its frame moved by one                             *)
LEMMA GameUpdateEndKeeps ==
  ASSUME IInv, Shape, PlayInv, PlaceInv, s.on, ~breach, GameUpdateEnd
  PROVE  Keeps
<1> DEFINE b == EndBad
<1>1. /\ HookTo(s', "end", b) /\ SameView(s, s') /\ (s'.on => s'.after = Frame(g'))
      /\ at \in {"update", "left"} /\ at' = "gate"
  BY GameUpdateEndIs DEF HookStep
<1>2. /\ s.started /\ s.flags \ Changes = Opening \cup {"begin"} /\ s.before = g.frame
      /\ Agrees /\ Even(g.counter) /\ (at = "left" => s.site = "accepted")
  BY <1>1 DEF PlaceInv
<1>3. /\ g'.counter = g.counter /\ g'.game = g.game /\ g'.interp = g.interp
      /\ g'.frame = (IF at = "update" THEN (g.frame + 1) % FrameMod ELSE g.frame)
  BY GuestDoes
<1>4. g.game # None
  BY <1>1 DEF PlayInv
<1>5. Frame(g') = IF at = "update" THEN (s.before + 1) % FrameMod ELSE s.before
  BY <1>2, <1>3, <1>4 DEF Frame
<1>6. ~b /\ "end" \notin s.flags
  BY <1>1, <1>2, <1>3, <1>4, <1>5 DEF EndBad, Opening, Changes, Agrees
<1>7. s'.on /\ s'.started /\ s'.flags = s.flags \cup {"end"}
  BY <1>1, <1>2, <1>6, NotedOn
<1>8. s'.flags \ Changes = Opening \cup {"begin", "end"}
  BY <1>2, <1>7 DEF Opening, Changes
<1>9. Agrees' /\ Even(g'.counter) /\ s'.after = Frame(g)'
  BY <1>1, <1>2, <1>3, <1>7 DEF Agrees, SameView, Frame
<1> QED BY <1>1, <1>7, <1>8, <1>9 DEF Keeps, PlaceInv, Drawing

(* A tick without an update moves no frame, or loads one in an             *)
(* interpolated tick                                                       *)
LEMMA IdleKeeps ==
  ASSUME IInv, Shape, PlaceInv, s.on, Idle
  PROVE  Keeps
<1>1. Quiet /\ at = "entered" /\ at' = "gate"
  BY IdleIs
<1>2. /\ g'.counter = g.counter /\ g'.game = g.game /\ g'.interp = g.interp
      /\ (Even(g.counter) => g' = g)
  BY GuestDoes
<1>3. /\ s'.on /\ s'.started = s.started /\ s'.flags = s.flags /\ SameView(s, s') /\ s'.after = s.after
  BY <1>1 DEF Quiet, Later, SameRest, SameFrames
<1>4. s.started /\ s.flags = Opening /\ Agrees /\ s.after = Frame(g)
  BY <1>1 DEF PlaceInv
<1>5. Agrees' /\ (s'.after = Frame(g)' \/ ~Even(g'.counter))
  BY <1>2, <1>3, <1>4 DEF Agrees, SameView, Frame
<1> QED BY <1>1, <1>3, <1>4, <1>5 DEF Keeps, PlaceInv, Drawing


(* The gate finds the tick as the schedule expects it: with its update     *)
(* whole, or without one                                                   *)
LEMMA GateFindsNothing ==
  ASSUME Shape, PlaceInv, Gate
  PROVE  ~GateBreach(s, g')
<1> DEFINE updated == s.flags \cap {"begin", "end"}
<1>1. /\ g'.counter = Succ(g.counter) /\ g'.game = g.game /\ g'.frame = g.frame
      /\ (g'.interp = g.interp \/ "end" \in s.flags)
  BY GuestDoes
<1>2. at = "gate"
  BY GateIs
<1>3. /\ Agrees
      /\ \/ s.flags = Opening /\ (s.after = Frame(g) \/ ~Even(g.counter))
         \/ /\ s.flags \ Changes = Opening \cup {"begin", "end"}
            /\ Even(g.counter) /\ s.after = Frame(g)
  BY <1>2 DEF PlaceInv
<1>4. Frame(g') = Frame(g)
  BY <1>1 DEF Frame
<1>5. Even(g'.counter) <=> ~Even(g.counter)
  BY <1>1, SuccIs, GuestIs DEF Shape
<1>6. g'.counter = Succ(s.counter) /\ g'.game = s.game /\ (g'.interp = s.interp \/ "end" \in s.flags)
  BY <1>1, <1>3 DEF Agrees
<1>7. CASE s.flags = Opening /\ (s.after = Frame(g) \/ ~Even(g.counter))
  <2>1. updated = {} /\ s.flags \cap Changes = {} /\ "end" \notin s.flags /\ "entry" \in s.flags
    BY <1>7 DEF Opening, Changes
  <2>2. Cardinality({}) = 0
    BY FS_EmptySet
  <2>3. Cardinality(updated) # 1
    BY <2>1, <2>2
  <2> HIDE DEF updated
  <2>4. Frame(g') # s.after => Even(g'.counter)
    BY <1>4, <1>5, <1>7
  <2> QED BY <2>1, <2>3, <2>4, <1>6 DEF GateBreach, updated, Changes
<1>8. CASE /\ s.flags \ Changes = Opening \cup {"begin", "end"}
           /\ Even(g.counter) /\ s.after = Frame(g)
  <2>1. updated = {"begin", "end"} /\ "entry" \in s.flags
    BY <1>8 DEF Opening, Changes
  <2>2. Cardinality({"begin", "end"}) # 1
    <3>1. IsFiniteSet({"begin"}) /\ Cardinality({"begin"}) = 1
      BY FS_Singleton
    <3>2. Cardinality({"begin"} \cup {"end"}) = 2
      BY <3>1, FS_AddElement
    <3>3. {"begin"} \cup {"end"} = {"begin", "end"}
      OBVIOUS
    <3> QED BY <3>2, <3>3
  <2>3. Cardinality(updated) # 1
    BY <2>1, <2>2
  <2> HIDE DEF updated
  <2>4. Frame(g') = s.after /\ ~Even(g'.counter)
    BY <1>4, <1>5, <1>8
  <2> QED BY <2>1, <2>3, <2>4, <1>6 DEF GateBreach, updated
<1> QED BY <1>3, <1>7, <1>8

(* The gate plans a render with what the guest shows                       *)
LEMMA GateKeeps ==
  ASSUME Shape, PlaceInv, s.on, Gate
  PROVE  Keeps
<1>1. /\ s'.started = s.started /\ s'.counter = s.counter
      /\ s'.on <=> s.on /\ New(s, "gate") /\ ~GateBreach(s, g')
      /\ s'.on => s'.flags = s.flags \cup {"gate"} /\ s'.interp = g'.interp /\ Planned(s, s', g')
      /\ at = "gate" /\ at' = (IF s'.show THEN "render" ELSE "limiter")
  BY GateIs
<1>2. /\ s.started /\ Agrees
      /\ s.flags = Opening \/ s.flags \ Changes = Opening \cup {"begin", "end"}
  BY <1>1 DEF PlaceInv
<1>3. New(s, "gate")
  BY <1>2 DEF New, Opening, Changes
<1>4. s'.on /\ s'.started /\ s'.flags = s.flags \cup {"gate"}
  BY <1>1, <1>2, <1>3, GateFindsNothing
<1>5. Counted' /\ s'.interp = g'.interp
  BY <1>1, <1>2, <1>4, GuestDoes DEF Counted, Agrees
<1>6. Closed(s'.flags) /\ s'.flags \cap Drawing = {}
  BY <1>2, <1>4 DEF Closed, Opening, Changes, Drawing
<1>7. Whole(s'.flags)
  BY <1>6 DEF Closed, Whole, Opening, Changes, Drawing
<1>8. s'.show => (Even(g'.counter) => g'.interp)
  BY <1>1, <1>4 DEF Planned
<1>9. CASE s'.show
  BY <1>1, <1>4, <1>5, <1>6, <1>8, <1>9 DEF Keeps, PlaceInv, Drawing
<1>10. CASE ~s'.show
  BY <1>1, <1>4, <1>7, <1>10 DEF Keeps, PlaceInv, Drawing
<1> QED BY <1>9, <1>10

(* A render shows what the gate planned, hook by hook                      *)
LEMMA RenderKeeps ==
  ASSUME IInv, Shape, PlaceInv, s.on, RenderEntry \/ RenderBody \/ Present \/ RenderReturn
  PROVE  Keeps
<1>1. at \in Drawing
  BY DEF RenderEntry, RenderBody, Present, RenderReturn, Drawing
<1>2. /\ s.started /\ Closed(s.flags) /\ s.show /\ Counted /\ s.interp = g.interp
      /\ Even(g.counter) => g.interp
  BY <1>1 DEF PlaceInv, Drawing
<1>3. ASSUME NEW h \in Drawing, NEW b, HookTo(s', h, b), Same(s, s'), UNCHANGED g, h \notin s.flags, ~b
      PROVE  /\ s'.on /\ s'.started /\ s'.flags = s.flags \cup {h}
             /\ Closed(s'.flags) /\ s'.show /\ Counted' /\ s'.interp = g'.interp
             /\ Even(g'.counter) => g'.interp
  <2>1. s'.on /\ s'.flags = s.flags \cup {h} /\ s'.show = s.show /\ s'.started
    BY <1>2, <1>3 DEF HookTo, Noted, New, SameRest
  <2>2. Closed(s'.flags)
    BY <1>2, <2>1 DEF Closed, Opening, Changes, Drawing
  <2> QED BY <1>2, <1>3, <2>1, <2>2 DEF Counted, Same, SameView
<1>4. CASE RenderEntry
  <2> DEFINE b == ~s.show \/ "gate" \notin s.flags
  <2>1. /\ HookTo(s', "render", b) /\ Same(s, s') /\ at = "render" /\ at' = "body" /\ UNCHANGED g
    BY <1>4, RenderEntryIs DEF HookStep
  <2>2. s.flags \cap Drawing = {}
    BY <2>1 DEF PlaceInv
  <2>3. ~b /\ "render" \notin s.flags /\ "render" \in Drawing
    BY <1>2, <2>2 DEF Closed, Drawing
  <2> HIDE DEF b
  <2>4. /\ s'.on /\ s'.started /\ s'.flags = s.flags \cup {"render"}
        /\ Closed(s'.flags) /\ s'.show /\ Counted' /\ s'.interp = g'.interp
        /\ Even(g'.counter) => g'.interp
    BY <2>1, <2>3, <1>3
  <2>5. s'.flags \cap Drawing = {"render"}
    BY <2>2, <2>4 DEF Drawing
  <2> QED BY <2>1, <2>4, <2>5 DEF Keeps, PlaceInv
<1>5. CASE RenderBody
  <2> DEFINE b == BodyBad
  <2>1. /\ HookTo(s', "body", b) /\ Same(s, s') /\ at = "body" /\ at' = "present" /\ UNCHANGED g
    BY <1>5, RenderBodyIs DEF HookStep
  <2>2. s.flags \cap Drawing = {"render"}
    BY <2>1 DEF PlaceInv
  <2>3. ~b /\ "body" \notin s.flags /\ "body" \in Drawing
    BY <1>2, <2>2 DEF BodyBad, Counted, Drawing
  <2> HIDE DEF b
  <2>4. /\ s'.on /\ s'.started /\ s'.flags = s.flags \cup {"body"}
        /\ Closed(s'.flags) /\ s'.show /\ Counted' /\ s'.interp = g'.interp
        /\ Even(g'.counter) => g'.interp
    BY <2>1, <2>3, <1>3
  <2>5. s'.flags \cap Drawing = {"render", "body"}
    BY <2>2, <2>4 DEF Drawing
  <2> QED BY <2>1, <2>4, <2>5 DEF Keeps, PlaceInv
<1>6. CASE Present
  <2> DEFINE b == "body" \notin s.flags
  <2>1. /\ HookTo(s', "present", b) /\ Same(s, s') /\ at = "present" /\ at' = "return" /\ UNCHANGED g
    BY <1>6, PresentIs DEF HookStep
  <2>2. s.flags \cap Drawing = {"render", "body"}
    BY <2>1 DEF PlaceInv
  <2>3. ~b /\ "present" \notin s.flags /\ "present" \in Drawing
    BY <2>2 DEF Drawing
  <2> HIDE DEF b
  <2>4. /\ s'.on /\ s'.started /\ s'.flags = s.flags \cup {"present"}
        /\ Closed(s'.flags) /\ s'.show /\ Counted' /\ s'.interp = g'.interp
        /\ Even(g'.counter) => g'.interp
    BY <2>1, <2>3, <1>3
  <2>5. s'.flags \cap Drawing = {"render", "body", "present"}
    BY <2>2, <2>4 DEF Drawing
  <2> QED BY <2>1, <2>4, <2>5 DEF Keeps, PlaceInv
<1>7. CASE RenderReturn
  <2> DEFINE b == "render" \notin s.flags
  <2>1. /\ HookTo(s', "return", b) /\ Same(s, s') /\ at = "return" /\ at' = "limiter" /\ UNCHANGED g
    BY <1>7, RenderReturnIs DEF HookStep
  <2>2. s.flags \cap Drawing = {"render", "body", "present"}
    BY <2>1 DEF PlaceInv
  <2>3. ~b /\ "return" \notin s.flags /\ "return" \in Drawing
    BY <2>2 DEF Drawing
  <2> HIDE DEF b
  <2>4. /\ s'.on /\ s'.started /\ s'.flags = s.flags \cup {"return"} /\ Closed(s'.flags)
    BY <2>1, <2>3, <1>3
  <2>5. Whole(s'.flags)
    BY <2>2, <2>4 DEF Whole, Closed, Opening, Changes, Drawing
  <2> QED BY <2>1, <2>4, <2>5 DEF Keeps, PlaceInv, Drawing
<1> QED BY <1>4, <1>5, <1>6, <1>7

(* The limiter, and changes between two ticks                              *)
LEMMA AfterwardsKeeps ==
  ASSUME Shape, PlaceInv, s.on, Limiter \/ Change
  PROVE  Keeps
<1>1. CASE Limiter
  <2>1. Quiet /\ at = "limiter" /\ at' = "head"
    BY <1>1, LimiterIs
  <2>2. s'.on /\ s'.flags = s.flags
    BY <2>1 DEF Quiet, Later
  <2>3. Whole(s'.flags)
    BY <2>1, <2>2 DEF PlaceInv
  <2> QED BY <2>1, <2>2, <2>3 DEF Keeps, PlaceInv, Drawing
<1>2. CASE Change
  <2>1. at = "head" /\ at' = "head" /\ s' = s
    BY <1>2 DEF Change
  <2>2. s'.started => Whole(s'.flags)
    BY <2>1 DEF PlaceInv
  <2> QED BY <2>1, <2>2 DEF Keeps, PlaceInv, Drawing
<1> QED BY <1>1, <1>2

(* Every step of an unbreached schedule that is on, but leaving, keeps it  *)
(* on                                                                      *)
LEMMA StepKeeps ==
  ASSUME IInv, Shape, KeepInv, [Next]_vars, s.on, ~breach', at' # "off"
  PROVE  Keeps
<1>1. ~breach
  BY LoopHeadIs, GameUpdateBeginIs, SlipIs
  DEF Next, Service, Dispatch, ManagerEntry, CounterRebase, GamePublish,
      EarlyReturn, GameUpdateEnd, Idle, Gate, RenderEntry, RenderBody, Present,
      RenderReturn, Limiter, Change, Deactivate, Reset, vars
<1>2. PlayInv /\ PlaceInv
  BY <1>1 DEF KeepInv
<1>3. CASE LoopHead
  BY <1>1, <1>2, <1>3, LoopHeadKeeps
<1>4. CASE Service \/ Dispatch
  BY <1>2, <1>4, OpeningKeeps
<1>5. CASE ManagerEntry \/ CounterRebase \/ GamePublish
  BY <1>2, <1>5, ManagerEntryKeeps, CounterRebaseKeeps, GamePublishKeeps
<1>6. CASE GameUpdateBegin \/ EarlyReturn \/ GameUpdateEnd \/ Idle
  BY <1>1, <1>2, <1>6, GameUpdateBeginKeeps, EarlyReturnKeeps, GameUpdateEndKeeps, IdleKeeps
<1>7. CASE Gate
  BY <1>2, <1>7, GateKeeps
<1>8. CASE RenderEntry \/ RenderBody \/ Present \/ RenderReturn
  BY <1>2, <1>8, RenderKeeps
<1>9. CASE Limiter \/ Change
  BY <1>2, <1>9, AfterwardsKeeps
<1>10. ~Slip
  BY <1>1, SlipIs
<1>11. ~Deactivate /\ ~Reset
  BY <1>2 DEF Deactivate, Reset, PlaceInv
<1>12. CASE UNCHANGED vars
  <2>1. UNCHANGED <<at, s, g>>
    BY <1>12 DEF vars
  <2>2. PlaceInv'
    BY <2>1, <1>2 DEF PlaceInv, Agrees, Counted, Closed, Whole, Frame
  <2> QED BY <2>1, <2>2 DEF Keeps
<1> QED BY <1>3, <1>4, <1>5, <1>6, <1>7, <1>8, <1>9, <1>10, <1>11, <1>12 DEF Next


(* The first state                                                         *)
LEMMA KeepInit == Init => KeepInv
<1> SUFFICES ASSUME Init PROVE KeepInv
  OBVIOUS
<1>1. at = "head" /\ s.started = FALSE /\ (g.playing => g.game # None)
  BY ClearedIs DEF Init
<1> QED BY <1>1 DEF KeepInv, PlayInv, PlaceInv, Drawing

(* Every step                                                              *)
LEMMA KeepStep == IInv /\ Shape /\ KeepInv /\ [Next]_vars => KeepInv'
<1> SUFFICES ASSUME IInv, Shape, KeepInv, [Next]_vars PROVE KeepInv'
  OBVIOUS
<1>1. PlayInv'
  BY PlayStep DEF KeepInv
<1>2. ASSUME ~breach', s'.on PROVE PlaceInv'
  <2>1. CASE s.on /\ at' # "off"
    BY <1>2, <2>1, StepKeeps DEF Keeps
  <2>2. CASE at' = "off"
    <3>1. Deactivate \/ (UNCHANGED vars /\ at = "off")
      <4>1. ~LoopHead /\ ~GameUpdateBegin /\ ~Gate /\ ~Slip
        BY <1>2, <2>2, LoopHeadIs, GameUpdateBeginIs, GateIs, SlipIs
      <4>2. ~Service /\ ~Dispatch /\ ~ManagerEntry /\ ~CounterRebase /\ ~GamePublish
        BY <2>2 DEF Service, Dispatch, ManagerEntry, CounterRebase, GamePublish, Hook
      <4>3. ~EarlyReturn /\ ~GameUpdateEnd /\ ~Idle /\ ~Limiter /\ ~Change /\ ~Reset
        BY <2>2 DEF EarlyReturn, GameUpdateEnd, Idle, Limiter, Change, Reset, Hook
      <4>4. ~RenderEntry /\ ~RenderBody /\ ~Present /\ ~RenderReturn
        BY <2>2 DEF RenderEntry, RenderBody, Present, RenderReturn, Hook
      <4> QED BY <2>2, <4>1, <4>2, <4>3, <4>4 DEF Next, vars
    <3>2. ~s.on \/ PlaceInv
      BY <1>2, <3>1, DeactivateIs DEF KeepInv, vars
    <3> QED BY <1>2, <3>1, <3>2, DeactivateIs DEF PlaceInv, vars
  <2>3. CASE ~s.on
    <3>1. at = "off" /\ ~(UNCHANGED vars)
      BY <1>2, <2>3, OnlyResetTurnsOn DEF vars
    <3>2. Reset
      <4>1. ~LoopHead
        BY <1>2, <2>3, LoopHeadIs
      <4> QED BY <3>1, <4>1
           DEF Next, Service, Dispatch, ManagerEntry, CounterRebase, GamePublish, GameUpdateBegin,
               EarlyReturn, GameUpdateEnd, Idle, Gate, RenderEntry, RenderBody, Present,
               RenderReturn, Limiter, Change, Slip, Deactivate
    <3> QED BY <3>2, ResetIs DEF PlaceInv, Drawing
  <2> QED BY <2>1, <2>2, <2>3
<1> QED BY <1>1, <1>2 DEF KeepInv

(* However late the loop is, and however a game begins, ends, loads or     *)
(* pauses, the checks do not take it for a breach: the schedule stays on.  *)
THEOREM CadenceIsKept == Spec => KeepsCadence
<1> DEFINE J == IInv /\ Shape /\ KeepInv
           A == s.on /\ ~s'.on => at' = "off" \/ breach'
<1>1. Init => J
  BY InitInv, ShapeInit, KeepInit
<1>2. J /\ [Next]_vars => J'
  BY StepInv, ShapeStep, KeepStep
<1>3. J /\ [Next]_vars => [A]_vars
  BY StepKeeps DEF Keeps
<1>4. KeepsCadence <=> [][A]_vars
  BY DEF KeepsCadence
<1> QED BY <1>1, <1>2, <1>3, <1>4, PTL DEF Spec
=============================================================================
