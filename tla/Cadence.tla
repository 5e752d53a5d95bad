------------------------------ MODULE Cadence ------------------------------
(***************************************************************************)
(* The 60 Hz cadence of the game's main loop                               *)
(* (kage_vita_fullspeed_scheduler.c), as the translated game calls it.     *)
(* The guest's Manager runs one tick after the other; its counter's parity *)
(* decides whether a tick updates the game (a full phase) or only shows an *)
(* interpolated frame.  The scheduler sleeps until the next deadline at    *)
(* the loop head, keeps Game::Update to 30 Hz by a floor of its own, skips *)
(* renders when the loop is late, and checks at every hook that the guest  *)
(* does what the schedule assumes: if not, it switches itself off.         *)
(*                                                                         *)
(* The loop is one thread, and a hook is a step.  All times are relative   *)
(* to the clock: the time that passes is taken from every deadline.  What  *)
(* the guest reads and writes is its counter, its game and their frame.    *)
(***************************************************************************)
EXTENDS Integers, Sequences, FiniteSets

CONSTANTS
  Tick,        \* KAGE_VITA_FULLSPEED_TICK_UNITS
  MaxDue,      \* KAGE_VITA_FULLSPEED_MAX_DUE_TICKS
  StaleDue,    \* KAGE_VITA_FULLSPEED_STALE_DUE_TICKS
  MaxSkips,    \* KAGE_VITA_FULLSPEED_MAX_FULL_RENDER_SKIPS
  MaxLate,     \* how much later than asked the kernel may wake a sleeper
  Loads,       \* what the parts of a tick cost when nothing stalls
  Stalls,      \* what a stall (a room load) adds to one of them
  CounterMod,  \* the counter's 2^32
  FrameMod,    \* the frame's 2^32
  Games,       \* addresses of the game object
  None,        \* no game, no measurement, no deadline
  MaxEvents    \* bound on stalls, on what the player or the game changes, on breaches

GameTick == 2 * Tick    \* KAGE_VITA_FULLSPEED_GAME_TICK_UNITS
Parts == {"service", "update", "idle", "render"}

ASSUME CadenceAssumption ==
  /\ Tick \in Nat \ {0} /\ MaxLate \in Nat /\ MaxLate < Tick
  /\ MaxDue \in Nat /\ StaleDue \in 1 .. MaxDue /\ MaxSkips \in Nat
  /\ Loads \subseteq [Parts -> Nat] /\ Stalls \subseteq Nat \ {0}
  /\ CounterMod \in Nat \ {0} /\ CounterMod % 2 = 0 /\ FrameMod \in Nat \ {0, 1}
  /\ None \notin Games \cup Int
  /\ MaxEvents \in Nat

VARIABLES
  at,      \* the place of the loop: the hook it calls next
  s,       \* the scheduler's statics
  g,       \* the guest: its counter, game, frame and modes
  load,    \* what the parts of a tick cost
  events,  \* events left
  breach,  \* the schedule was breached, or a sleep failed: once at most
  ahead,   \* history: how far Game::Update is ahead of 30 Hz
  drift,   \* history: the last Game::Update began more than 2 * MaxLate after its floor
  dark,    \* history: ticks since a frame was rendered
  did      \* history: the hooks of this tick
vars == <<at, s, g, load, events, breach, ahead, drift, dark, did>>

Places == {"off", "head", "service", "dispatch", "entry", "entered", "publish", "begin",
           "update", "left", "gate", "render", "body", "present", "return", "limiter"}
Guest ==
  [counter : 0 .. CounterMod - 1, game : Games \cup {None}, frame : 0 .. FrameMod - 1,
   interp : BOOLEAN, playing : BOOLEAN]
Even(n) == n % 2 = 0
Succ(n) == (n + 1) % CounterMod
Frame(x) == IF x.game = None THEN 0 ELSE x.frame
Passed == -(2 * MaxLate + 1)
Floored(n) == IF n < Passed THEN Passed ELSE n
Event  == events > 0 /\ events' = events - 1
Breach == Event /\ ~breach /\ breach' = TRUE

(* kage_vita_fullspeed_scheduler_clear.  A floor that passed long ago or   *)
(* was never set makes no difference.                                      *)
Cleared(on) ==
  [on |-> on, started |-> FALSE, next |-> 0, last |-> None, floor |-> Passed, since |-> 0,
   update |-> None, render |-> None, flags |-> {}, show |-> TRUE, counter |-> 0,
   interp |-> FALSE, game |-> None, before |-> 0, after |-> 0, site |-> "normal", skips |-> 0]

Init ==
  /\ at = "head" /\ s = Cleared(TRUE)
  /\ g \in {h \in Guest : h.frame = 0 /\ (h.playing => h.game # None)}
  /\ load \in Loads /\ events = MaxEvents /\ breach = FALSE
  /\ ahead = 0 /\ drift = FALSE /\ dark = 0 /\ did = <<>>

-----------------------------------------------------------------------------
(* Time.  since is the time since the last update or render began: it is   *)
(* read only in the tick that set it.                                      *)
Pass(t, d) ==
  [t EXCEPT !.next = @ - d, !.last = IF @ = None THEN None ELSE @ - d,
            !.floor = Floored(@ - d), !.since = @ + d]
Drained(d) == IF ahead > d THEN ahead - d ELSE 0

(* A part of the tick takes its time, or stalls                            *)
Spend(part, d) ==
  \/ d = load[part] /\ UNCHANGED events
  \/ Event /\ \E z \in Stalls : d = load[part] + z
Takes(part) == {load[part]} \cup {load[part] + z : z \in Stalls}

-----------------------------------------------------------------------------
(* The checks.  Whatever fails turns the scheduler off: every frame is     *)
(* rendered from then on, and the game's own limiter is used.              *)
Off(t) == [t EXCEPT !.on = FALSE, !.show = TRUE]
OffIf(t, broken) == IF broken THEN Off(t) ELSE t

(* Every hook of a tick is noted, once                                     *)
New(t, hook) == t.started /\ hook \notin t.flags
Note(t, hook) == IF New(t, hook) THEN [t EXCEPT !.flags = @ \cup {hook}] ELSE Off(t)

BypassLimiter == s.started /\ s.on

Hook(hook, t, place) ==
  s' = t /\ at' = place /\ did' = Append(did, hook)

-----------------------------------------------------------------------------
(* The loop head: the last tick is checked, the next one is waited for,    *)
(* and what is overdue beyond MaxDue ticks is dropped                      *)
Whole(F) ==
  /\ {"service", "dispatch", "entry", "gate"} \subseteq F
  /\ "begin" \in F <=> "end" \in F
  /\ F \cap {"rebase", "publish"} # {} => "begin" \in F
  /\ "render" \in F => {"body", "present", "return"} \subseteq F
FinishPreviousTick_Skipped(t) == t
FinishPreviousTick(t) == OffIf(t, t.started /\ t.on /\ ~Whole(t.flags))

Dropped_TooLate(t) ==
  LET due == (-t.next) \div Tick + 1
  IN IF due > MaxDue + 1 THEN [t EXCEPT !.next = @ + (due - StaleDue) * Tick] ELSE t
Dropped(t) ==
  LET due == (-t.next) \div Tick + 1
  IN IF due > MaxDue THEN [t EXCEPT !.next = @ + (due - StaleDue) * Tick] ELSE t
Due(t) ==
  LET u == Dropped(t)
  IN [OffIf(u, u.last # None /\ u.next <= u.last) EXCEPT !.last = u.next, !.next = u.next + Tick]
(* The tick begins: its deadline is last, the next one next.  What a       *)
(* scheduler that is off keeps of earlier ticks is never read again.       *)
Begun(t) ==
  LET u == IF t.on THEN Due(t) ELSE t
  IN IF u.on THEN [u EXCEPT !.since = 0, !.flags = {}, !.show = TRUE, !.game = None, !.before = 0,
                            !.after = 0]
     ELSE [Cleared(FALSE) EXCEPT !.started = TRUE, !.next = Tick]

NewTick(t, d) ==
  /\ at \in {"head", "off"} /\ at' = "service" /\ s' = Begun(Pass(t, d))
  /\ ahead' = Drained(d) /\ did' = <<>>
  /\ UNCHANGED <<g, load, drift, dark>>
LoopHead ==
  LET t == [FinishPreviousTick(s) EXCEPT !.started = TRUE,
                                         !.next = IF s.started THEN @ ELSE 0]
  IN \/ ~(t.on /\ t.next > 0) /\ NewTick(t, 0) /\ UNCHANGED <<events, breach>>
     \/ t.on /\ t.next > 0 /\ UNCHANGED <<events, breach>> /\ \E o \in 0 .. MaxLate : NewTick(t, t.next + o)
     \/ t.on /\ t.next > 0 /\ Breach /\ NewTick(Off(t), 0)

-----------------------------------------------------------------------------
(* The hooks before Game::Update                                           *)
Service ==
  /\ at = "service" /\ Hook("service", Note(s, "service"), "dispatch")
  /\ UNCHANGED <<g, load, events, breach, ahead, drift, dark>>
Dispatch ==
  /\ at = "dispatch"
  /\ \E d \in Takes("service") :
       LET t == Note(Pass(s, d), "dispatch") IN
         /\ Spend("service", d) /\ ahead' = Drained(d)
         /\ Hook("dispatch", OffIf(t, "service" \notin t.flags), "entry")
  /\ UNCHANGED <<g, load, breach, drift, dark>>
ManagerEntry ==
  /\ at = "entry"
  /\ LET t == Note(s, "entry") IN
       Hook("entry",
            IF ~New(s, "entry") THEN t
            ELSE IF "dispatch" \notin t.flags THEN Off(t)
            ELSE [t EXCEPT !.counter = g.counter, !.interp = g.interp, !.game = g.game,
                           !.before = Frame(g), !.after = Frame(g)],
            "entered")
  /\ UNCHANGED <<g, load, events, breach, ahead, drift, dark>>

(* Continue makes an odd counter even, so that the game is updated in this *)
(* tick, and publishes a game where there was none                         *)
Untimely(t) == "entry" \notin t.flags \/ t.flags \cap {"begin", "gate"} # {}
CounterRebase ==
  /\ at = "entered" /\ ~Even(g.counter) /\ Event
  /\ g' = [g EXCEPT !.counter = Succ(@), !.playing = TRUE]
  /\ LET t == Note(s, "rebase") IN
       Hook("rebase",
            IF ~New(s, "rebase") \/ ~t.on THEN t
            ELSE IF Untimely(t) \/ g.counter # t.counter \/ Even(g.counter) THEN Off(t)
            ELSE [t EXCEPT !.counter = Succ(g.counter)],
            IF g.game = None THEN "publish" ELSE "begin")
  /\ UNCHANGED <<load, breach, ahead, drift, dark>>
GamePublish ==
  /\ \/ at = "publish" /\ UNCHANGED events
     \/ /\ at = "entered" /\ Even(g.counter) /\ g.game = None
        /\ Event
  /\ \E new \in Games : 
       LET t == Note(s, "publish") IN
         /\ g' = [g EXCEPT !.game = new, !.frame = 0, !.playing = TRUE]
         /\ Hook("publish",
                 IF ~New(s, "publish") \/ ~t.on THEN t
                 ELSE IF Untimely(t) \/ g.counter # t.counter \/ ~Even(g.counter) \/ t.game # None
                         \/ g.game # None
                      THEN Off(t)
                 ELSE [t EXCEPT !.game = new],
                 "begin")
  /\ UNCHANGED <<load, breach, ahead, drift, dark>>

-----------------------------------------------------------------------------
(* Game::Update.  When it must wait for its floor and an update and a      *)
(* render fit between two floors, the deadline of the next tick moves by   *)
(* the time slept: relative to the clock it stays where it was.            *)
Fits(t) == t.update = None \/ t.render = None \/ t.update + t.render < GameTick
Paced_GridStays(t, o) ==
  [Pass(t, t.floor + o) EXCEPT !.floor = GameTick - o, !.since = 0, !.before = Frame(g)]
Paced(t, o) ==
  [Pass(t, t.floor + o) EXCEPT !.floor = GameTick - o, !.since = 0, !.before = Frame(g),
                               !.next = IF Fits(t) THEN t.next ELSE @]
Unpaced_FromDeadline(t) == [t EXCEPT !.floor = @ + GameTick, !.since = 0, !.before = Frame(g)]
Unpaced(t) == [t EXCEPT !.floor = GameTick, !.since = 0, !.before = Frame(g)]

BeginChecked(t) ==
  LET u == [Note(t, "begin") EXCEPT !.site = "normal"]
  IN IF ~New(t, "begin") THEN Note(t, "begin")
     ELSE IF ~u.on THEN u
     ELSE OffIf(u, \/ "entry" \notin u.flags \/ g.counter # u.counter
                   \/ g.game = None \/ g.game # u.game
                   \/ ~Even(g.counter))
Updates == Even(g.counter) /\ g.playing
Starts(t, d) ==
  /\ Hook("begin", t, "update")
  /\ ahead' = Drained(d) + (IF t.on THEN GameTick ELSE 0)
GameUpdateBegin ==
  /\ at = "begin" \/ (at = "entered" /\ Updates)
  /\ LET t == BeginChecked(s) IN
       /\ drift' = (t.on /\ t.floor = Passed)
       /\ \/ ~t.on /\ Starts(t, 0) /\ UNCHANGED <<events, breach>>
          \/ t.on /\ t.floor <= 0 /\ Starts(Unpaced(t), 0) /\ UNCHANGED <<events, breach>>
          \/ /\ t.on /\ t.floor > 0 /\ UNCHANGED <<events, breach>>
             /\ \E o \in 0 .. MaxLate : Starts(Paced(t, o), t.floor + o)
          \/ t.on /\ t.floor > 0 /\ Breach /\ Starts(Off(t), 0)
  /\ UNCHANGED <<g, load, dark>>

(* A return that the schedule knows to leave the frame as it was           *)
EarlyReturn ==
  /\ at = "update" /\ at' = "left"
  /\ Event
  /\ s' = [s EXCEPT !.site = "accepted"]
  /\ \E play \in BOOLEAN : g' = [g EXCEPT !.playing = play]
  /\ UNCHANGED <<load, breach, ahead, drift, dark, did>>

EndChecked_Strict(t, x) ==
  LET u == [Note(t, "end") EXCEPT !.update = IF "begin" \in t.flags THEN t.since ELSE @,
                                  !.after = Frame(x)]
  IN IF ~New(t, "end") THEN Note(t, "end")
     ELSE IF ~u.on THEN u
     ELSE OffIf(u, \/ "begin" \notin u.flags
                   \/ x.game = None \/ x.game # u.game
                   \/ Frame(x) # (u.before + 1) % FrameMod)

EndChecked(t, x) ==
  LET u == [Note(t, "end") EXCEPT !.update = IF "begin" \in t.flags THEN t.since ELSE @,
                                  !.after = Frame(x)]
  IN IF ~New(t, "end") THEN Note(t, "end")
     ELSE IF ~u.on THEN u
     ELSE OffIf(u, \/ "begin" \notin u.flags
                   \/ x.game = None \/ x.game # u.game
                   \/ /\ Frame(x) # (u.before + 1) % FrameMod
                      /\ ~(u.site = "accepted" /\ Frame(x) = u.before))
GameUpdateEnd ==
  /\ at \in {"update", "left"}
  /\ g' = IF at = "update" THEN [g EXCEPT !.frame = (@ + 1) % FrameMod] ELSE g
  /\ \E d \in Takes("update") :
       /\ Spend("update", d) /\ ahead' = Drained(d)
       /\ Hook("end", EndChecked(Pass(s, d), g'), "gate")
  /\ UNCHANGED <<load, breach, drift, dark>>

(* A tick without an update.  In an interpolated one a load may restore    *)
(* the saved frame.                                                        *)
Idle ==
  /\ at = "entered" /\ ~Updates /\ at' = "gate"
  /\ \E d \in Takes("idle") :
       /\ s' = Pass(s, d) /\ ahead' = Drained(d)
       /\ \/ Spend("idle", d) /\ UNCHANGED g
          \/ /\ d = load["idle"] /\ Event
             /\ ~Even(g.counter) /\ \E f \in 0 .. FrameMod - 1 : g' = [g EXCEPT !.frame = f]
  /\ UNCHANGED <<load, breach, drift, dark, did>>

-----------------------------------------------------------------------------
(* The render gate                                                         *)
GateBreach(t, x) ==
  LET updated == t.flags \cap {"begin", "end"} IN
  \/ "entry" \notin t.flags
  \/ x.interp # t.interp /\ updated # {"begin", "end"}
  \/ Cardinality(updated) = 1
  \/ t.flags \cap {"rebase", "publish"} # {} /\ updated # {"begin", "end"}
  \/ x.counter # Succ(t.counter)
  \/ x.game # t.game
  \/ Frame(x) # t.after /\ ~(updated = {} /\ Even(x.counter))
  \/ Even(x.counter) /\ "begin" \in updated

TickDue(t) == t.next <= 0
Measured(t) == t.update # None /\ t.render # None
(* An interpolated frame would end after the floor of the next update      *)
Overruns(t) == t.floor > 0 /\ Measured(t) /\ t.render + t.update > t.floor
(* Skipping full frames gains nothing between one and one and a half       *)
(* periods                                                                 *)
RenderBound(t) ==
  Measured(t) /\ t.update + t.render \in GameTick .. GameTick + GameTick \div 2 - 1
Skips(t, x) ==
  IF Even(x.counter) THEN ~x.interp \/ TickDue(t) \/ Overruns(t)
  ELSE TickDue(t) /\ t.skips < MaxSkips /\ ~RenderBound(t)
Gated(t, x) ==
  LET u == [t EXCEPT !.interp = x.interp, !.after = Frame(x),
                     !.before = IF Frame(x) # t.after THEN Frame(x) ELSE @]
  IN [u EXCEPT !.show = ~Skips(u, x),
               !.skips = IF ~Skips(u, x) THEN 0 ELSE IF Even(x.counter) THEN @ ELSE @ + 1]

PlanRender(x) ==
  LET t == Note(s, "gate")
      u == IF ~New(s, "gate") \/ ~t.on THEN t
           ELSE IF GateBreach(t, x) THEN Off(t)
           ELSE Gated(t, x)
  IN /\ Hook("gate", u, IF u.show THEN "render" ELSE "limiter")
     /\ dark' = IF u.show THEN 0 ELSE dark + 1
(* The Manager counts the tick before it renders; an update may have       *)
(* changed whether frames are interpolated                                 *)
Gate ==
  /\ at = "gate"
  /\ \/ g' = [g EXCEPT !.counter = Succ(@)] /\ UNCHANGED events
     \/ /\ Event /\ "end" \in s.flags
        /\ g' = [g EXCEPT !.counter = Succ(@), !.interp = ~@]
  /\ PlanRender(g')
  /\ UNCHANGED <<load, breach, ahead, drift>>

-----------------------------------------------------------------------------
(* Render                                                                  *)
RenderEntry ==
  /\ at = "render"
  /\ LET t == Note(s, "render") IN
       Hook("render", [OffIf(t, ~t.show \/ "gate" \notin t.flags) EXCEPT !.since = 0], "body")
  /\ UNCHANGED <<g, load, events, breach, ahead, drift, dark>>
RenderBody ==
  /\ at = "body"
  /\ LET t == Note(s, "body") IN
       Hook("body",
            IF ~New(s, "body") \/ ~t.on THEN t
            ELSE OffIf(t, \/ "render" \notin t.flags \/ g.counter # Succ(t.counter)
                          \/ Even(g.counter) /\ ~g.interp
                          \/ g.interp # t.interp),
            "present")
  /\ UNCHANGED <<g, load, events, breach, ahead, drift, dark>>
Present ==
  /\ at = "present"
  /\ \E d \in Takes("render") :
       LET t == Note(Pass(s, d), "present") IN
         /\ Spend("render", d) /\ ahead' = Drained(d)
         /\ Hook("present", OffIf(t, "body" \notin t.flags), "return")
  /\ UNCHANGED <<g, load, breach, drift, dark>>
RenderReturn ==
  /\ at = "return"
  /\ LET t == Note(s, "return") IN
       Hook("return",
            [OffIf(t, "render" \notin t.flags) EXCEPT
               !.render = IF "render" \in t.flags THEN t.since ELSE @],
            "limiter")
  /\ UNCHANGED <<g, load, events, breach, ahead, drift, dark>>
(* The game's own limiter, unless the scheduler paces the loop             *)
Limiter ==
  /\ at = "limiter" /\ at' = "head"
  /\ s' = IF BypassLimiter THEN s ELSE Pass(s, Tick)
  /\ ahead' = IF BypassLimiter THEN ahead ELSE Drained(Tick)
  /\ UNCHANGED <<g, load, events, breach, drift, dark, did>>

-----------------------------------------------------------------------------
(* Between two ticks the game may begin, end, load or change its mode      *)
Change ==
  /\ at = "head" /\ Event
  /\ g' \in {h \in Guest : h.counter = g.counter /\ (h.playing => h.game # None)}
  /\ UNCHANGED <<at, s, load, breach, ahead, drift, dark, did>>

(* What the schedule does not allow: a hook is left out, called again or   *)
(* out of order, or the guest's state changes within a tick                *)
Slip ==
  /\ at # "off" /\ Breach
  /\ \/ at' \in Places \ {"off", at} /\ UNCHANGED g
     \/ /\ \E field \in {"counter", "game", "frame", "interp"} :
             g' \in {h \in Guest : \A k \in DOMAIN g \ {field} : h[k] = g[k]}
        /\ UNCHANGED at
  /\ UNCHANGED <<s, load, ahead, drift, dark, did>>

(* The backend is left, and activated again for a new session; until then  *)
(* the loop may go on.                                                     *)
Deactivate ==
  /\ at = "head" /\ at' = "off" /\ Event
  /\ s' = Cleared(FALSE) /\ ahead' = 0 /\ did' = <<>>
  /\ UNCHANGED <<g, load, breach, drift, dark>>
Reset ==
  /\ at = "off" /\ at' = "head" /\ s' = Cleared(TRUE) /\ dark' = 0
  /\ UNCHANGED <<g, load, events, breach, ahead, drift, did>>

Next ==
  \/ LoopHead \/ Service \/ Dispatch \/ ManagerEntry \/ CounterRebase \/ GamePublish
  \/ GameUpdateBegin \/ EarlyReturn \/ GameUpdateEnd \/ Idle \/ Gate
  \/ RenderEntry \/ RenderBody \/ Present \/ RenderReturn \/ Limiter
  \/ Change \/ Slip \/ Deactivate \/ Reset

Spec == Init /\ [][Next]_vars
(* The game's loop goes on                                                 *)
FairSpec == Spec /\ WF_vars(Next)

-----------------------------------------------------------------------------
(* Properties                                                              *)

Hooks == {"service", "dispatch", "entry", "rebase", "publish", "begin", "end", "gate",
          "render", "body", "present", "return"}
TypeOK ==
  /\ at \in Places
  /\ s \in [on : BOOLEAN, started : BOOLEAN, next : Int, last : Int \cup {None}, floor : Int,
            since : Nat, update : Nat \cup {None}, render : Nat \cup {None}, flags : SUBSET Hooks,
            show : BOOLEAN, counter : 0 .. CounterMod - 1, interp : BOOLEAN,
            game : Games \cup {None}, before : 0 .. FrameMod - 1, after : 0 .. FrameMod - 1,
            site : {"normal", "accepted"}, skips : 0 .. MaxSkips]
  /\ g \in Guest
  /\ load \in Loads /\ events \in 0 .. MaxEvents /\ breach \in BOOLEAN
  /\ ahead \in Nat /\ drift \in BOOLEAN /\ dark \in Nat /\ did \in Seq(Hooks)

(* However late the loop is, and however a game begins, ends, loads or     *)
(* pauses, the checks do not take it for a breach: the schedule stays on.  *)
KeepsCadence ==
  [][s.on /\ ~s'.on => at' = "off" \/ breach']_vars

(* A whole tick of the game, in the order of the generated code            *)
Order ==
  {<<"service", "dispatch">>, <<"dispatch", "entry">>, <<"entry", "rebase">>,
   <<"entry", "publish">>, <<"rebase", "publish">>, <<"rebase", "begin">>, <<"publish", "begin">>,
   <<"entry", "begin">>, <<"begin", "end">>, <<"end", "gate">>, <<"entry", "gate">>,
   <<"gate", "render">>, <<"render", "body">>, <<"body", "present">>, <<"render", "return">>}
Legal(d) ==
  LET H == {d[i] : i \in DOMAIN d} IN
    /\ {"service", "dispatch", "entry", "gate"} \subseteq H
    /\ "rebase" \in H \/ "publish" \in H => "begin" \in H
    /\ "begin" \in H <=> "end" \in H
    /\ "render" \in H => {"body", "present", "return"} \subseteq H
    /\ \A i, j \in DOMAIN d : i <= j => <<d[j], d[i]>> \notin Order /\ (d[i] = d[j] => i = j)

(* A tick whose hooks came twice, in another order or not at all is noticed*)
(* before the next one; from then on every frame is rendered, until the    *)
(* backend is activated again.                                             *)
FailsOpen ==
  [][/\ at = "head" /\ at' = "service" /\ breach' = breach /\ s.started /\ s'.on => Legal(did)
     /\ s'.on => s.on \/ at = "off"
     /\ dark' > dark => s.on]_vars

(* "hard minimum spacing between Game::Update calls": after a stall of any *)
(* length, lost time is never made up by updates in rapid succession.  Any *)
(* run of updates is ahead of 30 Hz by one update and one late wake-up at  *)
(* most.                                                                   *)
NoBurst == ahead <= GameTick + MaxLate

(* What is overdue at the loop head stays below MaxDue ticks, and however  *)
(* late the loop is, a frame is rendered after MaxSkips skipped full ones  *)
(* and the interpolated ones between them.                                 *)
Bounded ==
  /\ at = "service" /\ did = <<>> /\ s.on /\ s.last # None => -s.last < MaxDue * Tick
  /\ ~breach => dark <= 2 * MaxSkips + 1

(* "No offset band and no stall/overshoot combination breaks alignment":   *)
(* whatever stalled before, a game whose two ticks fit a period, with two  *)
(* late wake-ups to spare, comes to render every full frame and to update  *)
(* within two late wake-ups of its floor; one whose update and render take *)
(* between one and one and a half periods comes to render every full frame.*)
FitsPeriod ==
  2 * load.service + load.update + load.idle + load.render + 2 * MaxLate <= GameTick
BoundByRender ==
  load.update + load.render \in GameTick .. GameTick + GameTick \div 2 - 1
Settles ==
  /\ FitsPeriod => <>[](s.on /\ g.playing => s.skips = 0 /\ ~drift)
  /\ BoundByRender => <>[](s.on /\ g.playing => s.skips = 0)
=============================================================================
