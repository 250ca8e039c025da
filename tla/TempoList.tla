----------------------------- MODULE TempoList -----------------------------
(***************************************************************************)
(* The software timers of the ROM services (obj_svctempo.c): the list that *)
(* the tick of the system timer walks, and the list of new timers that     *)
(* keeps a Create made by a callback away from that walk.                  *)
(*                                                                         *)
(* The tick runs in an interrupt: the main program makes its calls between *)
(* ticks, none of them is interrupted half-way.                            *)
(* What the service stores in pPreviousTempo is never read and is left     *)
(* out.  Where the code uses the null pointer as a timer, it is assumed to *)
(* find none behind it and to change none.                                 *)
(***************************************************************************)
EXTENDS Naturals, FiniteSets, SvcTempo

CONSTANTS
  Timers,     \* the timers of the program
  Nil,        \* the null pointer
  Starts,     \* for each timer, the timeouts and reload values Start is called with
  MaxCalls    \* the calls of the service one callback makes

ASSUME TempoAssumption ==
  /\ Nil \notin Timers /\ IsFiniteSet(Timers)
  /\ Starts \in [Timers -> SUBSET (Nat \X Nat)] /\ MaxCalls \in Nat

VARIABLES
  first,      \* pFirstTempo, the list the tick walks
  new,        \* pNewTempo, the timers created since the last tick
  next,       \* pNextTempo of each timer
  timer,      \* the other fields of each timer
  at,         \* where the tick is: "idle", "notify", or in a "callback"
  cursor,     \* pCurrentTempo of the tick
  calls,      \* the calls the running callback may still make
  member,     \* history: the timers created and not removed
  waiting,    \* history: the timers this tick still has to notify
  age,        \* history: ticks since each timer was started or last fired
  want        \* history: the ticks after which it should fire

lists == <<first, new, next>>
past  == <<member, waiting>>
clock == <<age, want>>
walk  == <<at, cursor, calls>>
vars  == <<lists, timer, walk, past, clock>>
-----------------------------------------------------------------------------
\* What a walk along pNextTempo from h meets, Nil included if it ends.
Met(h) ==
  LET step[i \in 0..Cardinality(Timers)] ==
        IF i = 0 THEN h ELSE IF step[i - 1] = Nil THEN Nil ELSE next[step[i - 1]]
  IN  {step[i] : i \in 0..Cardinality(Timers)}

Listed(h) == Met(h) \ {Nil}

\* Mutation: only the first list is searched.
UnlistedFirst(t) == t \notin Listed(first)

\* Create searches both lists.
Unlisted(t) == t \notin Listed(first) \cup Listed(new)

Init ==
  /\ first = Nil /\ new = Nil /\ next = [t \in Timers |-> Nil]
  /\ timer = [t \in Timers |-> Created]
  /\ at = "idle" /\ cursor = Nil /\ calls = 0
  /\ member = {} /\ waiting = {}
  /\ age = [t \in Timers |-> 0] /\ want = [t \in Timers |-> 0]
-----------------------------------------------------------------------------
(* The calls.                                                              *)

\* Create initialises a timer and puts it into a list, if it is in none: a
\* tick that is walking the first list must not meet it.
Create(t) ==
  /\ IF Unlisted(t)
     THEN /\ timer' = [timer EXCEPT ![t] = Created]
          /\ first' = IF first = Nil THEN t ELSE first
          /\ new' = IF first = Nil THEN new ELSE t
          /\ next' = [next EXCEPT ![t] = IF first = Nil THEN Nil ELSE new]
     ELSE UNCHANGED <<timer, first, new, next>>
  /\ member' = member \cup {t}
  /\ UNCHANGED <<waiting, clock>>

\* Remove searches the first list only.
RemoveFound(t) ==
  /\ t \in Listed(first)
  /\ first' = IF first = t THEN next[t] ELSE first
  /\ next' = [u \in Timers |->
       IF u \in Listed(first) /\ next[u] = t THEN next[t] ELSE next[u]]
  /\ member' = member \ {t} /\ waiting' = waiting \ {t}
  /\ UNCHANGED <<new, timer, clock>>

RemoveRefused(t) ==
  t \notin Listed(first) /\ UNCHANGED <<lists, timer, past, clock>>

\* A timeout of 0 fires on the next tick, as one of 1 does.
Start(t) ==
  \E start \in Starts[t] : LET timeout == start[1]  reload == start[2] IN
    /\ timer' = [timer EXCEPT ![t] = Started(timeout, reload, "callback")]
    /\ age' = [age EXCEPT ![t] = 0]
    /\ want' = [want EXCEPT ![t] = IF timeout = 0 THEN 1 ELSE timeout]
    /\ UNCHANGED <<lists, past>>

Stop(t) ==
  /\ timer' = [timer EXCEPT ![t] = Stopped(@)]
  /\ UNCHANGED <<lists, past, clock>>

\* Nothing is called for a timer before its first Create has returned, and
\* a timer is started and stopped only while it is created.
Call(t) ==
  \/ Create(t)
  \/ RemoveFound(t)
  \/ RemoveRefused(t)
  \/ t \in member /\ (Start(t) \/ Stop(t))
-----------------------------------------------------------------------------
MainCalls == at = "idle" /\ (\E t \in Timers : Call(t)) /\ UNCHANGED walk

\* Mutations: the new list replaces the list; it is linked to itself.
BehindNothing(u) == Nil
BehindItself(u) == new

\* What the end of the new list is linked to: the list.
Behind(u) == first

\* The tick puts the new timers before the others and starts its walk.
TickBegins ==
  /\ at = "idle" /\ at' = "notify"
  /\ first' = IF new = Nil THEN first ELSE new
  /\ next' = [u \in Timers |->
       IF u \in Listed(new) /\ next[u] = Nil THEN Behind(u) ELSE next[u]]
  /\ new' = Nil
  /\ cursor' = first'
  /\ waiting' = member
  /\ age' = [t \in Timers |->
       IF t \in member /\ timer[t].flag = "EN" THEN age[t] + 1 ELSE age[t]]
  /\ UNCHANGED <<timer, calls, member, want>>

\* A timer that does not fire is counted down.
TickCounts ==
  /\ at = "notify" /\ cursor # Nil /\ ~Fires(timer[cursor])
  /\ timer' = [timer EXCEPT ![cursor] = Ticked(@)]
  /\ waiting' = waiting \ {cursor}
  /\ cursor' = next[cursor]
  /\ UNCHANGED <<lists, at, calls, member, clock>>

\* One that fires is reloaded or disabled before its callback runs.
TickFires ==
  /\ at = "notify" /\ cursor # Nil /\ Fires(timer[cursor])
  /\ at' = "callback" /\ calls' = MaxCalls
  /\ timer' = [timer EXCEPT ![cursor] = Ticked(@)]
  /\ waiting' = waiting \ {cursor}
  /\ age' = [age EXCEPT ![cursor] = 0]
  /\ want' = [want EXCEPT ![cursor] = timer[cursor].reload]
  /\ UNCHANGED <<lists, cursor, member>>

CallbackCalls ==
  /\ at = "callback" /\ calls > 0
  /\ \E t \in Timers : Call(t)
  /\ calls' = calls - 1
  /\ UNCHANGED <<at, cursor>>

\* The next timer is looked up after the callback.
CallbackReturns ==
  /\ at = "callback"
  /\ at' = "notify" /\ calls' = 0 /\ cursor' = next[cursor]
  /\ UNCHANGED <<lists, timer, past, clock>>

TickReturns ==
  /\ at = "notify" /\ cursor = Nil
  /\ at' = "idle" /\ waiting' = {}
  /\ UNCHANGED <<lists, timer, cursor, calls, member, clock>>

TickGoesOn == TickCounts \/ TickFires \/ CallbackReturns \/ TickReturns

Tick == TickBegins \/ TickGoesOn

Next == MainCalls \/ Tick \/ CallbackCalls

Spec == Init /\ [][Next]_vars
-----------------------------------------------------------------------------
\* The variables have their types.
TypeOK ==
  /\ first \in Timers \cup {Nil} /\ new \in Timers \cup {Nil}
  /\ next \in [Timers -> Timers \cup {Nil}]
  /\ \A t \in Timers :
       /\ timer[t].flag \in {"DIS", "EN"}
       /\ timer[t].tick \in Nat /\ timer[t].reload \in Nat
       /\ timer[t].callback \in {NoCallback, "callback"}
  /\ cursor \in Timers \cup {Nil}
  /\ at \in {"idle", "notify", "callback"} /\ calls \in 0..MaxCalls
  /\ member \subseteq Timers /\ waiting \subseteq Timers
  /\ age \in [Timers -> Nat] /\ want \in [Timers -> Nat]

\* The two lists share no timer, both end, and together they hold exactly
\* the timers that were created and not removed, whoever created and removed
\* them, the tick's own callbacks included (CtlTempoCreate, CtlTempoRemove).
MembersListed ==
  /\ Listed(first) \cap Listed(new) = {}
  /\ Listed(first) \cup Listed(new) = member
  /\ first # Nil => \E t \in Listed(first) : next[t] = Nil
  /\ new # Nil => \E t \in Listed(new) : next[t] = Nil

\* "Notify all the Tempo elements": the walk meets every timer that was there
\* when the tick began and was not removed, although callbacks change the list
\* under it, and it meets none twice (CtlTempoTick).
AllNotified ==
  /\ at = "notify" /\ cursor = Nil => waiting = {}
  /\ at = "notify" /\ cursor # Nil => cursor \in waiting

\* A timer fires on the tick its timeout or its reload value names; one that
\* is started by a callback may be met by the same tick and is then one early.
FiresOnTime ==
  at = "notify" /\ cursor # Nil /\ Fires(timer[cursor]) =>
    age[cursor] \in {want[cursor], want[cursor] - 1}

\* After a tick no enabled timer is overdue.
NoneOverdue ==
  at = "idle" => \A t \in member : timer[t].flag = "EN" => age[t] < want[t]

\* The tick ends, whatever its callbacks do to the list it walks: each of its steps
\* brings the end nearer (CtlTempoTick, with interrupts off until it returns).
StepsLeft == (MaxCalls + 2) * Cardinality(waiting) + (IF at = "callback" THEN calls + 1 ELSE 0)

TickNearsEnd == [][at # "idle" => at' = "idle" \/ StepsLeft' < StepsLeft]_vars
=============================================================================
