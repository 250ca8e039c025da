-------------------------- MODULE TempoListProofs --------------------------
(***************************************************************************)
(* Proofs about the software timers, for any timers, timeouts, reload      *)
(* values and numbers of calls: the types of the variables; that the two   *)
(* lists hold the members, each once, and end; that the tick notifies each *)
(* of them once and comes to its end, whatever its callbacks do to the     *)
(* list (as long as one that has removed its own timer leaves the walk     *)
(* alone, which one call cannot break); and that timers fire on time.      *)
(***************************************************************************)
EXTENDS TempoList, FiniteSetTheorems, WellFoundedInduction, TLAPS

Record == [flag : {"DIS", "EN"}, tick : Nat, reload : Nat, callback : {NoCallback, "callback"}]

\* The types, the timers as records; a callback belongs to a timer, and only members
\* are still to be notified.
Types ==
  /\ TypeOK /\ timer \in [Timers -> Record]
  /\ at = "callback" => cursor # Nil
  /\ waiting \subseteq member /\ (at = "idle" => waiting = {})

LEMMA TimerTypes ==
  /\ Created \in Record
  /\ \A timeout, reload \in Nat : Started(timeout, reload, "callback") \in Record
  /\ \A t \in Record : Stopped(t) \in Record /\ Ticked(t) \in Record
<1>1. ASSUME NEW t \in Record PROVE Stopped(t) \in Record /\ Ticked(t) \in Record
  <2>1. Counted(t) \in Nat
    BY DEF Counted, Record
  <2>2. QED
    BY <2>1 DEF Stopped, Ticked, Record
<1>2. QED
  BY <1>1 DEF Created, Started, Record

LEMMA StartTypes ==
  ASSUME NEW t \in Timers, NEW start \in Starts[t]
  PROVE  start[1] \in Nat /\ start[2] \in Nat
BY TempoAssumption

LEMMA CallTypes == ASSUME Types, NEW t \in Timers, Call(t), UNCHANGED <<at, cursor>>,
                          calls' \in 0..MaxCalls
                   PROVE  Types'
<1> USE DEF Types, TypeOK, lists, past, clock
<1>1. ASSUME timer' \in [Timers -> Record]
      PROVE  \A u \in Timers : /\ timer'[u].flag \in {"DIS", "EN"}
                               /\ timer'[u].tick \in Nat /\ timer'[u].reload \in Nat
                               /\ timer'[u].callback \in {NoCallback, "callback"}
  BY <1>1 DEF Record
<1>2. CASE Create(t)
  <2>1. timer' \in [Timers -> Record]
    BY <1>2, TimerTypes DEF Create
  <2>2. /\ first' \in Timers \cup {Nil} /\ new' \in Timers \cup {Nil}
        /\ next' \in [Timers -> Timers \cup {Nil}]
    BY <1>2 DEF Create
  <2>3. QED
    BY <1>1, <1>2, <2>1, <2>2 DEF Create
<1>3. CASE RemoveFound(t)
  <2>1. first' \in Timers \cup {Nil} /\ next' \in [Timers -> Timers \cup {Nil}]
    BY <1>3 DEF RemoveFound
  <2>2. QED
    BY <1>1, <1>3, <2>1 DEF RemoveFound
<1>4. CASE RemoveRefused(t)
  BY <1>4 DEF RemoveRefused
<1>5. CASE Start(t)
  <2>1. PICK start \in Starts[t] :
          /\ timer' = [timer EXCEPT ![t] = Started(start[1], start[2], "callback")]
          /\ age' = [age EXCEPT ![t] = 0]
          /\ want' = [want EXCEPT ![t] = IF start[1] = 0 THEN 1 ELSE start[1]]
          /\ UNCHANGED <<lists, past>>
    BY <1>5 DEF Start
  <2>2. timer' \in [Timers -> Record]
    BY <2>1, StartTypes, TimerTypes
  <2>3. age' \in [Timers -> Nat] /\ want' \in [Timers -> Nat]
    BY <2>1, StartTypes
  <2>4. QED
    BY <1>1, <2>1, <2>2, <2>3
<1>6. CASE Stop(t)
  <2>1. timer' \in [Timers -> Record]
    BY <1>6, TimerTypes DEF Stop
  <2>2. QED
    BY <1>1, <1>6, <2>1 DEF Stop
<1>7. QED
  BY <1>2, <1>3, <1>4, <1>5, <1>6 DEF Call

LEMMA TickTypes == Types /\ Tick => Types'
<1> SUFFICES ASSUME Types, Tick PROVE Types'
  OBVIOUS
<1> USE DEF Types, TypeOK, lists, past, clock
<1>1. ASSUME timer' \in [Timers -> Record]
      PROVE  \A u \in Timers : /\ timer'[u].flag \in {"DIS", "EN"}
                               /\ timer'[u].tick \in Nat /\ timer'[u].reload \in Nat
                               /\ timer'[u].callback \in {NoCallback, "callback"}
  BY <1>1 DEF Record
<1>2. CASE TickBegins
  <2>1. first' \in Timers \cup {Nil} /\ next' \in [Timers -> Timers \cup {Nil}]
    BY <1>2 DEF TickBegins, Behind
  <2>2. age' \in [Timers -> Nat]
    BY <1>2 DEF TickBegins
  <2>3. QED
    BY <1>2, <2>1, <2>2 DEF TickBegins
<1>3. CASE TickCounts
  <2>1. cursor \in Timers /\ timer' \in [Timers -> Record]
    BY <1>3, TimerTypes DEF TickCounts
  <2>2. QED
    BY <1>1, <1>3, <2>1 DEF TickCounts
<1>4. CASE TickFires
  <2>1. cursor \in Timers /\ timer' \in [Timers -> Record] /\ timer[cursor].reload \in Nat
    BY <1>4, TimerTypes DEF TickFires
  <2>2. age' \in [Timers -> Nat] /\ want' \in [Timers -> Nat] /\ MaxCalls \in 0..MaxCalls
    BY <1>4, <2>1, TempoAssumption DEF TickFires
  <2>3. QED
    BY <1>1, <1>4, <2>1, <2>2 DEF TickFires
<1>5. CASE CallbackReturns
  BY <1>5, TempoAssumption DEF CallbackReturns
<1>6. CASE TickReturns
  BY <1>6 DEF TickReturns
<1>7. QED
  BY <1>2, <1>3, <1>4, <1>5, <1>6 DEF Tick, TickGoesOn

LEMMA InitialTypes == Init => Types
BY TempoAssumption, TimerTypes DEF Init, Types, TypeOK, Created

LEMMA StepTypes == Types /\ [Next]_vars => Types'
<1> SUFFICES ASSUME Types, [Next]_vars PROVE Types'
  OBVIOUS
<1>1. CASE MainCalls
  <2>1. PICK t \in Timers : Call(t)
    BY <1>1 DEF MainCalls
  <2>2. UNCHANGED <<at, cursor>> /\ calls' \in 0..MaxCalls
    BY <1>1 DEF MainCalls, walk, Types, TypeOK
  <2>3. QED
    BY <2>1, <2>2, CallTypes
<1>2. CASE CallbackCalls
  <2>1. PICK t \in Timers : Call(t)
    BY <1>2 DEF CallbackCalls
  <2>2. UNCHANGED <<at, cursor>> /\ calls' \in 0..MaxCalls
    BY <1>2, TempoAssumption DEF CallbackCalls, Types, TypeOK
  <2>3. QED
    BY <2>1, <2>2, CallTypes
<1>3. CASE UNCHANGED vars
  BY <1>3 DEF vars, lists, past, clock, walk, Types, TypeOK
<1>4. QED
  BY <1>1, <1>2, <1>3, TickTypes DEF Next

\* Every variable of the timer service stays in its type.
THEOREM TypeCorrect == Spec => []TypeOK
<1>1. Types => TypeOK
  BY DEF Types
<1>2. QED
  BY <1>1, InitialTypes, StepTypes, PTL DEF Spec
-----------------------------------------------------------------------------
(* Lists, as sets of timers with ranks: the walk goes from the highest     *)
(* rank to the lowest.                                                     *)

Ranks == [Timers -> Nat]
Under(r, S, k) == {t \in S : r[t] < k}
IsTop(r, S, h) == IF S = {} THEN h = Nil ELSE h \in S /\ \A t \in S \ {h} : r[t] < r[h]

\* A walk from h meets the timers of S, in the order of their ranks.
Ordered(r, nx, S, h) ==
  /\ \A t \in S : \A u \in S : r[t] = r[u] => t = u
  /\ IsTop(r, S, h)
  /\ \A t \in S : IsTop(r, Under(r, S, r[t]), nx[t])

\* What is left of the list at one of its timers, or at its end.
From(r, S, v) == {t \in S : v # Nil /\ r[t] <= r[v]}

LEMMA FromHead ==
  ASSUME NEW r \in Ranks, NEW S \in SUBSET Timers, NEW h, Ordered(r, next, S, h)
  PROVE  h \in S \cup {Nil} /\ From(r, S, h) = S
BY TempoAssumption DEF Ordered, IsTop, From, Ranks

LEMMA FromNext ==
  ASSUME NEW r \in Ranks, NEW S \in SUBSET Timers, NEW h, Ordered(r, next, S, h), NEW v \in S
  PROVE  /\ next[v] \in S \cup {Nil} /\ v \in From(r, S, v)
         /\ From(r, S, next[v]) = From(r, S, v) \ {v}
<1>1. v # Nil /\ v \in From(r, S, v) /\ IsTop(r, Under(r, S, r[v]), next[v])
  BY TempoAssumption DEF Ordered, From, Ranks
<1>2. Under(r, S, r[v]) = From(r, S, v) \ {v}
  BY <1>1 DEF Ordered, Under, From, Ranks
<1>3. next[v] \in S \cup {Nil} /\ From(r, S, next[v]) = Under(r, S, r[v])
  <2>1. CASE Under(r, S, r[v]) = {}
    BY <1>1, <2>1 DEF IsTop, From
  <2>2. CASE Under(r, S, r[v]) # {}
    <3>1. /\ next[v] \in Under(r, S, r[v]) /\ next[v] # Nil
          /\ \A t \in Under(r, S, r[v]) \ {next[v]} : r[t] < r[next[v]]
      BY <1>1, <2>2, TempoAssumption DEF IsTop, Under
    <3>2. QED
      BY <3>1 DEF From, Under, Ranks
  <2>3. QED
    BY <2>1, <2>2
<1>4. QED
  BY <1>1, <1>2, <1>3

\* The function whose values Met collects.
Walking(f, h, k) ==
  f = [i \in 0..k |-> IF i = 0 THEN h ELSE IF f[i - 1] = Nil THEN Nil ELSE next[f[i - 1]]]

LEMMA Least ==
  ASSUME NEW T, T \subseteq Nat, T # {}
  PROVE  \E n \in T : \A m \in T : ~(m < n)
<1>1. PICK n \in T : \A m \in T : ~(<<m, n>> \in OpToRel(<, Nat))
  BY NatLessThanWellFounded, WFMin, Zenon
<1>2. \A m \in T : m < n => <<m, n>> \in OpToRel(<, Nat)
  BY Zenon DEF OpToRel
<1>3. QED
  BY <1>1, <1>2

LEMMA SetInduction ==
  ASSUME NEW T, 0 \in T, \A n \in Nat : n \in T => n + 1 \in T
  PROVE  Nat \subseteq T
<1> SUFFICES ASSUME Nat \ T # {} PROVE FALSE
  OBVIOUS
<1>1. PICK n \in Nat \ T : \A m \in Nat \ T : ~(m < n)
  BY Least
<1>2. n # 0 /\ n - 1 \in Nat /\ n - 1 < n /\ (n - 1) + 1 = n
  BY <1>1
<1>3. QED
  BY <1>1, <1>2

LEMMA WalkingExists == ASSUME NEW h PROVE \A k \in Nat : \E f : Walking(f, h, k)
<1> DEFINE T == {k \in Nat : \E f : Walking(f, h, k)}
           After(v) == IF v = Nil THEN Nil ELSE next[v]
<1>1. 0 \in T
  <2>1. Walking([i \in 0..0 |-> h], h, 0)
    BY DEF Walking
  <2>2. QED
    BY <2>1
<1>2. ASSUME NEW k \in Nat, k \in T PROVE k + 1 \in T
  <2>1. PICK f : Walking(f, h, k)
    BY <1>2
  <2> DEFINE g == [i \in 0..(k + 1) |-> IF i = k + 1 THEN After(f[k]) ELSE f[i]]
  <2>2. ASSUME NEW i \in 0..(k + 1) PROVE g[i] = IF i = 0 THEN h ELSE After(g[i - 1])
    <3>1. CASE i = k + 1
      <4>1. i - 1 = k /\ k \in 0..(k + 1) /\ i # 0 /\ k # k + 1
        BY <3>1
      <4>2. g[k] = f[k] /\ g[i] = After(f[k])
        BY <3>1, <4>1
      <4>3. QED
        BY <4>1, <4>2
    <3>2. CASE i # k + 1
      <4>1. i \in 0..k /\ g[i] = f[i]
        BY <3>2
      <4>2. f[i] = IF i = 0 THEN h ELSE After(f[i - 1])
        BY <2>1, <4>1 DEF Walking
      <4>3. i # 0 => i - 1 \in 0..(k + 1) /\ i - 1 # k + 1
        BY <4>1
      <4>4. i # 0 => g[i - 1] = f[i - 1]
        BY <4>3
      <4>5. QED
        BY <4>1, <4>2, <4>4
    <3>3. QED
      BY <3>1, <3>2
  <2>3. g = [i \in 0..(k + 1) |-> g[i]]
    OBVIOUS
  <2>4. [i \in 0..(k + 1) |-> g[i]]
          = [i \in 0..(k + 1) |-> IF i = 0 THEN h ELSE After(g[i - 1])]
    BY <2>2, Zenon
  <2> HIDE DEF g
  <2>5. Walking(g, h, k + 1)
    BY <2>3, <2>4, Zenon DEF Walking
  <2>6. QED
    BY <2>5
<1> HIDE DEF T
<1>3. Nat \subseteq T
  BY <1>1, <1>2, SetInduction
<1>4. QED
  BY <1>3 DEF T

LEMMA MetIs ==
  ASSUME NEW h
  PROVE  \E f : /\ Walking(f, h, Cardinality(Timers))
                /\ Met(h) = {f[i] : i \in 0..Cardinality(Timers)}
<1>1. Cardinality(Timers) \in Nat
  BY TempoAssumption, FS_CardinalityType
<1>2. \E f : Walking(f, h, Cardinality(Timers))
  BY <1>1, WalkingExists
<1>3. QED
  BY <1>2 DEF Met, Walking

LEMMA ListedIs ==
  ASSUME NEW r \in Ranks, NEW S \in SUBSET Timers, NEW h, Ordered(r, next, S, h)
  PROVE  Listed(h) = S
<1> DEFINE N == Cardinality(Timers)
<1>1. N \in Nat /\ IsFiniteSet(S) /\ Cardinality(S) <= N /\ Nil \notin S
  BY TempoAssumption, FS_CardinalityType, FS_Subset
<1>2. PICK f : Walking(f, h, N) /\ Met(h) = {f[i] : i \in 0..N}
  BY MetIs
<1> DEFINE Gone(i) == /\ f[i] \in S \cup {Nil}
                      /\ S \subseteq {f[j] : j \in 0..i} \cup From(r, S, f[i])
                      /\ f[i] = Nil \/ Cardinality(From(r, S, f[i])) + i <= N
           T == {i \in Nat : i <= N => Gone(i)}
<1> HIDE DEF N
<1>3. f[0] = h /\ \A i \in 1..N : f[i] = IF f[i - 1] = Nil THEN Nil ELSE next[f[i - 1]]
  BY <1>1, <1>2 DEF Walking
<1>4. 0 \in T
  BY <1>1, <1>3, FromHead, FS_CardinalityType
<1>5. ASSUME NEW i \in Nat, i \in T, i + 1 <= N PROVE Gone(i + 1)
  <2>1. Gone(i) /\ f[i + 1] = IF f[i] = Nil THEN Nil ELSE next[f[i]]
    BY <1>1, <1>3, <1>5
  <2> DEFINE been(n) == {f[j] : j \in 0..n}
  <2>2. been(i) \subseteq been(i + 1) /\ f[i] \in been(i + 1)
    OBVIOUS
  <2> HIDE DEF been
  <2>3. CASE f[i] = Nil
    <3>1. From(r, S, f[i]) = {} /\ f[i + 1] = Nil
      BY <2>1, <2>3 DEF From
    <3>2. S \subseteq been(i)
      BY <2>1, <3>1 DEF been
    <3>3. QED
      BY <2>2, <3>1, <3>2 DEF been
  <2>4. CASE f[i] \in S
    <3>1. /\ f[i + 1] = next[f[i]] /\ next[f[i]] \in S \cup {Nil} /\ f[i] \in From(r, S, f[i])
          /\ From(r, S, f[i + 1]) = From(r, S, f[i]) \ {f[i]}
      BY <1>1, <2>1, <2>4, FromNext
    <3>2. S \subseteq been(i + 1) \cup From(r, S, f[i + 1])
      BY <2>1, <2>2, <3>1 DEF been
    <3>3. IsFiniteSet(From(r, S, f[i]))
      BY <1>1, FS_Subset DEF From
    <3>4. Cardinality(From(r, S, f[i + 1])) = Cardinality(From(r, S, f[i])) - 1
      <4> DEFINE D == From(r, S, f[i])
                 v == f[i]
      <4>1. IsFiniteSet(D) /\ v \in D
        BY <3>1, <3>3
      <4> HIDE DEF D, v
      <4>2. Cardinality(D \ {v}) = Cardinality(D) - 1
        BY <4>1, FS_RemoveElement
      <4>3. QED
        BY <3>1, <4>2 DEF D, v
    <3>5. Cardinality(From(r, S, f[i])) \in Nat /\ Cardinality(From(r, S, f[i])) + i <= N
      BY <1>1, <2>1, <2>4, <3>3, FS_CardinalityType
    <3>6. QED
      BY <1>1, <3>1, <3>2, <3>4, <3>5 DEF been
  <2>5. QED
    BY <2>1, <2>3, <2>4
<1>6. \A i \in Nat : i \in T => i + 1 \in T
  BY <1>1, <1>5
<1>7. Nat \subseteq T
  <2> HIDE DEF T
  <2>1. QED
    BY <1>4, <1>6, SetInduction
<1>8. \A i \in 0..N : Gone(i)
  BY <1>1, <1>7
<1>9. S \subseteq {f[i] : i \in 0..N}
  <2>1. Gone(N)
    BY <1>1, <1>8
  <2>2. CASE f[N] = Nil
    BY <2>1, <2>2 DEF From
  <2>3. CASE f[N] \in S
    <3>1. IsFiniteSet(From(r, S, f[N])) /\ f[N] \in From(r, S, f[N])
      BY <1>1, <2>3, FromNext, FS_Subset DEF From
    <3>2. Cardinality(From(r, S, f[N])) \in Nat /\ Cardinality(From(r, S, f[N])) <= 0
      BY <1>1, <2>1, <2>3, <3>1, FS_CardinalityType
    <3>3. QED
      BY <3>1, <3>2, FS_EmptySet
  <2>4. QED
    BY <2>1, <2>2, <2>3
<1>10. QED
  BY <1>1, <1>2, <1>8, <1>9 DEF Listed, N
-----------------------------------------------------------------------------
(* What the service does to a list.                                        *)

LEMMA OrderedElsewhere ==
  ASSUME NEW r \in Ranks, NEW nx, NEW S \in SUBSET Timers, NEW h, Ordered(r, nx, S, h),
         NEW r2, NEW nx2, \A t \in S : r2[t] = r[t] /\ nx2[t] = nx[t]
  PROVE  Ordered(r2, nx2, S, h)
<1>1. \A t \in S : Under(r2, S, r2[t]) = Under(r, S, r[t])
  BY DEF Under
<1>2. \A T \in SUBSET S : \A v : IsTop(r, T, v) => IsTop(r2, T, v)
  BY DEF IsTop
<1>3. \A t \in S : Under(r, S, r[t]) \in SUBSET S
  BY DEF Under
<1>4. QED
  BY <1>1, <1>2, <1>3 DEF Ordered

LEMMA OrderedAdd ==
  ASSUME NEW r \in Ranks, NEW nx \in [Timers -> Timers \cup {Nil}], NEW S \in SUBSET Timers,
         NEW h, Ordered(r, nx, S, h), NEW t \in Timers, t \notin S,
         NEW B \in Nat, \A u \in Timers : r[u] < B
  PROVE  Ordered([r EXCEPT ![t] = B], [nx EXCEPT ![t] = h], S \cup {t}, t)
<1> DEFINE r2 == [r EXCEPT ![t] = B]
           nx2 == [nx EXCEPT ![t] = h]
           S2 == S \cup {t}
<1>1. /\ r2[t] = B /\ nx2[t] = h
      /\ \A u \in S : r2[u] = r[u] /\ nx2[u] = nx[u] /\ r[u] < B /\ r[u] \in Nat
  BY DEF Ranks
<1> HIDE DEF r2, nx2
<1>2. Ordered(r2, nx2, S, h)
  BY <1>1, OrderedElsewhere
<1>3. IsTop(r2, S2, t)
  BY <1>1 DEF IsTop
<1>4. \A u \in S : Under(r2, S2, r2[u]) = Under(r2, S, r2[u])
  BY <1>1 DEF Under
<1>5. Under(r2, S2, r2[t]) = S
  BY <1>1 DEF Under
<1>6. \A u \in S2 : \A v \in S2 : r2[u] = r2[v] => u = v
  BY <1>1, <1>2 DEF Ordered
<1>7. Ordered(r2, nx2, S2, t)
  BY <1>1, <1>2, <1>3, <1>4, <1>5, <1>6 DEF Ordered
<1>8. QED
  BY <1>7 DEF r2, nx2

\* Without one of its timers, the rest of a list begins where it did, or behind it.
LEMMA TopWithout ==
  ASSUME NEW r \in Ranks, NEW nx, NEW S \in SUBSET Timers, NEW h, Ordered(r, nx, S, h),
         NEW t \in S, NEW T \in SUBSET S, \A u \in T : \A v \in S : r[v] < r[u] => v \in T,
         NEW v, IsTop(r, T, v)
  PROVE  IsTop(r, T \ {t}, IF v = t THEN nx[t] ELSE v)
<1>1. CASE v = t /\ T # {}
  <2>1. v \in T /\ \A u \in T \ {v} : r[u] < r[v]
    BY <1>1 DEF IsTop
  <2>2. Under(r, S, r[t]) = T \ {t}
    BY <1>1, <2>1 DEF Under, Ranks
  <2>3. QED
    BY <1>1, <2>2 DEF Ordered
<1>2. CASE v # t \/ T = {}
  BY <1>2, TempoAssumption DEF IsTop
<1>3. QED
  BY <1>1, <1>2

LEMMA OrderedWithout ==
  ASSUME NEW r \in Ranks, NEW nx \in [Timers -> Timers \cup {Nil}], NEW S \in SUBSET Timers,
         NEW h, Ordered(r, nx, S, h), NEW t \in S, NEW nx2,
         \A u \in S : nx2[u] = IF nx[u] = t THEN nx[t] ELSE nx[u]
  PROVE  Ordered(r, nx2, S \ {t}, IF h = t THEN nx[t] ELSE h)
<1>1. IsTop(r, S \ {t}, IF h = t THEN nx[t] ELSE h)
  BY TopWithout DEF Ordered
<1>2. ASSUME NEW u \in S \ {t} PROVE IsTop(r, Under(r, S \ {t}, r[u]), nx2[u])
  <2> DEFINE T == Under(r, S, r[u])
  <2>1. T \in SUBSET S /\ \A w \in T : \A v \in S : r[v] < r[w] => v \in T
    BY DEF Under, Ranks
  <2>2. IsTop(r, T, nx[u])
    BY DEF Ordered
  <2>3. Under(r, S \ {t}, r[u]) = T \ {t}
    BY DEF Under
  <2> HIDE DEF T
  <2>4. IsTop(r, T \ {t}, IF nx[u] = t THEN nx[t] ELSE nx[u])
    BY <2>1, <2>2, TopWithout
  <2>5. QED
    BY <2>3, <2>4
<1>3. QED
  BY <1>1, <1>2 DEF Ordered

\* The list of T, put before the list of S.
Joins(r, nx, S, h, T, g, B, r2, nx2) ==
  /\ r \in Ranks /\ nx \in [Timers -> Timers \cup {Nil}]
  /\ S \in SUBSET Timers /\ T \in SUBSET Timers /\ S \cap T = {}
  /\ Ordered(r, nx, S, h) /\ Ordered(r, nx, T, g)
  /\ B \in Nat /\ \A u \in Timers : r[u] < B
  /\ \A u \in S : r2[u] = r[u] /\ nx2[u] = nx[u]
  /\ \A u \in T : r2[u] = r[u] + B /\ nx2[u] = IF nx[u] = Nil THEN h ELSE nx[u]

LEMMA OrderedJoined ==
  ASSUME NEW r, NEW nx, NEW S, NEW h, NEW T, NEW g, NEW B, NEW r2, NEW nx2,
         Joins(r, nx, S, h, T, g, B, r2, nx2)
  PROVE  Ordered(r2, nx2, S \cup T, IF g = Nil THEN h ELSE g)
<1> USE DEF Joins
<1>1. Ordered(r2, nx2, S, h)
  BY OrderedElsewhere
<1>2. \A u \in S \cup T : \A v \in S \cup T : r2[u] = r2[v] => u = v
  BY <1>1 DEF Ordered, Ranks
<1>3. ASSUME NEW V \in SUBSET T, NEW v, IsTop(r, V, v)
      PROVE  IsTop(r2, S \cup V, IF v = Nil THEN h ELSE v)
  <2>1. CASE V = {}
    BY <1>1, <1>3, <2>1 DEF IsTop, Ordered
  <2>2. CASE V # {}
    <3>1. v \in V /\ v # Nil /\ \A u \in V \ {v} : r[u] < r[v]
      BY <1>3, <2>2, TempoAssumption DEF IsTop
    <3>2. \A u \in (S \cup V) \ {v} : r2[u] < r2[v]
      <4>1. \A u \in S : r2[u] < r2[v]
        BY <3>1 DEF Ranks
      <4>2. \A u \in V \ {v} : r2[u] < r2[v]
        BY <3>1 DEF Ranks
      <4>3. QED
        BY <4>1, <4>2
    <3>3. QED
      BY <3>1, <3>2 DEF IsTop
  <2>3. QED
    BY <2>1, <2>2
<1>4. IsTop(r2, S \cup T, IF g = Nil THEN h ELSE g)
  BY <1>3 DEF Ordered
<1>5. ASSUME NEW u \in S PROVE IsTop(r2, Under(r2, S \cup T, r2[u]), nx2[u])
  <2>1. Under(r2, S \cup T, r2[u]) = Under(r2, S, r2[u])
    BY DEF Under, Ranks
  <2>2. QED
    BY <1>1, <2>1 DEF Ordered
<1>6. ASSUME NEW u \in T PROVE IsTop(r2, Under(r2, S \cup T, r2[u]), nx2[u])
  <2>1. Under(r2, S \cup T, r2[u]) = S \cup Under(r, T, r[u])
    BY DEF Under, Ranks
  <2>2. IsTop(r, Under(r, T, r[u]), nx[u]) /\ Under(r, T, r[u]) \in SUBSET T
    BY DEF Ordered, Under
  <2>3. QED
    BY <1>3, <2>1, <2>2
<1>7. QED
  BY <1>2, <1>4, <1>5, <1>6 DEF Ordered

\* A list that is not empty ends.
LEMMA OrderedEnds ==
  ASSUME NEW r \in Ranks, NEW nx, NEW S \in SUBSET Timers, NEW h, Ordered(r, nx, S, h), S # {}
  PROVE  \E t \in S : nx[t] = Nil
<1>1. {r[t] : t \in S} \subseteq Nat /\ {r[t] : t \in S} # {}
  BY DEF Ranks
<1>2. PICK k \in {r[t] : t \in S} : \A m \in {r[t] : t \in S} : ~(m < k)
  BY <1>1, Least
<1>3. PICK t \in S : r[t] = k
  BY <1>2
<1>4. Under(r, S, r[t]) = {}
  BY <1>2, <1>3 DEF Under
<1>5. QED
  BY <1>4 DEF Ordered, IsTop
-----------------------------------------------------------------------------
(* The lists, and the walk over them.                                      *)

\* The two lists hold the timers of a and of b, which are the members.
Linked(r, B, a, b) ==
  /\ r \in Ranks /\ B \in Nat /\ \A t \in Timers : r[t] < B
  /\ a \in SUBSET Timers /\ b \in SUBSET Timers
  /\ a \cap b = {} /\ a \cup b = member
  /\ Ordered(r, next, a, first) /\ Ordered(r, next, b, new)

\* The tick has still to notify the timers below some rank, and goes on with the
\* highest of them: behind the timer whose callback runs, if that is still there.
Walk(r, a) ==
  /\ \E c \in Nat : waiting = Under(r, a, c)
  /\ at = "notify" => IsTop(r, waiting, cursor)
  /\ at = "callback" => IsTop(r, waiting, next[cursor])
  /\ at = "callback" /\ cursor \in member => cursor \in a /\ waiting = Under(r, a, r[cursor])

\* What AllNotified asks of the callbacks: one that has removed the timer it was
\* called for does not create that timer again, and removes no other.
OwnLast == at = "callback" /\ cursor \notin member =>
             cursor \notin member' /\ member \subseteq member'

LinkedSome == \E r, B, a, b : Linked(r, B, a, b)
WalkSome == \E r, B, a, b : Linked(r, B, a, b) /\ Walk(r, a)

LEMMA LinkedListed ==
  ASSUME NEW r, NEW B, NEW a, NEW b, Linked(r, B, a, b)
  PROVE  Listed(first) = a /\ Listed(new) = b
BY ListedIs DEF Linked

\* What a step leads to: the lists are right, and so is the walk, if it was and the
\* callback did as it is asked.
Goes(r, a) ==
  \E r2, B2, a2, b2 : /\ Linked(r2, B2, a2, b2)'
                      /\ Walk(r, a) /\ OwnLast => Walk(r2, a2)'

LEMMA CreateLinked ==
  ASSUME Types, NEW r, NEW B, NEW a, NEW b, Linked(r, B, a, b), NEW t \in Timers, Create(t),
         UNCHANGED <<at, cursor>>, at # "notify"
  PROVE  Goes(r, a)
<1> USE DEF past
<1>1. /\ Listed(first) = a /\ Listed(new) = b /\ next \in [Timers -> Timers \cup {Nil}]
      /\ waiting' = waiting /\ member' = member \cup {t} /\ waiting \subseteq member
  BY LinkedListed DEF Create, Types, TypeOK
<1>2. CASE ~Unlisted(t)
  <2>1. UNCHANGED <<first, new, next, member>>
    BY <1>1, <1>2 DEF Create, Unlisted, Linked
  <2>2. Linked(r, B, a, b)' /\ (Walk(r, a) => Walk(r, a)')
    BY <1>1, <2>1 DEF Linked, Walk
  <2>3. QED
    BY <2>2 DEF Goes
<1>3. CASE Unlisted(t)
  <2> DEFINE r2 == [r EXCEPT ![t] = B]
             h == IF first = Nil THEN Nil ELSE new
             nx2 == [next EXCEPT ![t] = h]
  <2>1. t \notin a \cup b /\ next' = nx2
    BY <1>1, <1>3 DEF Create, Unlisted
  <2>2. /\ r2 \in Ranks /\ B + 1 \in Nat /\ \A u \in Timers : r2[u] < B + 1
        /\ \A S \in SUBSET Timers : t \notin S => \A u \in S : r2[u] = r[u] /\ nx2[u] = next[u]
    BY <1>1 DEF Linked, Ranks
  <2>3. CASE first = Nil
    <3>1. a = {} /\ first' = t /\ new' = new
      BY <1>3, <2>3, TempoAssumption DEF Linked, Ordered, IsTop, Create
    <3>2. Ordered(r, next, {}, Nil)
      BY DEF Ordered, IsTop
    <3>3. Ordered(r2, nx2, {} \cup {t}, t)
      BY <1>1, <2>3, <3>2, OrderedAdd DEF Linked
    <3>4. Ordered(r2, nx2, b, new)
      <4> HIDE DEF r2, nx2
      <4>1. QED
        BY <2>1, <2>2, OrderedElsewhere DEF Linked
    <3> HIDE DEF r2, nx2
    <3>5. Linked(r2, B + 1, {t}, b)'
      BY <1>1, <2>1, <2>2, <3>1, <3>3, <3>4 DEF Linked
    <3>6. ASSUME Walk(r, a), OwnLast PROVE Walk(r2, {t})'
      <4>1. waiting' = {} /\ waiting = {}
        BY <1>1, <3>1, <3>6 DEF Walk, Under
      <4>2. {} = Under(r2, {t}, 0)
        BY <2>2 DEF Under, Ranks
      <4>3. at = "callback" => next[cursor] = Nil /\ cursor # t /\ cursor \notin member'
        BY <1>1, <3>1, <3>6, <4>1 DEF Walk, IsTop, OwnLast
      <4>4. at = "callback" => next'[cursor'] = Nil
        BY <1>1, <2>1, <4>3 DEF nx2, Types, TypeOK
      <4>5. QED
        BY <4>1, <4>2, <4>3, <4>4 DEF Walk, IsTop
    <3>7. QED
      BY <3>5, <3>6 DEF Goes
  <2>4. CASE first # Nil
    <3>1. first' = first /\ new' = t /\ h = new
      BY <1>3, <2>4 DEF Create
    <3>2. Ordered(r2, nx2, b \cup {t}, t)
      BY <1>1, <2>1, <3>1, OrderedAdd DEF Linked
    <3> HIDE DEF r2, nx2
    <3>3. Ordered(r2, nx2, a, first)
      BY <2>1, <2>2, OrderedElsewhere DEF Linked
    <3>4. Linked(r2, B + 1, a, b \cup {t})'
      BY <1>1, <2>1, <2>2, <3>1, <3>2, <3>3 DEF Linked
    <3>5. ASSUME Walk(r, a), OwnLast PROVE Walk(r2, a)'
      <4>1. \A u \in a : r2[u] = r[u]
        BY <2>1, <2>2 DEF Linked
      <4>2. \A c : Under(r2, a, c) = Under(r, a, c)
        BY <4>1 DEF Under
      <4>3. waiting \subseteq a
        BY <3>5 DEF Walk, Under
      <4>4. \A v : IsTop(r, waiting, v) => IsTop(r2, waiting, v)
        BY <4>1, <4>3 DEF IsTop
      <4>5. at = "callback" => next'[cursor] = next[cursor]
        BY <1>1, <2>1, <3>5 DEF nx2, Walk, OwnLast, Linked
      <4>6. at = "callback" /\ cursor \in member' => cursor \in member
        BY <1>1, <3>5 DEF OwnLast
      <4>7. QED
        BY <1>1, <3>5, <4>1, <4>2, <4>4, <4>5, <4>6 DEF Walk
    <3>6. QED
      BY <3>4, <3>5 DEF Goes
  <2>5. QED
    BY <2>3, <2>4
<1>4. QED
  BY <1>2, <1>3

LEMMA RemoveLinked ==
  ASSUME Types, NEW r, NEW B, NEW a, NEW b, Linked(r, B, a, b), NEW t \in Timers, RemoveFound(t),
         UNCHANGED <<at, cursor>>, at # "notify"
  PROVE  Goes(r, a)
<1>1. /\ Listed(first) = a /\ Listed(new) = b /\ next \in [Timers -> Timers \cup {Nil}]
      /\ t \in a /\ new' = new /\ member' = member \ {t} /\ waiting' = waiting \ {t}
      /\ first' = IF first = t THEN next[t] ELSE first
  BY LinkedListed DEF RemoveFound, Types, TypeOK
<1>2. /\ \A u \in a : next'[u] = IF next[u] = t THEN next[t] ELSE next[u]
      /\ \A u \in Timers : u \notin a => next'[u] = next[u]
  BY <1>1 DEF RemoveFound, Linked
<1>3. Ordered(r, next', a \ {t}, first')
  BY <1>1, <1>2, OrderedWithout DEF Linked
<1>4. Ordered(r, next', b, new)
  <2>1. \A u \in b : r[u] = r[u] /\ next'[u] = next[u]
    BY <1>2 DEF Linked
  <2>2. QED
    BY <2>1, OrderedElsewhere DEF Linked
<1>5. Linked(r, B, a \ {t}, b)'
  BY <1>1, <1>3, <1>4 DEF Linked
<1>6. ASSUME Walk(r, a), OwnLast PROVE Walk(r, a \ {t})'
  <2>1. PICK c \in Nat : waiting = Under(r, a, c)
    BY <1>6 DEF Walk
  <2>2. waiting' = Under(r, a \ {t}, c)
    BY <1>1, <2>1 DEF Under
  <2>3. ASSUME at = "callback"
        PROVE  /\ IsTop(r, waiting', next'[cursor])
               /\ cursor \in member' => cursor \in a \ {t}
                                        /\ waiting' = Under(r, a \ {t}, r[cursor])
    <3>1. cursor \in member
      BY <1>1, <1>6, <2>3 DEF OwnLast, Linked
    <3>2. cursor \in a /\ waiting = Under(r, a, r[cursor]) /\ IsTop(r, waiting, next[cursor])
      BY <1>6, <2>3, <3>1 DEF Walk
    <3>3. waiting \in SUBSET a /\ \A u \in waiting : \A v \in a : r[v] < r[u] => v \in waiting
      BY <3>2 DEF Under, Linked, Ranks
    <3>4. IsTop(r, waiting', next'[cursor])
      <4>1. IsTop(r, waiting \ {t}, IF next[cursor] = t THEN next[t] ELSE next[cursor])
        BY <1>1, <3>2, <3>3, TopWithout DEF Linked
      <4>2. QED
        BY <1>1, <1>2, <3>2, <4>1
    <3>5. waiting' = Under(r, a \ {t}, r[cursor])
      BY <1>1, <3>2 DEF Under
    <3>6. QED
      BY <1>1, <3>2, <3>4, <3>5
  <2>4. QED
    BY <2>2, <2>3 DEF Walk
<1>7. QED
  BY <1>5, <1>6 DEF Goes

LEMMA CallLinked ==
  ASSUME Types, NEW r, NEW B, NEW a, NEW b, Linked(r, B, a, b), NEW t \in Timers, Call(t),
         UNCHANGED <<at, cursor>>, at # "notify"
  PROVE  Goes(r, a)
<1>1. CASE UNCHANGED <<lists, past>>
  <2>1. Linked(r, B, a, b)' /\ (Walk(r, a) => Walk(r, a)')
    BY <1>1 DEF lists, past, Linked, Walk
  <2>2. QED
    BY <2>1 DEF Goes
<1>2. Create(t) \/ RemoveFound(t) \/ UNCHANGED <<lists, past>>
  BY DEF Call, RemoveRefused, Start, Stop, lists, past
<1>3. QED
  BY <1>1, <1>2, CreateLinked, RemoveLinked

LEMMA TickLinked ==
  ASSUME Types, NEW r, NEW B, NEW a, NEW b, Linked(r, B, a, b), Tick
  PROVE  Goes(r, a)
<1>1. CASE TickBegins
  <2> DEFINE r2 == [u \in Timers |-> IF u \in b THEN r[u] + B ELSE r[u]]
             B2 == B + B
  <2>1. /\ Listed(new) = b /\ next \in [Timers -> Timers \cup {Nil}] /\ new' = Nil
        /\ first' = (IF new = Nil THEN first ELSE new) /\ member' = member
        /\ waiting' = member /\ cursor' = first' /\ at' = "notify"
    BY <1>1, LinkedListed DEF TickBegins, Types, TypeOK
  <2>2. /\ \A u \in b : next'[u] = IF next[u] = Nil THEN first ELSE next[u]
        /\ \A u \in a : next'[u] = next[u]
    BY <1>1, <2>1 DEF TickBegins, Behind, Linked
  <2>3. /\ r2 \in Ranks /\ B2 \in Nat /\ \A u \in Timers : r2[u] < B2
        /\ \A u \in b : r2[u] = r[u] + B
        /\ \A u \in a : r2[u] = r[u]
    BY DEF Linked, Ranks
  <2> HIDE DEF r2, B2
  <2>4. Ordered(r2, next', a \cup b, first')
    <3>1. /\ r \in Ranks /\ a \in SUBSET Timers /\ b \in SUBSET Timers /\ a \cap b = {}
          /\ Ordered(r, next, a, first) /\ Ordered(r, next, b, new)
          /\ B \in Nat /\ \A u \in Timers : r[u] < B
      BY DEF Linked
    <3>2. Joins(r, next, a, first, b, new, B, r2, next')
      BY <2>1, <2>2, <2>3, <3>1 DEF Joins
    <3>3. Ordered(r2, next', a \cup b, IF new = Nil THEN first ELSE new)
      BY <3>2, OrderedJoined
    <3>4. QED
      BY <2>1, <3>3
  <2>5. Ordered(r2, next', {}, Nil)
    BY DEF Ordered, IsTop
  <2>6. Linked(r2, B2, a \cup b, {})'
    BY <2>1, <2>3, <2>4, <2>5 DEF Linked
  <2>7. waiting' = Under(r2, a \cup b, B2)
    BY <2>1, <2>3 DEF Under, Linked
  <2>8. Walk(r2, a \cup b)'
    <3>1. IsTop(r2, waiting', cursor')
      BY <2>1, <2>4 DEF Ordered, Linked
    <3>2. QED
      BY <2>1, <2>3, <2>7, <3>1 DEF Walk
  <2>9. QED
    BY <2>6, <2>8 DEF Goes
<1>2. CASE TickGoesOn
  <2>1. UNCHANGED <<lists, member>>
    BY <1>2 DEF TickGoesOn, TickCounts, TickFires, CallbackReturns, TickReturns, past
  <2>2. Linked(r, B, a, b)'
    BY <2>1 DEF Linked, lists
  <2>3. ASSUME Walk(r, a) PROVE Walk(r, a)'
    <3>1. PICK c \in Nat : waiting = Under(r, a, c)
      BY <2>3 DEF Walk
    <3>2. ASSUME at = "notify", cursor # Nil, waiting' = waiting \ {cursor}
          PROVE  /\ cursor \in a /\ r[cursor] \in Nat /\ waiting' = Under(r, a, r[cursor])
                 /\ IsTop(r, waiting', next[cursor])
      <4>1. cursor \in waiting /\ \A t \in waiting \ {cursor} : r[t] < r[cursor]
        BY <2>3, <3>2 DEF Walk, IsTop
      <4>2. cursor \in a /\ waiting' = Under(r, a, r[cursor])
        BY <3>1, <3>2, <4>1 DEF Under, Linked, Ranks
      <4>3. QED
        BY <4>2 DEF Linked, Ordered, Ranks
    <3>3. CASE TickCounts
      BY <2>1, <3>2, <3>3 DEF TickCounts, Walk, lists
    <3>4. CASE TickFires
      BY <2>1, <3>2, <3>4 DEF TickFires, Walk, lists
    <3>5. CASE CallbackReturns
      BY <2>3, <3>1, <3>5 DEF CallbackReturns, Walk, lists, past
    <3>6. CASE TickReturns
      <4>1. {} = Under(r, a, 0)
        BY DEF Under, Linked, Ranks
      <4>2. QED
        BY <3>6, <4>1 DEF TickReturns, Walk
    <3>7. QED
      BY <1>2, <3>3, <3>4, <3>5, <3>6 DEF TickGoesOn
  <2>4. QED
    BY <2>2, <2>3 DEF Goes
<1>3. QED
  BY <1>1, <1>2 DEF Tick

LEMMA StepLinked ==
  ASSUME Types, NEW r, NEW B, NEW a, NEW b, Linked(r, B, a, b), [Next]_vars
  PROVE  Goes(r, a)
<1>1. CASE MainCalls \/ CallbackCalls
  <2>1. PICK t \in Timers : Call(t)
    BY <1>1 DEF MainCalls, CallbackCalls
  <2>2. UNCHANGED <<at, cursor>> /\ at # "notify"
    BY <1>1 DEF MainCalls, CallbackCalls, walk
  <2>3. QED
    BY <2>1, <2>2, CallLinked
<1>2. CASE UNCHANGED vars
  <2>1. Linked(r, B, a, b)' /\ (Walk(r, a) => Walk(r, a)')
    BY <1>2 DEF vars, lists, walk, past, Linked, Walk
  <2>2. QED
    BY <2>1 DEF Goes
<1>3. QED
  BY <1>1, <1>2, TickLinked DEF Next

LEMMA InitialLists == Init => WalkSome
<1> SUFFICES ASSUME Init PROVE WalkSome
  OBVIOUS
<1> DEFINE r == [t \in Timers |-> 0]
<1>1. r \in Ranks /\ \A t \in Timers : r[t] < 1
  BY DEF Ranks
<1>2. Ordered(r, next, {}, Nil) /\ {} = Under(r, {}, 0)
  BY DEF Ordered, IsTop, Under
<1> HIDE DEF r
<1>3. Linked(r, 1, {}, {}) /\ Walk(r, {})
  BY <1>1, <1>2 DEF Init, Linked, Walk
<1>4. QED
  BY <1>3 DEF WalkSome

LEMMA StepLists ==
  /\ Types /\ LinkedSome /\ [Next]_vars => LinkedSome'
  /\ Types /\ WalkSome /\ [Next]_vars /\ OwnLast => WalkSome'
<1>1. ASSUME Types, LinkedSome, [Next]_vars PROVE LinkedSome'
  <2>1. PICK r, B, a, b : Linked(r, B, a, b)
    BY <1>1 DEF LinkedSome
  <2>2. QED
    BY <1>1, <2>1, StepLinked DEF Goes, LinkedSome
<1>2. ASSUME Types, WalkSome, [Next]_vars, OwnLast PROVE WalkSome'
  <2>1. PICK r, B, a, b : Linked(r, B, a, b) /\ Walk(r, a)
    BY <1>2 DEF WalkSome
  <2>2. QED
    BY <1>2, <2>1, StepLinked DEF Goes, WalkSome
<1>3. QED
  BY <1>1, <1>2

\* Both lists end, they share no timer, and together they hold the members, after any
\* calls of the main program and of callbacks, however many a callback makes.
THEOREM ListsHoldMembers == Spec => []MembersListed
<1>1. LinkedSome => MembersListed
  <2> SUFFICES ASSUME LinkedSome PROVE MembersListed
    OBVIOUS
  <2>1. PICK r, B, a, b : Linked(r, B, a, b)
    BY DEF LinkedSome
  <2>2. Listed(first) = a /\ Listed(new) = b
    BY <2>1, LinkedListed
  <2>3. first # Nil => a # {}
    BY <2>1 DEF Linked, Ordered, IsTop
  <2>4. new # Nil => b # {}
    BY <2>1 DEF Linked, Ordered, IsTop
  <2>5. first # Nil => \E t \in a : next[t] = Nil
    BY <2>1, <2>3, OrderedEnds DEF Linked
  <2>6. new # Nil => \E t \in b : next[t] = Nil
    BY <2>1, <2>4, OrderedEnds DEF Linked
  <2>7. QED
    BY <2>1, <2>2, <2>5, <2>6 DEF MembersListed, Linked
<1>2. WalkSome => LinkedSome
  BY DEF WalkSome, LinkedSome
<1>3. QED
  BY <1>1, <1>2, InitialTypes, StepTypes, InitialLists, StepLists, PTL DEF Spec

LEMMA WalkNotifies == WalkSome => AllNotified
<1> SUFFICES ASSUME WalkSome PROVE AllNotified
  OBVIOUS
<1>1. PICK r, B, a, b : Linked(r, B, a, b) /\ Walk(r, a)
  BY DEF WalkSome
<1>2. waiting \subseteq Timers
  BY <1>1 DEF Walk, Under, Linked
<1>3. QED
  BY <1>1, <1>2, TempoAssumption DEF Walk, IsTop, AllNotified

LEMMA StepWalk == Types /\ WalkSome /\ [Next]_vars /\ [OwnLast]_vars => WalkSome'
<1>1. UNCHANGED vars => OwnLast
  BY DEF vars, walk, past, OwnLast
<1>2. QED
  BY <1>1, StepLists

LEMMA AlwaysWalk == Spec /\ [][OwnLast]_vars => [](Types /\ WalkSome)
BY InitialTypes, StepTypes, InitialLists, StepWalk, PTL DEF Spec

\* The tick notifies every timer that was there when it began and was not removed, and
\* none twice, as long as a callback that has removed its own timer leaves the walk alone.
THEOREM AllAreNotified == Spec /\ [][OwnLast]_vars => []AllNotified
BY AlwaysWalk, WalkNotifies, PTL

\* With callbacks of at most one call, that is always so.
THEOREM OneCallIsLast == ASSUME MaxCalls <= 1 PROVE Spec => [][OwnLast]_vars
<1> DEFINE Fresh == at = "callback" /\ calls > 0 => cursor \in member
<1>1. Init => Fresh
  BY DEF Init
<1>2. Types /\ WalkSome /\ Fresh /\ [Next]_vars => Fresh'
  <2> SUFFICES ASSUME Types, WalkSome, Fresh, [Next]_vars PROVE Fresh'
    OBVIOUS
  <2>1. CASE MainCalls
    BY <2>1 DEF MainCalls, walk
  <2>2. CASE CallbackCalls
    <3>1. calls \in 0..MaxCalls /\ calls > 0 /\ calls' = calls - 1
      BY <2>2 DEF CallbackCalls, Types, TypeOK
    <3>2. QED
      BY <3>1, TempoAssumption
  <2>3. CASE TickFires
    <3>1. cursor \in waiting /\ waiting \subseteq member
      BY <2>3, WalkNotifies DEF TickFires, AllNotified, Types
    <3>2. QED
      BY <2>3, <3>1 DEF TickFires
  <2>4. CASE TickBegins \/ TickCounts \/ CallbackReturns \/ TickReturns
    BY <2>4 DEF TickBegins, TickCounts, CallbackReturns, TickReturns
  <2>5. CASE UNCHANGED vars
    BY <2>5 DEF vars, walk, past
  <2>6. QED
    BY <2>1, <2>2, <2>3, <2>4, <2>5 DEF Next, Tick, TickGoesOn
<1>3. Types /\ Fresh /\ [Next]_vars => [OwnLast]_vars
  <2> SUFFICES ASSUME Types, Fresh, Next, at = "callback", cursor \notin member
               PROVE  cursor \notin member' /\ member \subseteq member'
    BY DEF OwnLast
  <2>1. calls = 0
    BY DEF Types, TypeOK
  <2>2. CallbackReturns
    BY <2>1 DEF Next, MainCalls, CallbackCalls, Tick, TickGoesOn, TickBegins, TickCounts,
                TickFires, TickReturns
  <2>3. QED
    BY <2>2 DEF CallbackReturns, past
<1> HIDE DEF Fresh
<1>4. QED
  BY <1>1, <1>2, <1>3, InitialTypes, StepTypes, InitialLists, StepWalk, PTL DEF Spec

LEMMA Fewer ==
  ASSUME NEW m \in Nat, NEW c \in Nat, NEW d \in Nat
  PROVE  /\ d <= c => m * d <= m * c
         /\ d + 1 <= c => m * d + m <= m * c
<1>1. ASSUME NEW x \in Nat, NEW e \in Nat PROVE m * (x + e) = m * x + m * e
  BY SMTT(30)
<1>2. ASSUME NEW x \in Nat PROVE m * x \in Nat
  BY SMTT(30)
<1>3. ASSUME NEW x \in Nat, NEW e \in Nat PROVE m * x <= m * (x + e)
  <2>1. m * x \in Nat /\ m * e \in Nat /\ m * (x + e) = m * x + m * e
    BY <1>1, <1>2
  <2>2. QED
    BY <2>1
<1>4. m * (d + 1) = m * d + m
  OBVIOUS
<1>5. ASSUME d <= c PROVE m * d <= m * c
  <2>1. c - d \in Nat /\ d + (c - d) = c
    BY <1>5
  <2>2. m * d <= m * (d + (c - d))
    BY <1>3, <2>1
  <2>3. QED
    BY <2>1, <2>2
<1>6. ASSUME d + 1 <= c PROVE m * d + m <= m * c
  <2>1. c - (d + 1) \in Nat /\ (d + 1) + (c - (d + 1)) = c /\ d + 1 \in Nat
    BY <1>6
  <2>2. m * (d + 1) <= m * ((d + 1) + (c - (d + 1)))
    BY <1>3, <2>1
  <2>3. m * (d + 1) <= m * c
    BY <2>1, <2>2
  <2>4. QED
    BY <1>4, <2>3
<1>7. QED
  BY <1>5, <1>6

\* Each step of the tick brings its end nearer.
THEOREM EndComesNearer == Spec /\ [][OwnLast]_vars => TickNearsEnd
<1> DEFINE m == MaxCalls + 2
<1>1. ASSUME Types, WalkSome, Next, at # "idle" PROVE at' = "idle" \/ StepsLeft' < StepsLeft
  <2> DEFINE c == Cardinality(waiting)
  <2>1. /\ IsFiniteSet(waiting) /\ c \in Nat /\ m \in Nat /\ MaxCalls \in Nat
        /\ calls \in 0..MaxCalls
    BY <1>1, TempoAssumption, FS_Subset, FS_CardinalityType DEF Types, TypeOK
  <2>2. ASSUME cursor \in waiting, waiting' = waiting \ {cursor}
        PROVE  c' \in Nat /\ c' + 1 <= c
    <3>1. Cardinality(waiting \ {cursor}) = c - 1 /\ IsFiniteSet(waiting \ {cursor})
      BY <2>1, <2>2, FS_RemoveElement
    <3>2. c' \in Nat /\ c' = c - 1
      BY <2>2, <3>1, FS_CardinalityType
    <3>3. QED
      BY <2>1, <3>2
  <2>3. ASSUME waiting' \subseteq waiting PROVE c' \in Nat /\ c' <= c
    BY <2>1, <2>3, FS_Subset, FS_CardinalityType
  <2>4. StepsLeft = m * c + (IF at = "callback" THEN calls + 1 ELSE 0)
    BY DEF StepsLeft
  <2>5. StepsLeft' = m * c' + (IF at' = "callback" THEN calls' + 1 ELSE 0)
    BY DEF StepsLeft
  <2> HIDE DEF c
  <2>6. m * c \in Nat /\ (c' \in Nat => m * c' \in Nat)
    BY <2>1
  <2>7. CASE TickCounts
    <3>1. /\ cursor \in waiting /\ waiting' = waiting \ {cursor}
          /\ at = "notify" /\ at' = "notify"
      BY <1>1, <2>7, WalkNotifies DEF TickCounts, AllNotified
    <3>2. m * c' + m <= m * c
      BY <2>1, <2>2, <3>1, Fewer
    <3>3. QED
      BY <2>1, <2>2, <2>4, <2>5, <2>6, <3>1, <3>2
  <2>8. CASE TickFires
    <3>1. /\ cursor \in waiting /\ waiting' = waiting \ {cursor}
          /\ at = "notify" /\ at' = "callback" /\ calls' = MaxCalls
      BY <1>1, <2>8, WalkNotifies DEF TickFires, AllNotified
    <3>2. m * c' + m <= m * c
      BY <2>1, <2>2, <3>1, Fewer
    <3>3. QED
      BY <2>1, <2>2, <2>4, <2>5, <2>6, <3>1, <3>2
  <2>9. CASE CallbackCalls
    <3>1. /\ waiting' \subseteq waiting /\ at = "callback" /\ at' = at
          /\ calls' = calls - 1 /\ calls > 0
      BY <2>9 DEF CallbackCalls, Call, Create, RemoveFound, RemoveRefused, Start, Stop, past
    <3>2. m * c' <= m * c
      BY <2>1, <2>3, <3>1, Fewer
    <3>3. QED
      BY <2>1, <2>3, <2>4, <2>5, <2>6, <3>1, <3>2
  <2>10. CASE CallbackReturns
    <3>1. c' = c /\ at = "callback" /\ at' = "notify"
      BY <2>10 DEF CallbackReturns, past, c
    <3>2. QED
      BY <2>1, <2>4, <2>5, <2>6, <3>1
  <2>11. CASE TickReturns
    BY <2>11 DEF TickReturns
  <2>12. QED
    BY <1>1, <2>7, <2>8, <2>9, <2>10, <2>11 DEF Next, MainCalls, Tick, TickBegins, TickGoesOn
<1>2. Types /\ WalkSome /\ [Next]_vars
        => [at # "idle" => at' = "idle" \/ StepsLeft' < StepsLeft]_vars
  BY <1>1
<1>3. QED
  BY <1>2, AlwaysWalk, PTL DEF TickNearsEnd, Spec
-----------------------------------------------------------------------------
(* Timers are on time.                                                     *)

\* What is left of an enabled timer and its age make what it was started with; a tick
\* that has yet to notify it has made it one older already, unless it was started
\* since, and one that was started before its tick is one early.
OnTime(t) ==
  LET left == timer[t].tick IN
  timer[t].flag = "EN" =>
    /\ timer[t].callback # NoCallback
    /\ IF t \in waiting
       THEN \/ left > 0 /\ (age[t] + left = want[t] \/ age[t] + left = want[t] + 1)
            \/ left = 0 /\ want[t] = 1 /\ age[t] \in {0, 1}
       ELSE \/ left > 0 /\ (age[t] + left = want[t] \/ age[t] + left + 1 = want[t])
            \/ left = 0 /\ want[t] = 1 /\ age[t] = 0

AllOnTime == \A t \in member : OnTime(t)

\* The walk over the lists is right.
WalkRight == MembersListed /\ AllNotified

LEMMA CallOnTime ==
  ASSUME Types, AllOnTime, MembersListed, NEW t \in Timers, Call(t)
  PROVE  AllOnTime'
<1> SUFFICES ASSUME NEW u \in Timers, u \in member' PROVE OnTime(u)'
  BY DEF AllOnTime, Types, TypeOK, Call, Create, RemoveFound, RemoveRefused, Start, Stop, past
<1> USE DEF lists, past, clock
<1>0. u \in member => OnTime(u)
  BY DEF AllOnTime
<1>1. CASE Create(t)
  <2>1. UNCHANGED <<waiting, age, want>>
    BY <1>1 DEF Create
  <2>2. CASE u = t /\ Unlisted(t)
    <3>1. timer'[u].flag = "DIS"
      BY <1>1, <2>2 DEF Create, Created, Types
    <3>2. QED
      BY <3>1 DEF OnTime
  <2>3. CASE ~(u = t /\ Unlisted(t))
    <3>1. timer'[u] = timer[u] /\ u \in member
      BY <1>1, <2>3 DEF Create, Unlisted, MembersListed, Types
    <3>2. QED
      BY <1>0, <2>1, <3>1 DEF OnTime
  <2>4. QED
    BY <2>2, <2>3
<1>2. CASE RemoveFound(t)
  <2>1. u \in member /\ UNCHANGED <<timer, age, want>> /\ (u \in waiting <=> u \in waiting')
    BY <1>2 DEF RemoveFound
  <2>2. QED
    BY <1>0, <2>1 DEF OnTime
<1>3. CASE RemoveRefused(t)
  BY <1>0, <1>3 DEF RemoveRefused, OnTime
<1>4. CASE Start(t)
  <2>1. PICK start \in Starts[t] :
          /\ timer' = [timer EXCEPT ![t] = Started(start[1], start[2], "callback")]
          /\ age' = [age EXCEPT ![t] = 0]
          /\ want' = [want EXCEPT ![t] = IF start[1] = 0 THEN 1 ELSE start[1]]
          /\ UNCHANGED <<lists, past>>
    BY <1>4 DEF Start
  <2>2. start[1] \in Nat
    BY StartTypes
  <2>3. CASE u = t
    <3>1. /\ timer'[u].tick = start[1] /\ timer'[u].callback # NoCallback
          /\ age'[u] = 0 /\ want'[u] = IF start[1] = 0 THEN 1 ELSE start[1]
      BY <2>1, <2>3 DEF Started, NoCallback, Types, TypeOK
    <3>2. QED
      BY <2>2, <3>1 DEF OnTime
  <2>4. CASE u # t
    <3>1. timer'[u] = timer[u] /\ age'[u] = age[u] /\ want'[u] = want[u]
      BY <2>1, <2>4 DEF Types, TypeOK
    <3>2. QED
      BY <1>0, <2>1, <3>1 DEF OnTime
  <2>5. QED
    BY <2>3, <2>4
<1>5. CASE Stop(t)
  <2>1. CASE u = t
    <3>1. timer'[u].flag = "DIS"
      BY <1>5, <2>1 DEF Stop, Stopped, Types, Record
    <3>2. QED
      BY <3>1 DEF OnTime
  <2>2. CASE u # t
    <3>1. timer'[u] = timer[u]
      BY <1>5, <2>2 DEF Stop, Types
    <3>2. QED
      BY <1>0, <1>5, <3>1 DEF Stop, OnTime
  <2>3. QED
    BY <2>1, <2>2
<1>6. QED
  BY <1>1, <1>2, <1>3, <1>4, <1>5 DEF Call

\* A timer that does not fire has at least one tick left afterwards.
LEMMA TickedIs ==
  ASSUME NEW r \in Record
  PROVE  /\ ~Fires(r) /\ r.flag = "EN" /\ r.callback # NoCallback
              => Ticked(r) = [r EXCEPT !.tick = r.tick - 1] /\ r.tick > 1
         /\ r.flag = "DIS" => Ticked(r) = r
         /\ Fires(r) => r.flag = "EN" /\ r.tick \in {0, 1}
         /\ Fires(r) /\ Ticked(r).flag = "EN"
              => /\ Ticked(r).tick = r.reload /\ r.reload > 0
                 /\ Ticked(r).callback = r.callback /\ r.callback # NoCallback
BY DEF Ticked, Fires, Counted, Record

LEMMA TickOnTime ==
  ASSUME Types, AllOnTime, WalkRight, Tick
  PROVE  AllOnTime'
<1> SUFFICES ASSUME NEW u \in Timers, u \in member, u \in member' PROVE OnTime(u)'
  BY DEF AllOnTime, Types, TypeOK, Tick, TickBegins, TickGoesOn, TickCounts, TickFires,
         CallbackReturns, TickReturns, past
<1> USE DEF lists, past, clock
<1>1. /\ OnTime(u) /\ timer[u] \in Record /\ age[u] \in Nat /\ want[u] \in Nat
      /\ timer[u].tick \in Nat
  BY DEF AllOnTime, Types, TypeOK, Record
<1>2. CASE TickBegins
  <2>1. /\ timer' = timer /\ want' = want /\ u \in waiting' /\ u \notin waiting
        /\ timer[u].flag = "EN" => age'[u] = age[u] + 1
    BY <1>2 DEF TickBegins, Types, TypeOK
  <2>2. QED
    BY <1>1, <2>1 DEF OnTime
<1>3. CASE TickCounts
  <2>1. cursor \in waiting /\ cursor \in Timers
    BY <1>3 DEF TickCounts, WalkRight, AllNotified, Types, TypeOK
  <2>2. UNCHANGED <<age, want>> /\ waiting' = waiting \ {cursor}
    BY <1>3 DEF TickCounts
  <2>3. CASE u = cursor
    <3>1. timer'[u] = Ticked(timer[u]) /\ ~Fires(timer[u]) /\ u \in waiting /\ u \notin waiting'
      BY <1>3, <2>1, <2>2, <2>3 DEF TickCounts, Types
    <3>2. CASE timer[u].flag = "EN"
      <4>1. /\ timer[u].callback # NoCallback /\ timer[u].tick > 1
            /\ age[u] + timer[u].tick = want[u] \/ age[u] + timer[u].tick = want[u] + 1
        BY <1>1, <3>1, <3>2, TickedIs DEF OnTime
      <4>2. timer'[u] = [timer[u] EXCEPT !.tick = timer[u].tick - 1]
        BY <1>1, <3>1, <3>2, <4>1, TickedIs
      <4>3. timer'[u].tick = timer[u].tick - 1 /\ timer'[u].callback = timer[u].callback
        BY <1>1, <4>2 DEF Record
      <4>4. QED
        BY <1>1, <2>2, <3>1, <4>1, <4>3 DEF OnTime
    <3>3. CASE timer[u].flag = "DIS"
      <4>1. timer'[u].flag = "DIS"
        BY <1>1, <3>1, <3>3, TickedIs
      <4>2. QED
        BY <4>1 DEF OnTime
    <3>4. QED
      BY <1>1, <3>2, <3>3 DEF Record
  <2>4. CASE u # cursor
    <3>1. timer'[u] = timer[u] /\ (u \in waiting <=> u \in waiting')
      BY <1>3, <2>2, <2>4 DEF TickCounts, Types
    <3>2. QED
      BY <1>1, <2>2, <3>1 DEF OnTime
  <2>5. QED
    BY <2>3, <2>4
<1>4. CASE TickFires
  <2>1. cursor \in Timers /\ waiting' = waiting \ {cursor}
    BY <1>4 DEF TickFires, Types, TypeOK
  <2>2. CASE u = cursor
    <3>1. /\ timer'[u] = Ticked(timer[u]) /\ Fires(timer[u]) /\ u \notin waiting'
          /\ age'[u] = 0 /\ want'[u] = timer[u].reload
      BY <1>4, <2>1, <2>2 DEF TickFires, Types, TypeOK
    <3>2. timer'[u].flag = "EN" => /\ timer'[u].tick = timer[u].reload /\ timer[u].reload > 0
                                   /\ timer'[u].callback # NoCallback
      BY <1>1, <3>1, TickedIs
    <3>3. timer[u].reload \in Nat
      BY <1>1 DEF Record
    <3>4. QED
      BY <3>1, <3>2, <3>3 DEF OnTime
  <2>3. CASE u # cursor
    <3>1. /\ timer'[u] = timer[u] /\ (u \in waiting <=> u \in waiting')
          /\ age'[u] = age[u] /\ want'[u] = want[u]
      BY <1>4, <2>1, <2>3 DEF TickFires, Types, TypeOK
    <3>2. QED
      BY <1>1, <3>1 DEF OnTime
  <2>4. QED
    BY <2>2, <2>3
<1>5. CASE CallbackReturns
  BY <1>1, <1>5 DEF CallbackReturns, OnTime
<1>6. CASE TickReturns
  <2>1. waiting = {} /\ waiting' = {} /\ UNCHANGED <<timer, age, want>>
    BY <1>6 DEF TickReturns, WalkRight, AllNotified
  <2>2. QED
    BY <1>1, <2>1 DEF OnTime
<1>7. QED
  BY <1>2, <1>3, <1>4, <1>5, <1>6 DEF Tick, TickGoesOn

LEMMA StepOnTime == Types /\ AllOnTime /\ WalkRight /\ [Next]_vars => AllOnTime'
<1> SUFFICES ASSUME Types, AllOnTime, WalkRight, [Next]_vars PROVE AllOnTime'
  OBVIOUS
<1>1. CASE MainCalls \/ CallbackCalls
  <2>1. PICK t \in Timers : Call(t)
    BY <1>1 DEF MainCalls, CallbackCalls
  <2>2. QED
    BY <2>1, CallOnTime DEF WalkRight
<1>2. CASE UNCHANGED vars
  BY <1>2 DEF vars, lists, past, clock, AllOnTime, OnTime
<1>3. QED
  BY <1>1, <1>2, TickOnTime DEF Next

LEMMA AlwaysOnTime == Spec /\ [][OwnLast]_vars => [](Types /\ AllOnTime /\ WalkRight)
<1>1. Init => AllOnTime
  BY DEF Init, AllOnTime
<1>2. QED
  BY <1>1, AlwaysWalk, ListsHoldMembers, AllAreNotified, StepOnTime, PTL DEF Spec, WalkRight

\* Every timer fires on the tick it should, or one tick early when a callback started it
\* in front of the walk, as long as a callback that has removed its own timer leaves the
\* walk alone.
THEOREM FiresInTime == Spec /\ [][OwnLast]_vars => []FiresOnTime
<1>1. Types /\ AllOnTime /\ WalkRight => FiresOnTime
  <2> SUFFICES ASSUME Types, AllOnTime, WalkRight, at = "notify", cursor # Nil,
                      Fires(timer[cursor])
               PROVE  age[cursor] \in {want[cursor], want[cursor] - 1}
    BY DEF FiresOnTime
  <2>1. cursor \in waiting /\ cursor \in Timers /\ cursor \in member
    BY DEF WalkRight, AllNotified, Types, TypeOK
  <2>2. /\ OnTime(cursor) /\ timer[cursor] \in Record
        /\ age[cursor] \in Nat /\ want[cursor] \in Nat
    BY <2>1 DEF AllOnTime, Types, TypeOK
  <2>3. timer[cursor].flag = "EN" /\ timer[cursor].tick \in {0, 1}
    BY <2>2, TickedIs
  <2>4. QED
    BY <2>1, <2>2, <2>3 DEF OnTime
<1>2. QED
  BY <1>1, AlwaysOnTime, PTL

\* And after a tick no enabled timer is overdue.
THEOREM NoneLate == Spec /\ [][OwnLast]_vars => []NoneOverdue
<1>1. Types /\ AllOnTime => NoneOverdue
  <2> SUFFICES ASSUME Types, AllOnTime, at = "idle", NEW t \in member, timer[t].flag = "EN"
               PROVE  age[t] < want[t]
    BY DEF NoneOverdue
  <2>1. /\ t \notin waiting /\ OnTime(t) /\ timer[t] \in Record
        /\ age[t] \in Nat /\ want[t] \in Nat
    BY DEF AllOnTime, Types, TypeOK
  <2>2. timer[t].tick \in Nat
    BY <2>1 DEF Record
  <2>3. QED
    BY <2>1, <2>2 DEF OnTime
<1>2. QED
  BY <1>1, AlwaysOnTime, PTL
=============================================================================
