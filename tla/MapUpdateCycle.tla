--------------------------- MODULE MapUpdateCycle ---------------------------
(***************************************************************************)
(* The time MapMgr::Update gives to the maps.  Three kinds of maps take    *)
(* turns: the continents in mapUpdateStep 0, the battlegrounds in step 1,  *)
(* the dungeons in step 2; in step 3 all wait until the cycle has lasted   *)
(* the configured interval.  Each kind has a timer that collects the time  *)
(* until its turn, i_timer[3] the time of the cycle.                       *)
(***************************************************************************)
EXTENDS Integers

CONSTANTS
  MaxDiff,              \* the longest tick
  MinInterval, MaxInterval,   \* of CONFIG_INTERVAL_MAPUPDATE
  MaxReloads,           \* bound: reloads of the configuration
  MaxElapsed            \* bound: the time a behaviour lasts

ASSUME DiffAssumption == MaxDiff \in Nat /\ MaxElapsed \in Nat /\ MaxReloads \in Nat
ASSUME IntervalAssumption ==
  MinInterval \in Nat \ {0} /\ MaxInterval \in Nat /\ MinInterval <= MaxInterval

VARIABLES
  mapUpdateStep,
  timer,                \* i_timer[0 .. 2]
  total, interval,      \* i_timer[3]
  elapsed,              \* history: the time since the start
  received,             \* history: kind -> the time its maps were updated with
  reloads               \* reloads so far

cycleVars == <<mapUpdateStep, timer, total, interval, elapsed, received, reloads>>

Kinds == 0 .. 2

CycleInit ==
  /\ mapUpdateStep = 0
  /\ timer = [k \in Kinds |-> 0]
  /\ total = 0
  /\ interval \in MinInterval .. MaxInterval
  /\ elapsed = 0
  /\ received = [k \in Kinds |-> 0]
  /\ reloads = 0

\* Mutant of Turn: the timers of those who wait stand still.
Turn_OnlyOwn(diff) ==
  /\ timer' = [k \in Kinds |-> IF k = mapUpdateStep THEN 0 ELSE timer[k]]
  /\ received' = [k \in Kinds |-> IF k = mapUpdateStep THEN received[k] + timer[k] + diff
                                                        ELSE received[k]]

\* The maps of the kind whose turn it is are updated with what its timer has
\* collected; the others go on collecting.
Turn(diff) ==
  /\ timer' = [k \in Kinds |-> IF k = mapUpdateStep THEN 0 ELSE timer[k] + diff]
  /\ received' = [k \in Kinds |-> IF k = mapUpdateStep THEN received[k] + timer[k] + diff
                                                        ELSE received[k]]

\* Mutant of NextStep: the interval is compared the wrong way round its end.
NextStep_After(t) ==
  LET n == IF mapUpdateStep < 3 THEN mapUpdateStep + 1 ELSE 3
  IN  IF n = 3 /\ t > interval THEN 0 ELSE n

\* The step after this turn, when the cycle has lasted t.
NextStep(t) ==
  LET n == IF mapUpdateStep < 3 THEN mapUpdateStep + 1 ELSE 3
  IN  IF n = 3 /\ t >= interval THEN 0 ELSE n

Update(diff) ==
  /\ elapsed + diff <= MaxElapsed
  /\ elapsed' = elapsed + diff
  /\ Turn(diff)
  /\ mapUpdateStep' = NextStep(total + diff)
  /\ total' = IF NextStep(total + diff) = 0 THEN 0 ELSE total + diff
  /\ UNCHANGED <<interval, reloads>>

\* A reload of the configuration, which keeps the interval above a minimum:
\* SetInterval, and Reset of the cycle's timer.
SetMapUpdateInterval(t) ==
  /\ reloads < MaxReloads
  /\ reloads' = reloads + 1
  /\ interval' = t
  /\ total' = IF total >= t THEN total % t ELSE total
  /\ UNCHANGED <<mapUpdateStep, timer, elapsed, received>>

CycleNext ==
  \/ \E diff \in 0 .. MaxDiff : Update(diff)
  \/ \E t \in MinInterval .. MaxInterval : SetMapUpdateInterval(t)

CycleSpec == CycleInit /\ [][CycleNext]_cycleVars

-----------------------------------------------------------------------------
\* Every variable has its type.
CycleTypeOK ==
  /\ mapUpdateStep \in 0 .. 3
  /\ timer \in [Kinds -> Nat]
  /\ total \in Nat
  /\ interval \in MinInterval .. MaxInterval
  /\ elapsed \in Nat
  /\ received \in [Kinds -> Nat]
  /\ reloads \in 0 .. MaxReloads

\* Nothing is lost and nothing counted twice: the maps of each kind have been
\* updated with all the time there was, but for what their timer still holds.
NoTimeLost == \A k \in Kinds : received[k] + timer[k] = elapsed

\* The longest cycle: the ticks until the interval is over, three at least.
Cycle == IF MaxInterval - 1 > 2 * MaxDiff THEN MaxInterval - 1 + MaxDiff ELSE 3 * MaxDiff

\* As long as nothing was reloaded no kind of map waits longer than a cycle and
\* the ticks until its turn, however long the ticks are.
WaitBounded == reloads = 0 => \A k \in Kinds : timer[k] <= Cycle + k * MaxDiff
=============================================================================
