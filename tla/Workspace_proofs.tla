-------------------------- MODULE Workspace_proofs --------------------------
(***************************************************************************)
(* What holds of the tier and the schedule for any tiers and intervals,    *)
(* however late a run is and whatever is interleaved.                      *)
(***************************************************************************)
EXTENDS WorkspaceProps, TLAPS

USE TierAssumption, IntervalAssumption, BoundAssumption
    DEF Tiers, Trial, Free, Paid, None

-----------------------------------------------------------------------------
(* next_run_for.                                                           *)

LEMMA Division ==
    ASSUME NEW a \in Nat, NEW d \in Nat \ {0}
    PROVE  /\ a \div d \in Nat
           /\ a % d \in 0..(d - 1)
           /\ a = d * (a \div d) + (a % d)
<1>1. a \div d \in Int BY SMT
<1>2. a % d \in 0..(d - 1) BY SMT
<1>3. a = d * (a \div d) + (a % d) BY SMT
<1>. DEFINE q == a \div d
            r == a % d
<1>4. q \in Int /\ r \in 0..(d - 1) /\ a = d * q + r BY <1>1, <1>2, <1>3
<1>. HIDE DEF q, r
<1>5. CASE q <= -1
  <2>1. d * q <= -d BY <1>4, <1>5
  <2>. QED BY <1>4, <2>1
<1>6. CASE q >= 0 BY <1>1, <1>2, <1>3, <1>6 DEF q
<1>. QED BY <1>4, <1>5, <1>6

LEMMA NextRunOfLate ==
    ASSUME NEW now \in Int, NEW delta \in Nat \ {0}, NEW last \in Int, last < now
    PROVE  LET q == (now - last) \div delta
               r == (now - last) % delta
           IN  /\ q \in Nat /\ r \in 0..(delta - 1)
               /\ now = last + delta * q + r
               /\ NextRunFor(now, delta, last) = last + delta * q + delta
<1>. DEFINE late == now - last
            q == late \div delta
            r == late % delta
<1>1. late \in Nat /\ late > 0 OBVIOUS
<1>2. q \in Nat /\ r \in 0..(delta - 1) /\ late = delta * q + r
  BY <1>1, Division
<1>3. NextRunFor(now, delta, last) = last + delta * (q + 1)
  BY <1>1 DEF NextRunFor, Periods
<1>. HIDE DEF q, r
<1>4. delta * (q + 1) = delta * q + delta /\ delta * q \in Int BY <1>2
<1>5. /\ q \in Nat /\ r \in 0..(delta - 1)
      /\ now = last + delta * q + r
      /\ NextRunFor(now, delta, last) = last + delta * q + delta
  BY <1>1, <1>2, <1>3, <1>4
<1>. QED BY <1>5 DEF q, r

\* A run in the past is followed by one in the future, no further than an interval from now.
THEOREM NextRunInFuture ==
    ASSUME NEW now \in Int, NEW delta \in Nat \ {0}, NEW last \in Int, last < now
    PROVE  /\ NextRunFor(now, delta, last) \in Int
           /\ now < NextRunFor(now, delta, last)
           /\ NextRunFor(now, delta, last) <= now + delta
<1>. DEFINE q == (now - last) \div delta
            r == (now - last) % delta
            m == delta * q
            next == NextRunFor(now, delta, last)
<1>1. /\ q \in Nat /\ r \in 0..(delta - 1)
      /\ now = last + delta * q + r /\ next = last + delta * q + delta
  BY NextRunOfLate
<1>. HIDE DEF q, r, next
<1>2. m \in Int /\ now = last + m + r /\ next = last + m + delta BY <1>1
<1>. HIDE DEF m
<1>3. next \in Int /\ now < next /\ next <= now + delta BY <1>1, <1>2
<1>. QED BY <1>3 DEF next

\* ... and it lies a whole number of intervals after the run it follows.
LEMMA NextRunOnGrid ==
    ASSUME NEW now \in Int, NEW delta \in Nat \ {0}, NEW last \in Int, last < now
    PROVE  \E k \in Nat : NextRunFor(now, delta, last) = last + delta * k
<1>. DEFINE q == (now - last) \div delta
<1>1. q \in Nat /\ NextRunFor(now, delta, last) = last + delta * q + delta BY NextRunOfLate
<1>. HIDE DEF q
<1>2. delta * (q + 1) = delta * q + delta BY <1>1
<1>3. delta * q \in Int BY <1>1
<1>4. NextRunFor(now, delta, last) = last + delta * (q + 1) BY <1>1, <1>2, <1>3
<1>. QED BY <1>1, <1>4

LEMMA NextRunFromNow ==
    ASSUME NEW now \in Int, NEW delta \in Nat \ {0}
    PROVE  NextRunFor(now, delta, now) = now + delta
BY DEF NextRunFor

LEMMA MultipleModulo ==
    ASSUME NEW k \in Nat, NEW d \in Nat \ {0}
    PROVE  (d * k) % d = 0
<1>. DEFINE a == d * k
<1>1. a \in Nat OBVIOUS
<1>2. a \div d \in Nat /\ a % d \in 0..(d - 1) /\ a = d * (a \div d) + (a % d)
  BY <1>1, Division
<1>. DEFINE q == a \div d
            r == a % d
<1>3. q \in Nat /\ r \in 0..(d - 1) /\ d * k = d * q + r BY <1>2
<1>. SUFFICES r = 0 OBVIOUS
<1>. HIDE DEF q, r
<1>4. d * (k - q) = r BY <1>3
<1>5. CASE k - q >= 1
  <2>1. d * (k - q) >= d BY <1>3, <1>5
  <2>. QED BY <1>3, <1>4, <2>1
<1>6. CASE k - q = 0 BY <1>3, <1>4, <1>6
<1>7. CASE k - q <= -1
  <2>1. d * (k - q) <= -d BY <1>3, <1>7
  <2>. QED BY <1>3, <1>4, <2>1
<1>. QED BY <1>3, <1>5, <1>6, <1>7

-----------------------------------------------------------------------------
(* Types.                                                                  *)

LEMMA NextRunType ==
    ASSUME NEW t \in Tiers, NEW last \in Int, last <= 0
    PROVE  NextRunFor(0, Interval[t], last) \in Int
<1>. DEFINE d == Interval[t]
<1>1. d \in Nat \ {0} OBVIOUS
<1>. HIDE DEF d
<1>2. CASE last < 0
  <2>1. NextRunFor(0, d, last) \in Int BY <1>1, <1>2, NextRunInFuture
  <2>. QED BY <2>1 DEF d
<1>3. CASE last = 0
  <2>1. NextRunFor(0, d, 0) = 0 + d BY <1>1, NextRunFromNow
  <2>. QED BY <1>1, <1>3, <2>1 DEF d
<1>. QED BY <1>2, <1>3

LEMMA CurrentType == TypeOK => Current \in Tiers
BY DEF TypeOK, Current, Max

LEMMA InitType == Init => TypeOK
<1>. SUFFICES ASSUME Init PROVE TypeOK OBVIOUS
<1>1. due \in Int BY NextRunType DEF Init
<1>2. changes \in 0..MaxChanges /\ crashes \in 0..MaxCrashes BY DEF Init
<1>3. /\ selected = 0 /\ btier = 0 /\ stier = 0 /\ sat = 0 /\ highest = None /\ changed = {}
      /\ held = FALSE /\ subscribed = FALSE
  BY DEF Init
<1>5. 0 \in Tiers OBVIOUS
<1>4. bpc = "idle" /\ spc = "idle" BY DEF Init
<1>6. selected \in Tiers /\ btier \in Tiers /\ stier \in Tiers /\ changed \subseteq Tiers BY <1>3, <1>5
<1>7. highest \in Tiers \cup {None} BY <1>3
<1>8. held \in BOOLEAN /\ subscribed \in BOOLEAN BY <1>3
<1>9. sat \in Int BY <1>3
<1>10. ending \in BOOLEAN /\ unpaid \in BOOLEAN /\ created \in BOOLEAN BY DEF Init
<1>11. hpc \in {"idle", "update"} BY DEF Init
<1>12. htier \in Tiers
  <2>1. htier = 0 BY DEF Init
  <2>. QED BY <1>5, <2>1
<1>. HIDE DEF Tiers, None
<1>. QED BY <1>1, <1>2, <1>4, <1>6, <1>7, <1>8, <1>9, <1>10, <1>11, <1>12
      DEF TypeOK

LEMMA NextType ==
    ASSUME TypeOK, [Next]_vars
    PROVE  TypeOK'
<1>. USE DEF TypeOK, tier, billing, stream, handler, scheduler, trial, vars
<1>1. CASE Subscribe
  <2>1. created' \in BOOLEAN BY <1>1, Zenon DEF Subscribe
  <2>2. changes' \in 0..MaxChanges BY <1>1 DEF Subscribe
  <2>3. subscribed' \in BOOLEAN BY <1>1 DEF Subscribe
  <2>4. UNCHANGED <<selected, highest, held, due, billing, changed, handler, scheduler, trial, crashes>>
    BY <1>1 DEF Subscribe
  <2>. QED BY <2>1, <2>2, <2>3, <2>4
<1>19. CASE Unsubscribe BY <1>19 DEF Unsubscribe
<1>2. ASSUME NEW t \in Tiers, AskForTier(t) PROVE TypeOK' BY <1>2 DEF AskForTier
<1>3. ASSUME NEW t \in Tiers, UpdateTier(t)
      PROVE  /\ selected' \in Tiers /\ highest' \in Tiers \cup {None}
             /\ held' \in BOOLEAN /\ subscribed' \in BOOLEAN
  BY <1>3 DEF UpdateTier, HighestTier, Max
<1>4. CASE ChangeTier BY <1>3, <1>4 DEF ChangeTier
<1>5. CASE RefuseTier BY <1>5 DEF RefuseTier
<1>6. CASE PublishTier BY <1>6 DEF PublishTier
<1>7. CASE EndTrial
  <2>1. Free \in Tiers BY DEF Free
  <2>. QED BY <1>3, <1>7, <2>1 DEF EndTrial
<1>21. CASE EndTrialAsListed
  <2>1. Free \in Tiers BY DEF Free
  <2>. QED BY <1>21, <2>1 DEF EndTrialAsListed
<1>17. CASE ListTrial BY <1>17 DEF ListTrial
<1>18. CASE TrialNotMoved BY <1>18 DEF TrialNotMoved
<1>8. CASE EndCycle BY <1>8 DEF EndCycle
<1>9. CASE HandleEvents
  <2>1. ASSUME NEW t \in changed, HandleTierChanged(t) PROVE TypeOK'
    <3>1. due' \in Int BY <2>1, NextRunType DEF HandleTierChanged
    <3>2. changed' \subseteq Tiers BY <2>1 DEF HandleTierChanged
    <3>3. crashes' \in 0..MaxCrashes
      <4>1. CASE changed' = changed \ {t} BY <2>1, <4>1 DEF HandleTierChanged
      <4>2. CASE crashes < MaxCrashes BY <2>1, <4>2 DEF HandleTierChanged
      <4>. QED BY <2>1, <4>1, <4>2 DEF HandleTierChanged
    <3>. QED BY <2>1, <3>1, <3>2, <3>3 DEF HandleTierChanged
  <2>2. CASE ListSubscribers
    <3>1. hpc' \in {"idle", "update"} /\ htier' \in Tiers BY <2>2, CurrentType DEF ListSubscribers
    <3>2. created' \in BOOLEAN BY <2>2 DEF ListSubscribers
    <3>3. UNCHANGED <<tier, due, billing, changed, scheduler, trial, changes, crashes>>
      BY <2>2 DEF ListSubscribers
    <3>. QED BY <3>1, <3>2, <3>3
  <2>3. CASE HandleSubscriptionCreated
    <3>1. due' \in Int BY <2>3, NextRunType DEF HandleSubscriptionCreated
    <3>2. hpc' = "idle" /\ htier' = 0 BY <2>3 DEF HandleSubscriptionCreated
    <3>3. UNCHANGED <<tier, billing, stream, scheduler, trial, changes, crashes>>
      BY <2>3 DEF HandleSubscriptionCreated
    <3>. QED BY <3>1, <3>2, <3>3
  <2>. QED BY <1>9, <2>1, <2>2, <2>3 DEF HandleEvents
<1>20. CASE ResetNextRun BY <1>20 DEF ResetNextRun
<1>10. CASE ReadDue BY <1>10 DEF ReadDue, Overdue
<1>11. CASE GetTier BY <1>11, CurrentType DEF GetTier, ReadTier
<1>12. CASE Collect BY <1>12 DEF Collect
<1>13. CASE UpdateNextRun
  <2>1. due' \in Int BY <1>13, NextRunType DEF UpdateNextRun
  <2>. QED BY <1>13, <2>1 DEF UpdateNextRun
<1>14. CASE Tick BY <1>14 DEF Tick
<1>15. CASE CrashApp \/ CrashDispatching
  <2>1. crashes < MaxCrashes /\ crashes' = crashes + 1 BY <1>15 DEF CrashApp, CrashDispatching
  <2>2. crashes' \in 0..MaxCrashes BY <2>1
  <2>3. CASE CrashApp BY <2>2, <2>3 DEF CrashApp
  <2>4. CASE CrashDispatching
    <3>1. /\ UNCHANGED <<tier, due, billing, stream, handler, changes>>
          /\ spc' = "idle" /\ sat' = 0 /\ stier' = 0 /\ ending' = FALSE /\ unpaid' = FALSE
      BY <2>4 DEF CrashDispatching
    <3>2. stier' \in Tiers BY <3>1
    <3>3. sat' \in Int BY <3>1
    <3>8. spc' # "idle" => sat' < 0 BY <3>1
    <3>9. ending' \in BOOLEAN /\ unpaid' \in BOOLEAN BY <3>1
    <3>4. spc' \in {"idle", "tier", "collect", "update"} BY <3>1
    <3>5. /\ selected' \in Tiers /\ highest' \in Tiers \cup {None}
          /\ held' \in BOOLEAN /\ subscribed' \in BOOLEAN
      BY <3>1
    <3>6. due' \in Int /\ bpc' \in {"idle", "update", "publish"} /\ btier' \in Tiers BY <3>1
    <3>7. changed' \subseteq Tiers /\ changes' \in 0..MaxChanges BY <3>1
    <3>10. created' \in BOOLEAN /\ hpc' \in {"idle", "update"} /\ htier' \in Tiers BY <3>1
    <3>. QED BY <2>2, <3>2, <3>3, <3>4, <3>5, <3>6, <3>7, <3>8, <3>9, <3>10, Zenon
  <2>. QED BY <1>15, <2>3, <2>4
<1>16. CASE UNCHANGED vars BY <1>16
<1>. QED BY <1>1, <1>2, <1>4, <1>5, <1>6, <1>7, <1>8, <1>9, <1>10, <1>11, <1>12, <1>13, <1>14,
            <1>15, <1>16, <1>17, <1>18, <1>19, <1>20, <1>21
   DEF Next, Schedule

\* Tiers are tiers and times are times; in particular the scheduler only works on a run that is
\* overdue, which is what makes the next one it computes a future one.
THEOREM TypeCorrect == Spec => []TypeOK
BY InitType, NextType, PTL DEF Spec

-----------------------------------------------------------------------------
(* The schedule and the tier.                                              *)

LEMMA UpdateIsAhead ==
    ASSUME TypeOK, UpdateNextRun
    PROVE  /\ due' \in 1..Interval[stier]
           /\ (due' - sat) % Interval[stier] = 0
<1>. DEFINE d == Interval[stier]
<1>1. d \in Nat \ {0} /\ sat \in Int /\ sat < 0 BY DEF TypeOK, UpdateNextRun
<1>2. due' = NextRunFor(0, d, sat) BY DEF UpdateNextRun
<1>. HIDE DEF d
<1>3. due' \in Int /\ 0 < due' /\ due' <= 0 + d
  BY <1>1, <1>2, NextRunInFuture
<1>0. 0 \in Int OBVIOUS
<1>4. PICK k \in Nat : NextRunFor(0, d, sat) = sat + d * k BY <1>0, <1>1, NextRunOnGrid, Zenon
<1>5. due' - sat = d * k BY <1>1, <1>2, <1>4
<1>6. (due' - sat) % d = 0 BY <1>1, <1>5, MultipleModulo
<1>7. due' \in 1..d BY <1>1, <1>3
<1>. QED BY <1>6, <1>7 DEF d

\* However late the scheduler is and whatever the intervals are, the next run it stores lies in the
\* future, at most one interval away, and on the grid of the run it has read.
THEOREM ScheduleAhead == Spec => NextRunAhead
<1>1. TypeOK /\ [Next]_vars =>
        [UpdateNextRun => /\ due' \in 1..Interval[stier]
                          /\ (due' - sat) % Interval[stier] = 0]_vars
  BY UpdateIsAhead
<1>. QED BY <1>1, TypeCorrect, PTL DEF Spec, NextRunAhead

\* What makes the cycle hold the tier: a running cycle has a highest tier, and no tier is selected
\* without raising it.
CycleInv ==
    /\ held => highest # None
    /\ highest # None => selected <= highest

LEMMA UpdateTierRaises ==
    ASSUME TypeOK, CycleInv, NEW t \in Tiers, UpdateTier(t)
    PROVE  CycleInv' /\ (held /\ held' => Current' >= Current)
<1>. USE DEF TypeOK, CycleInv, UpdateTier, HighestTier, Max
<1>1. CycleInv' OBVIOUS
<1>2. ASSUME held, held' PROVE Current' >= Current
  <2>1. Current = highest BY <1>2 DEF Current
  <2>2. Current' = highest' BY <1>2 DEF Current
  <2>. QED BY <1>2, <2>1, <2>2
<1>. QED BY <1>1, <1>2

LEMMA NextCycle ==
    ASSUME TypeOK, CycleInv, [Next]_vars
    PROVE  CycleInv' /\ (held /\ held' /\ ~EndTrialAsListed => Current' >= Current)
<1>0. UNCHANGED <<selected, highest, held>> => CycleInv' /\ (held /\ held' => Current' >= Current)
  <2>1. UNCHANGED <<selected, highest, held>> => CycleInv' /\ Current' = Current BY DEF CycleInv, Current, Max
  <2>2. Current \in Int BY CurrentType
  <2>. QED BY <2>1, <2>2
<1>1. CASE ChangeTier BY <1>1, UpdateTierRaises DEF ChangeTier, TypeOK
<1>2. CASE EndTrial BY <1>2, UpdateTierRaises DEF EndTrial
<1>6. CASE EndTrialAsListed BY <1>6 DEF EndTrialAsListed, CycleInv, Free, None
<1>3. CASE EndCycle BY <1>3 DEF EndCycle, CycleInv
<1>4. CASE Subscribe \/ Unsubscribe BY <1>0, <1>4 DEF Subscribe, Unsubscribe
<1>5. CASE ~(ChangeTier \/ EndTrial \/ EndTrialAsListed \/ EndCycle \/ Subscribe \/ Unsubscribe)
  BY <1>0, <1>5 DEF Next, ListSubscribers, HandleSubscriptionCreated, ResetNextRun, ListTrial,
                    TrialNotMoved, AskForTier, RefuseTier, PublishTier, HandleEvents, HandleTierChanged,
                    Schedule, ReadDue, GetTier, Collect, UpdateNextRun, Tick, CrashApp,
                    CrashDispatching, vars, tier
<1>. QED BY <1>1, <1>2, <1>3, <1>4, <1>5, <1>6

\* While a billing cycle runs, no sequence of tier changes, trial ends and lost events lowers the tier
\* that is active, but for the end of a trial that writes the row as it was listed.
THEOREM CycleKeepsTier == Spec => NoDowngradeInCycle
<1>1. Init => CycleInv BY DEF Init, CycleInv
<1>2. TypeOK /\ CycleInv /\ [Next]_vars => CycleInv' /\ [held /\ held' /\ ~EndTrialAsListed => Current' >= Current]_vars
  BY NextCycle
<1>. QED BY <1>1, <1>2, TypeCorrect, PTL DEF Spec, NoDowngradeInCycle

=============================================================================
