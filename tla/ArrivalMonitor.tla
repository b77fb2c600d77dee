--------------------------- MODULE ArrivalMonitor ---------------------------
(***************************************************************************)
(* core/navigation_result.py: the monitor that decides from measured poses *)
(* whether a navigation command has arrived, must be corrected, or has     *)
(* failed.  Two clocks advance independently: the server's (`now') and the *)
(* one that stamps poses, which a slow simulator may hold back, repeat or  *)
(* set back.  Lengths, angles and times are integers in units of the       *)
(* instance; the planar position is its coordinate along one line through  *)
(* the goal, which is the origin.                                          *)
(***************************************************************************)
EXTENDS Integers, Sequences

CONSTANTS
  Pose,                       \* the poses that may be measured
  FullTurn,                   \* headings are modulo this
  XyTolerance, YawTolerance,  \* NavigationPolicy
  SettleTime, SettleSamples,
  StaleTime,
  ProgressTime,
  MaxCorrections,
  XyProgress, YawProgress,    \* the least improvement that counts
  XyDrift, YawDrift,          \* time that a drift by one unit must take
  Step,                       \* how far a clock advances between two calls
  Bad, None                   \* a pose that is no pose; absence

ASSUME MonitorAssumption ==
  /\ FullTurn \in Nat \ {0}
  /\ {XyTolerance, YawTolerance, SettleTime, StaleTime, ProgressTime,
      MaxCorrections, XyProgress, YawProgress, XyDrift, YawDrift} \subseteq Nat
  /\ SettleSamples \in Nat \ {0, 1}
  /\ Step \subseteq Nat
  /\ None \notin Int

ASSUME PoseAssumption == Pose \subseteq [xy : Int, yaw : Int] /\ Bad \notin Pose

Sample == [at : Nat, stamp : Int, pose : Pose, stopped : BOOLEAN]

ASSUME NoneAssumption == None \notin Sample

VARIABLES
  now,          \* time.monotonic() at the latest call
  lastStamp,    \* last_sample_time
  lastFresh,    \* when a sample was last accepted
  settling,     \* the sample that settling is measured from, and how many since
  outsideSince, \* the same for standing still away from the goal
  progress,     \* the sample that progress is measured from
  corrections,
  verdict,      \* what the latest call has returned
  trail,        \* history: the accepted samples
  corrected     \* history: how long trail was at each correction

vars == <<now, lastStamp, lastFresh, settling, outsideSince, progress,
          corrections, verdict, trail, corrected>>

Failed  == {"stale", "stalled", "exhausted"}
Verdict == {"none", "succeeded", "correct"} \cup Failed
Since   == [from : Sample, count : Nat]

TypeOK ==
  /\ now \in Nat /\ lastFresh \in Nat
  /\ lastStamp \in Int \cup {None}
  /\ settling \in Since \cup {None}
  /\ outsideSince \in Since \cup {None}
  /\ progress \in Sample \cup {None}
  /\ corrections \in Nat
  /\ verdict \in Verdict
  /\ trail \in Seq(Sample)
  /\ corrected \in Seq(Nat)

Init ==
  /\ now = 0 /\ lastFresh = 0
  /\ lastStamp = None
  /\ settling = None /\ outsideSince = None /\ progress = None
  /\ corrections = 0
  /\ verdict = "none"
  /\ trail = <<>>
  /\ corrected = <<>>

-----------------------------------------------------------------------------
(* Measurement *)

Abs(n) == IF n < 0 THEN -n ELSE n

Turn(a, b) == LET d == (a - b) % FullTurn
              IN  IF 2 * d > FullTurn THEN FullTurn - d ELSE d

XyError(pose)  == Abs(pose.xy)
YawError(pose) == Turn(pose.yaw, 0)

Inside(pose) == XyError(pose) <= XyTolerance /\ YawError(pose) <= YawTolerance

\* Both clocks have advanced by t from sample s to sample e.
Elapsed(s, e, t) == e.at - s.at >= t /\ e.stamp - s.stamp >= t

\* The robot hardly moved from s to e, judged by the clock of the samples.
Steady(s, e) ==
  /\ Abs(e.pose.xy - s.pose.xy) * XyDrift <= e.stamp - s.stamp
  /\ Turn(e.pose.yaw, s.pose.yaw) * YawDrift <= e.stamp - s.stamp

Improved(s, e) ==
  \/ XyError(s.pose) - XyError(e.pose) >= XyProgress
  \/ YawError(s.pose) - YawError(e.pose) >= YawProgress

\* Fault: a simulator's slow clock is not waited for.
LongEnoughByServer(since, e) ==
  e.at - since.from.at >= SettleTime /\ since.count + 1 >= SettleSamples

\* Time and number of samples suffice for a decision at rest.
LongEnough(since, e) ==
  Elapsed(since.from, e, SettleTime) /\ since.count + 1 >= SettleSamples

Beginning(e) == [from |-> e, count |-> 1]
Counted(since) == [since EXCEPT !.count = @ + 1]

-----------------------------------------------------------------------------
(* update: one call at time `at' *)

\* Fault: staleness is measured from the latest call, not the latest sample.
IsFreshSinceCall(at) == at - now <= StaleTime

IsFresh(at) == at - lastFresh <= StaleTime

Stale(at) ==
  /\ ~IsFresh(at)
  /\ now' = at
  /\ verdict' = "stale"
  /\ UNCHANGED <<lastStamp, lastFresh, settling, outsideSince, progress,
                 corrections, trail, corrected>>

IsNew(stamp) == stamp # None /\ (lastStamp # None => stamp > lastStamp)

\* A repeated, set back or missing stamp and an invalid pose refresh nothing.
Ignore(at, stamp, pose) ==
  /\ IsFresh(at)
  /\ ~IsNew(stamp) \/ pose = Bad
  /\ now' = at
  /\ verdict' = "none"
  /\ UNCHANGED <<lastStamp, lastFresh, settling, outsideSince, progress,
                 corrections, trail, corrected>>

\* At rest within the tolerances.
Settle(e) ==
  /\ Inside(e.pose) /\ e.stopped
  /\ outsideSince' = None
  /\ UNCHANGED <<progress, corrections, corrected>>
  /\ \/ /\ settling = None
        /\ settling' = Beginning(e)
        /\ verdict' = "none"
     \/ /\ settling # None
        /\ ~LongEnough(settling, e)
        /\ settling' = Counted(settling)
        /\ verdict' = "none"
     \/ /\ settling # None
        /\ LongEnough(settling, e)
        /\ Steady(settling.from, e)
        /\ settling' = Counted(settling)
        /\ verdict' = "succeeded"
     \/ /\ settling # None
        /\ LongEnough(settling, e)
        /\ ~Steady(settling.from, e)
        /\ settling' = None
        /\ verdict' = "none"

\* Fault: one correction too many.
ExhaustedLate == corrections > MaxCorrections

Exhausted == corrections >= MaxCorrections

\* At rest away from the goal.
StandOutside(e) ==
  /\ ~Inside(e.pose) /\ e.stopped
  /\ settling' = None
  /\ \/ /\ outsideSince = None
        /\ outsideSince' = Beginning(e)
        /\ verdict' = "none"
        /\ UNCHANGED <<progress, corrections, corrected>>
     \/ /\ outsideSince # None
        /\ ~LongEnough(outsideSince, e)
        /\ outsideSince' = Counted(outsideSince)
        /\ verdict' = "none"
        /\ UNCHANGED <<progress, corrections, corrected>>
     \/ /\ outsideSince # None
        /\ LongEnough(outsideSince, e)
        /\ outsideSince' = None
        /\ Exhausted
        /\ verdict' = "exhausted"
        /\ UNCHANGED <<progress, corrections, corrected>>
     \/ /\ outsideSince # None
        /\ LongEnough(outsideSince, e)
        /\ outsideSince' = None
        /\ ~Exhausted
        /\ corrections' = corrections + 1
        /\ progress' = None
        /\ verdict' = "correct"
        /\ corrected' = Append(corrected, Len(trail'))

\* Fault: the window is measured by the server's clock alone.
WindowOverByServer(e) == e.at - progress.at >= ProgressTime

WindowOver(e) == Elapsed(progress, e, ProgressTime)

\* Fault: standing as far from the goal as before counts as progress.
HopefulUnlessWorse(e) ==
  \/ XyError(e.pose) <= XyError(progress.pose) /\ YawError(e.pose) <= YawError(progress.pose)
  \/ Inside(e.pose)

Hopeful(e) == Improved(progress, e) \/ Inside(e.pose)

Move(e) ==
  /\ ~e.stopped
  /\ settling' = None
  /\ outsideSince' = None
  /\ UNCHANGED <<corrections, corrected>>
  /\ \/ /\ progress = None
        /\ progress' = e
        /\ verdict' = "none"
     \/ /\ progress # None
        /\ ~WindowOver(e)
        /\ verdict' = "none"
        /\ UNCHANGED progress
     \/ /\ progress # None
        /\ WindowOver(e)
        /\ Hopeful(e)
        /\ progress' = e
        /\ verdict' = "none"
     \/ /\ progress # None
        /\ WindowOver(e)
        /\ ~Hopeful(e)
        /\ verdict' = "stalled"
        /\ UNCHANGED progress

Accept(e) ==
  /\ IsFresh(e.at)
  /\ IsNew(e.stamp)
  /\ now' = e.at
  /\ lastStamp' = e.stamp
  /\ lastFresh' = e.at
  /\ trail' = Append(trail, e)
  /\ Settle(e) \/ StandOutside(e) \/ Move(e)

\* The runtime polls until the verdict is final.  A stamp may advance, repeat,
\* be set back by one, or be missing.
Stamps == LET last == IF lastStamp = None THEN 0 ELSE lastStamp
          IN  {last + d : d \in Step \cup {0, -1}} \cup {None}

Next ==
  /\ verdict \in {"none", "correct"}
  /\ \E d \in Step :
       \/ Stale(now + d)
       \/ \E stamp \in Stamps, pose \in Pose \cup {Bad} : Ignore(now + d, stamp, pose)
       \/ \E stamp \in Stamps, pose \in Pose, stopped \in BOOLEAN :
            Accept([at |-> now + d, stamp |-> stamp, pose |-> pose, stopped |-> stopped])

Spec == Init /\ [][Next]_vars

-----------------------------------------------------------------------------
(* Properties *)

Latest == trail[Len(trail)]

\* In samples i to n the robot was measured at rest, within the tolerances or
\* not, long enough by both clocks and often enough.
RestFrom(i, n, inside) ==
  /\ \A j \in i..n : trail[j].stopped /\ (Inside(trail[j].pose) <=> inside)
  /\ n - i + 1 >= SettleSamples
  /\ Elapsed(trail[i], trail[n], SettleTime)

\* An arrival is reported only if the latest samples, without a gap, all saw
\* the robot stopped within the tolerances, long enough, and hardly moving from
\* the first of them to the last.
ArrivalIsMeasured ==
  verdict = "succeeded" =>
    \E i \in 1..Len(trail) :
      RestFrom(i, Len(trail), TRUE) /\ Steady(trail[i], Latest)

\* Samples since correction k of the command.
SinceCorrection(k) == (IF k = 0 THEN 1 ELSE corrected[k] + 1)

\* A command is corrected no more often than its policy allows, and every
\* correction, like the failure for want of another, follows a stop of its own
\* away from the goal: no sample justifies two corrections.
CorrectionsJustified ==
  /\ Len(corrected) = corrections
  /\ corrections <= MaxCorrections
  /\ \A k \in 1..Len(corrected) :
       \E i \in SinceCorrection(k - 1)..corrected[k] : RestFrom(i, corrected[k], FALSE)
  /\ verdict = "exhausted" =>
       /\ corrections = MaxCorrections
       /\ \E i \in SinceCorrection(corrections)..Len(trail) : RestFrom(i, Len(trail), FALSE)

\* A command is failed as stalled only for want of progress over the whole
\* window, by both clocks, since its latest correction.
StallIsReal ==
  verdict = "stalled" =>
    /\ ~Inside(Latest.pose) /\ ~Latest.stopped
    /\ \E i \in SinceCorrection(corrections)..Len(trail) :
         Elapsed(trail[i], Latest, ProgressTime) /\ ~Improved(trail[i], Latest)

\* A robot that keeps moving away from the goal and improves on nothing is
\* failed at the latest when two windows have passed.
StallIsNoticed ==
  \A i, j \in 1..Len(trail) :
    (/\ i < j
     /\ Elapsed(trail[i], trail[j], ProgressTime)
     /\ Elapsed(trail[j], Latest, ProgressTime)
     /\ \A k \in i..Len(trail) : ~trail[k].stopped /\ ~Inside(trail[k].pose)
     /\ \A k, l \in i..Len(trail) : k < l => ~Improved(trail[k], trail[l]))
    => verdict = "stalled"

\* What is not reported stale has been measured all along: every sample is a
\* new one by its own clock, and no two are further apart by the server's than
\* the policy allows, nor is the latest from now.
NeverBlind ==
  /\ \A j \in 2..Len(trail) :
       /\ trail[j].stamp > trail[j - 1].stamp
       /\ trail[j].at - trail[j - 1].at <= StaleTime
  /\ trail # <<>> /\ verdict # "stale" => now - Latest.at <= StaleTime

=============================================================================
