--------------------------- MODULE AutonomousProofs ---------------------------
(***************************************************************************)
(* The autonomous loop's safety gates, proved for every cap, every error   *)
(* limit, every verdict and whatever the siblings do.                      *)
(***************************************************************************)
EXTENDS Autonomous, SequenceTheorems, TLAPS

(* The phases of a cycle, by what runs and what is in hand.                *)
WithIntelligence ==
    {"initialize_intelligence", "ingest", "history", "bundle", "build_intent", "spawn_guard"}
WithBoth == {"initialize_guard", "submit", "await_guard"}
Bundled == {"build_intent", "spawn_guard", "initialize_guard", "submit", "await_guard"}
Intended == Bundled \ {"build_intent"}
Proposed == {"spawn_intelligence"} \cup WithIntelligence \cup WithBoth
Busy == {"recommend"} \cup Proposed

LEMMA PhaseNames ==
    DOMAIN NextPhase \cup Resting \cup {"recommend", "submit", "await_guard"}
        = Busy \cup Resting
  BY DEF NextPhase, Busy, Proposed, WithIntelligence, WithBoth

LEMMA NextPhases ==
    /\ NextPhase["spawn_intelligence"] = "initialize_intelligence"
    /\ NextPhase["initialize_intelligence"] = "ingest"
    /\ NextPhase["ingest"] = "history"
    /\ NextPhase["history"] = "bundle"
    /\ NextPhase["bundle"] = "build_intent"
    /\ NextPhase["build_intent"] = "spawn_guard"
    /\ NextPhase["spawn_guard"] = "initialize_guard"
    /\ NextPhase["initialize_guard"] = "submit"
  BY DEF NextPhase

LEMMA LimitType == Limit \in Nat /\ Limit >= 1
  BY AutonomousAssumption DEF Limit

-----------------------------------------------------------------------------
(* What a cycle has in hand when it comes to use it.                       *)
ReadyInv ==
    /\ phase \in Proposed => verdict \in VerdictType /\ ProposesTrade(verdict)
    /\ phase \in Bundled => bundle_time \in Nat /\ bundle_time <= elapsed
    /\ IF phase \in Intended
       THEN intent \in IntentType /\ FollowsDecision(intent) /\ Eligible(intent)
       ELSE intent = None
    /\ phase = "await_guard" => intent.state # "built"
    /\ OrdersFollowDecisions

(* Exactly the siblings the phase calls for are running.                   *)
ChildrenInv ==
    children = IF phase \in WithIntelligence THEN {"intelligence"}
               ELSE IF phase \in WithBoth THEN Siblings ELSE {}

(* The counter reaches its limit when the loop breaks off and never before.*)
ErrorsInv == phase = "broken" <=> consecutive_errors = Limit

(* Every cycle but the one under way, or broken off, has been counted.     *)
CountInv ==
    max_iterations # NoLimit =>
        /\ iteration <= max_iterations
        /\ phase \in Busy \cup {"broken"} =>
              iteration < max_iterations /\ cycles = iteration + 1
        /\ phase \notin Busy \cup {"broken"} => cycles = iteration

HaltInv == phase = "halted" => stop_file \/ CapReached

(* An order after the stop file is the last thing that happens.            *)
LateInv ==
    late = 0 \/ /\ late = 1
                /\ stop_file
                /\ \/ phase \in Resting
                   \/ phase = "await_guard" /\ intent.state = "filled"

(* The counter is the number of errors the outcomes end in.                *)
StreakInv ==
    /\ Len(outcomes) <= Limit
    /\ consecutive_errors <= Len(outcomes)
    /\ \A i \in 1 .. Len(outcomes) :
          i > Len(outcomes) - consecutive_errors => outcomes[i] \in Errors
    /\ consecutive_errors < Len(outcomes) =>
          outcomes[Len(outcomes) - consecutive_errors] \notin Errors

IInv ==
    /\ TypeOK
    /\ ReadyInv
    /\ ChildrenInv
    /\ ErrorsInv
    /\ CountInv
    /\ HaltInv
    /\ LateInv
    /\ StreakInv

-----------------------------------------------------------------------------
Outcomes == {"no_trade", "rejected", "filled"}

(* Only the latest outcomes are kept, as many as the limit.                *)
LEMMA TailOfAppend ==
    ASSUME NEW S, NEW seq \in Seq(S), NEW x \in S
    PROVE  LET new == Tail(Append(seq, x))
           IN  /\ new \in Seq(S) /\ Len(new) = Len(seq)
               /\ \A i \in 1 .. Len(seq) : new[i] = Append(seq, x)[i + 1]
<1> DEFINE app == Append(seq, x)
<1>0. app \in Seq(S) /\ Len(app) = Len(seq) + 1
  OBVIOUS
<1>1. app \in Seq(S) /\ Len(app) = Len(seq) + 1 /\ app # << >>
  <2> HIDE DEF app
  <2> QED BY <1>0
<1> HIDE DEF app
<1>2. /\ Tail(app) \in Seq(S) /\ Len(Tail(app)) = Len(app) - 1
      /\ \A i \in 1 .. Len(Tail(app)) : Tail(app)[i] = app[i + 1]
  BY <1>1, HeadTailProperties
<1>3. Len(Tail(app)) = Len(seq)
  BY <1>1, <1>2
<1> QED BY <1>2, <1>3 DEF app

LEMMA LatestLast ==
    ASSUME NEW S, NEW seq \in Seq(S), NEW x \in S, Len(seq) <= Limit,
           NEW new, new = Latest(Append(seq, x))
    PROVE  /\ new \in Seq(S)
           /\ Len(new) = IF Len(seq) < Limit THEN Len(seq) + 1 ELSE Limit
           /\ Len(new) >= 1
           /\ new[Len(new)] = x
<1>0. Limit \in Nat /\ Limit >= 1 /\ Len(seq) \in Nat
  BY LimitType
<1>1. CASE Len(seq) < Limit
  <2>1. new = Append(seq, x)
    BY <1>0, <1>1 DEF Latest
  <2> QED BY <1>0, <1>1, <2>1
<1>2. CASE Len(seq) = Limit
  <2>1. new = Tail(Append(seq, x))
    BY <1>0, <1>2 DEF Latest
  <2>2. new \in Seq(S) /\ Len(new) = Limit /\ new[Limit] = Append(seq, x)[Limit + 1]
    BY <1>0, <1>2, <2>1, TailOfAppend
  <2> QED BY <1>0, <1>2, <2>2
<1> QED BY <1>0, <1>1, <1>2

LEMMA LatestShift ==
    ASSUME NEW S, NEW seq \in Seq(S), NEW x \in S, Len(seq) <= Limit,
           NEW new, new = Latest(Append(seq, x)), NEW i \in 1 .. Len(new) - 1
    PROVE  new[i] = seq[i + Len(seq) + 1 - Len(new)]
<1>0. Limit \in Nat /\ Limit >= 1 /\ Len(seq) \in Nat
  BY LimitType
<1>1. CASE Len(seq) < Limit
  <2>1. new = Append(seq, x)
    BY <1>0, <1>1 DEF Latest
  <2>2. Len(new) = Len(seq) + 1
    BY <2>1
  <2>3. i \in 1 .. Len(seq) /\ i + Len(seq) + 1 - Len(new) = i
    BY <1>0, <2>2
  <2> QED BY <2>1, <2>3
<1>2. CASE Len(seq) = Limit
  <2>1. new = Tail(Append(seq, x))
    BY <1>0, <1>2 DEF Latest
  <2>2. Len(new) = Len(seq)
    BY <2>1, TailOfAppend
  <2>3. i \in 1 .. Len(seq) /\ i + 1 \in 1 .. Len(seq) /\ i + Len(seq) + 1 - Len(new) = i + 1
    BY <1>0, <2>2
  <2>4. new[i] = Append(seq, x)[i + 1]
    BY <2>1, <2>3, TailOfAppend
  <2>5. Append(seq, x)[i + 1] = seq[i + 1]
    BY <2>3
  <2> QED BY <2>3, <2>4, <2>5
<1> QED BY <1>0, <1>1, <1>2

(* A report ends a cycle as the invariant wants it.                        *)
LEMMA ReportKeeps ==
    ASSUME IInv, phase \in Busy, NEW o \in Outcomes, Report(o)
    PROVE  IInv'
<1> USE LimitType
<1>1. /\ outcomes' \in Seq(Errors \cup Outcomes)
      /\ Len(outcomes') \in Nat /\ Len(outcomes') <= Limit /\ Len(outcomes') >= 1
      /\ outcomes'[Len(outcomes')] = o
  <2> DEFINE S == Errors \cup Outcomes  new == outcomes'
  <2>1. /\ Len(outcomes) <= Limit /\ o \in S /\ outcomes \in Seq(S)
        /\ new = Latest(Append(outcomes, o))
    BY DEF IInv, TypeOK, StreakInv, Report, Outcomes
  <2> HIDE DEF S, new
  <2>2. /\ new \in Seq(S)
        /\ Len(new) = IF Len(outcomes) < Limit THEN Len(outcomes) + 1 ELSE Limit
        /\ new[Len(new)] = o
    BY <2>1, LatestLast
  <2> QED BY <2>1, <2>2 DEF S, new
<1>2. TypeOK'
  BY <1>1, AutonomousAssumption, PhaseNames
     DEF IInv, TypeOK, Report, DropClients, Goto, Bump, Resting, Outcomes
<1>3. ReadyInv'
  BY DEF IInv, ReadyInv, Report, DropClients, Goto, Proposed, Bundled, Intended,
         WithIntelligence, WithBoth, OrdersFollowDecisions
<1>4. ChildrenInv' /\ ErrorsInv' /\ HaltInv'
  BY DEF Report, DropClients, Goto, ChildrenInv, ErrorsInv, HaltInv,
         WithIntelligence, WithBoth
<1>5. CountInv'
  BY AutonomousAssumption
     DEF IInv, TypeOK, CountInv, Report, Goto, Bump, Busy, Proposed, WithIntelligence, WithBoth
<1>6. LateInv'
  <2>1. late' = late /\ stop_file' = stop_file /\ phase' = "sleeping"
    BY DEF Report, Goto
  <2>2. late = 0 \/ (late = 1 /\ stop_file)
    BY DEF IInv, LateInv
  <2> QED BY <2>1, <2>2 DEF LateInv, Resting
<1>7. StreakInv'
  BY <1>1 DEF StreakInv, Report, Errors, Outcomes
<1> QED BY <1>2, <1>3, <1>4, <1>5, <1>6, <1>7 DEF IInv

(* So does an error, whether or not it trips the breaker.                  *)
LEMMA ErrorKeeps ==
    ASSUME IInv, phase \in Busy, NEW k \in Errors, Error(k)
    PROVE  IInv'
<1> USE LimitType
<1> DEFINE new == outcomes'
<1>0. /\ phase # "broken" /\ consecutive_errors \in Nat /\ consecutive_errors < Limit
      /\ consecutive_errors' = consecutive_errors + 1
      /\ outcomes \in Seq(Errors \cup Outcomes) /\ Len(outcomes) \in Nat
  BY DEF IInv, TypeOK, ErrorsInv, Error, Outcomes, Busy, Proposed, WithIntelligence, WithBoth
<1>1. /\ new \in Seq(Errors \cup Outcomes)
      /\ Len(new) = IF Len(outcomes) < Limit THEN Len(outcomes) + 1 ELSE Limit
      /\ new[Len(new)] = k
      /\ \A i \in 1 .. Len(new) - 1 : new[i] = outcomes[i + Len(outcomes) + 1 - Len(new)]
  <2> DEFINE S == Errors \cup Outcomes
  <2>1. Len(outcomes) <= Limit /\ k \in S /\ outcomes \in Seq(S)
    BY <1>0 DEF IInv, StreakInv
  <2>2. new = Latest(Append(outcomes, k))
    BY DEF Error
  <2> HIDE DEF S, new
  <2>3. /\ new \in Seq(S)
        /\ Len(new) = IF Len(outcomes) < Limit THEN Len(outcomes) + 1 ELSE Limit
        /\ new[Len(new)] = k
    BY <2>1, <2>2, LatestLast
  <2>4. ASSUME NEW i \in 1 .. Len(new) - 1
        PROVE  new[i] = outcomes[i + Len(outcomes) + 1 - Len(new)]
    BY <2>1, <2>2, LatestShift
  <2> QED BY <2>3, <2>4 DEF S
<1>2. TypeOK'
  BY <1>0, <1>1, AutonomousAssumption, PhaseNames
     DEF IInv, TypeOK, Error, DropClients, Goto, Bump, Resting, Outcomes
<1>3. ReadyInv'
  BY DEF IInv, ReadyInv, Error, DropClients, Goto, Proposed, Bundled, Intended,
         WithIntelligence, WithBoth, OrdersFollowDecisions
<1>4. ChildrenInv' /\ HaltInv'
  BY DEF Error, DropClients, Goto, ChildrenInv, HaltInv, WithIntelligence, WithBoth
<1>5. ErrorsInv'
  BY <1>0 DEF Error, Goto, ErrorsInv
<1>6. CountInv'
  <2> SUFFICES ASSUME max_iterations # NoLimit PROVE CountInv'
    BY DEF CountInv, Error
  <2>1. /\ iteration \in Nat /\ iteration < max_iterations /\ cycles = iteration + 1
        /\ max_iterations \in 0 .. MaxCount - 1 /\ MaxCount \in Nat
    BY AutonomousAssumption DEF IInv, TypeOK, CountInv
  <2>2. /\ cycles' = cycles /\ max_iterations' = max_iterations
        /\ \/ phase' = "broken" /\ iteration' = iteration
           \/ phase' = "sleeping" /\ iteration' = iteration + 1
    BY <2>1 DEF Error, Goto, Bump
  <2> QED BY <2>1, <2>2 DEF CountInv, Busy, Proposed, WithIntelligence, WithBoth
<1>7. LateInv'
  <2>1. late' = late /\ stop_file' = stop_file /\ phase' \in {"sleeping", "broken"}
    BY DEF Error, Goto
  <2>2. late = 0 \/ (late = 1 /\ stop_file)
    BY DEF IInv, LateInv
  <2> QED BY <2>1, <2>2 DEF LateInv, Resting
<1>8. StreakInv'
  <2> DEFINE n == Len(outcomes)  m == Len(new)  c == consecutive_errors
  <2>1. /\ n <= Limit /\ c <= n
        /\ \A i \in 1 .. n : i > n - c => outcomes[i] \in Errors
        /\ c < n => outcomes[n - c] \notin Errors
    BY DEF IInv, StreakInv
  <2>2. m \in Nat /\ m <= Limit /\ m >= 1 /\ c + 1 <= m /\ (c + 1 < m => c < n)
    BY <1>0, <1>1, <2>1
  <2>3. \A i \in 1 .. m : i > m - (c + 1) => new[i] \in Errors
    <3> SUFFICES ASSUME NEW i \in 1 .. m, i > m - (c + 1) PROVE new[i] \in Errors
      OBVIOUS
    <3>1. CASE i = m
      BY <3>1, <1>1
    <3>2. CASE i < m
      <4>0. n \in Nat /\ c \in Nat /\ m \in Nat /\ (m = n + 1 \/ m = n) /\ i \in Nat /\ i >= 1
        BY <1>0, <1>1, <2>1, <2>2
      <4>1. i \in 1 .. m - 1 /\ i + n + 1 - m \in 1 .. n /\ i + n + 1 - m > n - c
        <5> HIDE DEF m, n, c, new
        <5> QED BY <3>2, <4>0
      <4>2. new[i] = outcomes[i + n + 1 - m]
        BY <4>1, <1>1
      <4> QED BY <4>1, <4>2, <2>1
    <3> QED BY <3>1, <3>2, <2>2
  <2>4. c + 1 < m => new[m - (c + 1)] \notin Errors
    <3> SUFFICES ASSUME c + 1 < m PROVE new[m - (c + 1)] \notin Errors
      OBVIOUS
    <3>1. /\ m - (c + 1) \in 1 .. m - 1 /\ c < n
          /\ (m - (c + 1)) + n + 1 - m = n - c
      BY <1>0, <2>2
    <3> HIDE DEF m, n, c
    <3> QED BY <3>1, <1>1, <2>1 DEF m, n, c
  <2> QED BY <1>0, <2>2, <2>3, <2>4 DEF StreakInv
<1> QED BY <1>2, <1>3, <1>4, <1>5, <1>6, <1>7, <1>8 DEF IInv

-----------------------------------------------------------------------------
LEMMA InitHolds == Init => IInv
<1> SUFFICES ASSUME Init PROVE IInv
  OBVIOUS
<1>1. TypeOK
  BY LimitType, AutonomousAssumption, PhaseNames DEF Init, TypeOK, Resting
<1>2. ReadyInv /\ ChildrenInv /\ HaltInv /\ LateInv
  BY DEF Init, ReadyInv, ChildrenInv, HaltInv, LateInv, OrdersFollowDecisions,
         Proposed, Bundled, Intended, WithIntelligence, WithBoth
<1>3. ErrorsInv /\ StreakInv
  BY LimitType DEF Init, ErrorsInv, StreakInv
<1>4. CountInv
  BY AutonomousAssumption DEF Init, CountInv, Busy, Proposed, WithIntelligence, WithBoth
<1> QED BY <1>1, <1>2, <1>3, <1>4 DEF IInv

(* The rest of the loop's top: to halt, to begin, to wake.                 *)
LEMMA HaltKeeps == IInv /\ Halt => IInv'
<1> SUFFICES ASSUME IInv, Halt PROVE IInv'
  OBVIOUS
<1> USE DEF Halt, Goto, counters, inHand, history
<1>1. TypeOK' /\ StreakInv'
  BY PhaseNames DEF IInv, TypeOK, StreakInv, Resting
<1>2. ReadyInv' /\ ChildrenInv' /\ ErrorsInv'
  BY DEF IInv, ReadyInv, ChildrenInv, ErrorsInv, OrdersFollowDecisions,
         Proposed, Bundled, Intended, WithIntelligence, WithBoth
<1>3. CountInv' /\ HaltInv' /\ LateInv'
  BY DEF IInv, CountInv, HaltInv, LateInv, CapReached, Resting,
         Busy, Proposed, WithIntelligence, WithBoth
<1> QED BY <1>1, <1>2, <1>3 DEF IInv

LEMMA BeginKeeps == IInv /\ BeginCycle => IInv'
<1> SUFFICES ASSUME IInv, BeginCycle PROVE IInv'
  OBVIOUS
<1> USE DEF BeginCycle, Goto, counters, inHand
<1>1. TypeOK' /\ StreakInv'
  BY AutonomousAssumption, PhaseNames DEF IInv, TypeOK, StreakInv, Bump, Busy
<1>2. ReadyInv' /\ ChildrenInv' /\ ErrorsInv'
  BY DEF IInv, ReadyInv, ChildrenInv, ErrorsInv, OrdersFollowDecisions,
         Proposed, Bundled, Intended, WithIntelligence, WithBoth
<1>3. CountInv'
  BY AutonomousAssumption DEF IInv, TypeOK, CountInv, CapReached, Bump,
         Busy, Proposed, WithIntelligence, WithBoth
<1>4. HaltInv' /\ LateInv'
  BY DEF IInv, HaltInv, LateInv
<1> QED BY <1>1, <1>2, <1>3, <1>4 DEF IInv

LEMMA WakeKeeps == IInv /\ Wake => IInv'
<1> SUFFICES ASSUME IInv, Wake PROVE IInv'
  OBVIOUS
<1> USE DEF Wake, Goto, counters, inHand, history
<1>1. TypeOK' /\ StreakInv'
  BY PhaseNames DEF IInv, TypeOK, StreakInv, Resting
<1>2. ReadyInv' /\ ChildrenInv' /\ ErrorsInv'
  BY DEF IInv, ReadyInv, ChildrenInv, ErrorsInv, OrdersFollowDecisions,
         Proposed, Bundled, Intended, WithIntelligence, WithBoth
<1>3. CountInv' /\ HaltInv' /\ LateInv'
  BY DEF IInv, CountInv, HaltInv, LateInv, Resting,
         Busy, Proposed, WithIntelligence, WithBoth
<1> QED BY <1>1, <1>2, <1>3 DEF IInv

-----------------------------------------------------------------------------
(* Steps within a cycle leave the counters and the breaker alone.          *)
LEMMA WithinCycle ==
    ASSUME IInv, phase \in Busy, phase' \in Busy,
           UNCHANGED <<stop_file, counters, cycles, outcomes>>
    PROVE  ErrorsInv' /\ CountInv' /\ HaltInv' /\ StreakInv'
<1> USE DEF counters
<1>1. ErrorsInv' /\ HaltInv'
  BY DEF IInv, ErrorsInv, HaltInv, Busy, Proposed, WithIntelligence, WithBoth
<1>2. CountInv'
  BY DEF IInv, CountInv
<1>3. StreakInv'
  BY DEF IInv, StreakInv
<1> QED BY <1>1, <1>2, <1>3

(* Up to the submission there is no order after the stop file.             *)
LEMMA StillOnTime ==
    ASSUME IInv, phase \in Busy \ {"await_guard"}, late' = late
    PROVE  LateInv'
<1>1. late = 0
  BY DEF IInv, LateInv, Resting, Busy, Proposed, WithIntelligence, WithBoth
<1> QED BY <1>1 DEF LateInv

LEMMA RecommendKeeps == IInv /\ Recommend => IInv'
<1> SUFFICES ASSUME IInv, Recommend PROVE IInv'
  OBVIOUS
<1>0. phase = "recommend" /\ phase \in Busy
  BY DEF Recommend, Busy
<1>1. CASE Error("soft")
  BY <1>0, <1>1, ErrorKeeps DEF Errors
<1>2. CASE Report("no_trade")
  BY <1>0, <1>2, ReportKeeps DEF Outcomes
<1>3. ASSUME NEW v \in Verdicts, ProposesTrade(v), verdict' = v, Goto("spawn_intelligence"),
             UNCHANGED <<stop_file, counters, elapsed, bundle_time, children, intent, history>>
      PROVE  IInv'
  <2>0. phase' = "spawn_intelligence" /\ phase' \in Busy
    BY <1>3 DEF Goto, Busy, Proposed
  <2>1. TypeOK'
    BY <1>3, <2>0, AutonomousAssumption, PhaseNames DEF IInv, TypeOK, counters, history
  <2>2. ReadyInv' /\ ChildrenInv'
    BY <1>0, <1>3, <2>0, AutonomousAssumption
       DEF IInv, ReadyInv, ChildrenInv, OrdersFollowDecisions, ProposesTrade, history,
           Proposed, Bundled, Intended, WithIntelligence, WithBoth
  <2>3. ErrorsInv' /\ CountInv' /\ HaltInv' /\ StreakInv' /\ LateInv'
    BY <1>0, <1>3, <2>0, WithinCycle, StillOnTime DEF history
  <2> QED BY <2>1, <2>2, <2>3 DEF IInv
<1> QED BY <1>1, <1>2, <1>3 DEF Recommend

LEMMA SpawnKeeps == ASSUME NEW s \in Siblings, IInv, Spawn(s) PROVE IInv'
<1>0. /\ phase = IF s = "guard" THEN "spawn_guard" ELSE "spawn_intelligence"
      /\ s \in {"intelligence", "guard"}
      /\ phase \in Busy \ {"await_guard"}
  BY DEF Spawn, Siblings, Busy, Proposed, WithIntelligence
<1>1. CASE Error("hard")
  BY <1>0, <1>1, ErrorKeeps DEF Errors
<1>2. CASE /\ children' = children \cup {s}
           /\ Goto(NextPhase[phase])
           /\ UNCHANGED <<stop_file, counters, elapsed, verdict, bundle_time, intent, history>>
  <2>0. /\ phase' = IF s = "guard" THEN "initialize_guard" ELSE "initialize_intelligence"
        /\ phase' \in Busy
    BY <1>0, <1>2, NextPhases DEF Goto, Busy, Proposed, WithIntelligence, WithBoth
  <2>1. TypeOK'
    BY <1>2, <2>0, PhaseNames DEF IInv, TypeOK, counters, history
  <2>2. ReadyInv'
    BY <1>0, <1>2, <2>0
       DEF IInv, ReadyInv, OrdersFollowDecisions, history,
           Proposed, Bundled, Intended, WithIntelligence, WithBoth
  <2>3. ChildrenInv'
    BY <1>0, <1>2, <2>0 DEF IInv, ChildrenInv, Siblings, WithIntelligence, WithBoth
  <2>4. ErrorsInv' /\ CountInv' /\ HaltInv' /\ StreakInv' /\ LateInv'
    BY <1>0, <1>2, <2>0, WithinCycle, StillOnTime DEF history
  <2> QED BY <2>1, <2>2, <2>3, <2>4 DEF IInv
<1> QED BY <1>1, <1>2 DEF Spawn

LEMMA AnswerKeeps == IInv /\ SiblingAnswers => IInv'
<1> SUFFICES ASSUME IInv, SiblingAnswers PROVE IInv'
  OBVIOUS
<1>0. /\ phase \in Handshakes \cup Tools
      /\ phase \in Busy \ {"await_guard"}
  BY DEF SiblingAnswers, Handshakes, Tools, Busy, Proposed, WithIntelligence, WithBoth
<1>1. CASE Error("hard") \/ Error("soft")
  BY <1>0, <1>1, ErrorKeeps DEF Errors
<1>2. CASE /\ Goto(NextPhase[phase])
           /\ bundle_time' = IF phase = "bundle" THEN elapsed ELSE bundle_time
           /\ UNCHANGED <<stop_file, counters, elapsed, verdict, children, intent, history>>
  <2>0. /\ phase' \in Busy
        /\ \/ phase = "initialize_intelligence" /\ phase' = "ingest"
           \/ phase = "ingest" /\ phase' = "history"
           \/ phase = "history" /\ phase' = "bundle"
           \/ phase = "bundle" /\ phase' = "build_intent"
           \/ phase = "initialize_guard" /\ phase' = "submit"
    BY <1>0, <1>2, NextPhases
       DEF Goto, Handshakes, Tools, Busy, Proposed, WithIntelligence, WithBoth
  <2>1. TypeOK'
    BY <1>2, <2>0, AutonomousAssumption, PhaseNames DEF IInv, TypeOK, counters, history
  <2>2. ReadyInv'
    BY <1>2, <2>0, AutonomousAssumption
       DEF IInv, TypeOK, ReadyInv, OrdersFollowDecisions, history,
           Proposed, Bundled, Intended, WithIntelligence, WithBoth
  <2>3. ChildrenInv'
    BY <1>2, <2>0 DEF IInv, ChildrenInv, WithIntelligence, WithBoth
  <2>4. ErrorsInv' /\ CountInv' /\ HaltInv' /\ StreakInv' /\ LateInv'
    BY <1>0, <1>2, <2>0, WithinCycle, StillOnTime DEF history
  <2> QED BY <2>1, <2>2, <2>3, <2>4 DEF IInv
<1> QED BY <1>1, <1>2 DEF SiblingAnswers
-----------------------------------------------------------------------------
(* The intent says what the verdict does, dated after the evidence.        *)
LEMMA IntentIsRight ==
    ASSUME verdict \in VerdictType, ProposesTrade(verdict), bundle_time \in Nat,
           elapsed \in Nat, bundle_time <= elapsed
    PROVE  Intent \in IntentType /\ FollowsDecision(Intent) /\ Eligible(Intent)
  BY DEF Intent, IntentType, FollowsDecision, Eligible, ProposesTrade, VerdictType, Abs

(* What the guard makes of an order does not change what the order says.   *)
LEMMA StateKeepsIntent ==
    ASSUME NEW i \in IntentType, FollowsDecision(i), Eligible(i),
           NEW st \in {"asked", "filled", "rejected"}
    PROVE  LET new == [i EXCEPT !.state = st]
           IN  new \in IntentType /\ FollowsDecision(new) /\ Eligible(new) /\ new.state = st
  BY DEF IntentType, FollowsDecision, Eligible

LEMMA BuildKeeps == IInv /\ BuildIntent => IInv'
<1> SUFFICES ASSUME IInv, BuildIntent PROVE IInv'
  OBVIOUS
<1>0. /\ phase = "build_intent" /\ phase \in Busy \ {"await_guard"}
      /\ phase' = "spawn_guard" /\ phase' \in Busy
      /\ UNCHANGED <<stop_file, counters, elapsed, verdict, bundle_time, children, history>>
      /\ intent' = Intent
  BY NextPhases DEF BuildIntent, Goto, Busy, Proposed, WithIntelligence
<1>1. Intent \in IntentType /\ FollowsDecision(Intent) /\ Eligible(Intent)
  <2>1. /\ verdict \in VerdictType /\ ProposesTrade(verdict)
        /\ bundle_time \in Nat /\ elapsed \in Nat /\ bundle_time <= elapsed
    BY <1>0, AutonomousAssumption
       DEF IInv, TypeOK, ReadyInv, Proposed, WithIntelligence, Bundled
  <2> QED BY <2>1, IntentIsRight
<1>2. TypeOK'
  BY <1>0, <1>1, PhaseNames DEF IInv, TypeOK, counters, history
<1>3. ReadyInv' /\ ChildrenInv'
  <2>1. IntentType' = IntentType /\ FollowsDecision(intent') /\ Eligible(intent')
    BY <1>0, <1>1 DEF IntentType
  <2> QED
    BY <1>0, <1>1, <2>1
       DEF IInv, ReadyInv, ChildrenInv, OrdersFollowDecisions, FollowsDecision, Eligible, history,
           Proposed, Bundled, Intended, WithIntelligence, WithBoth
<1>4. ErrorsInv' /\ CountInv' /\ HaltInv' /\ StreakInv' /\ LateInv'
  BY <1>0, WithinCycle, StillOnTime DEF history
<1> QED BY <1>2, <1>3, <1>4 DEF IInv

LEMMA SubmitKeeps == IInv /\ Submit => IInv'
<1> SUFFICES ASSUME IInv, Submit PROVE IInv'
  OBVIOUS
<1>0. /\ phase = "submit" /\ phase \in Busy \ {"await_guard"}
      /\ phase' = "await_guard" /\ phase' \in Busy
      /\ UNCHANGED <<stop_file, counters, elapsed, verdict, bundle_time, children, history>>
      /\ intent' = [intent EXCEPT !.state = "asked"]
  BY DEF Submit, Goto, Busy, Proposed, WithBoth
<1>1. /\ intent' \in IntentType /\ FollowsDecision(intent') /\ Eligible(intent')
      /\ intent'.state = "asked"
  BY <1>0, StateKeepsIntent DEF IInv, ReadyInv, Intended, Bundled
<1>2. TypeOK'
  BY <1>0, <1>1, PhaseNames DEF IInv, TypeOK, counters, history
<1>3. ReadyInv' /\ ChildrenInv'
  BY <1>0, <1>1
     DEF IInv, ReadyInv, ChildrenInv, OrdersFollowDecisions, history,
         Proposed, Bundled, Intended, WithIntelligence, WithBoth
<1>4. ErrorsInv' /\ CountInv' /\ HaltInv' /\ StreakInv' /\ LateInv'
  BY <1>0, WithinCycle, StillOnTime DEF history
<1> QED BY <1>2, <1>3, <1>4 DEF IInv

LEMMA GuardActsKeeps == IInv /\ GuardActs => IInv'
<1> SUFFICES ASSUME IInv, GuardActs PROVE IInv'
  OBVIOUS
<1>0. /\ phase = "await_guard" /\ phase \in Busy /\ intent.state = "asked"
      /\ UNCHANGED <<stop_file, counters, phase, elapsed, verdict, bundle_time, children,
                     cycles, outcomes>>
  BY DEF GuardActs, Busy, Proposed, WithBoth
<1>1. intent \in IntentType /\ FollowsDecision(intent) /\ Eligible(intent)
  BY <1>0 DEF IInv, ReadyInv, Intended, Bundled
<1>2. late = 0
  BY <1>0 DEF IInv, LateInv, Resting
<1>3. /\ intent' \in IntentType /\ FollowsDecision(intent') /\ Eligible(intent')
      /\ intent'.state # "built"
      /\ \/ UNCHANGED <<order, late>>
         \/ /\ intent'.state = "filled"
            /\ order' = [intent |-> intent, age |-> elapsed]
            /\ late' = IF stop_file THEN 1 ELSE 0
  <2>1. CASE intent' = [intent EXCEPT !.state = "rejected"] /\ UNCHANGED <<order, late>>
    BY <2>1, <1>1, StateKeepsIntent
  <2>2. CASE /\ intent' = [intent EXCEPT !.state = "filled"]
             /\ order' = [intent |-> intent, age |-> elapsed]
             /\ late' = IF stop_file THEN Bump(late) ELSE late
    <3>1. late' = IF stop_file THEN 1 ELSE 0
      BY <2>2, <1>2, AutonomousAssumption DEF Bump
    <3>2. /\ intent' \in IntentType /\ FollowsDecision(intent') /\ Eligible(intent')
          /\ intent'.state = "filled"
      BY <2>2, <1>1, StateKeepsIntent
    <3> QED BY <2>2, <3>1, <3>2
  <2> QED BY <2>1, <2>2 DEF GuardActs
<1>4. TypeOK'
  <2>1. order' \in [intent : IntentType, age : Nat] \cup {None}
    BY <1>0, <1>1, <1>3, AutonomousAssumption DEF IInv, TypeOK
  <2>2. late' \in 0 .. MaxCount
    BY <1>2, <1>3, AutonomousAssumption
  <2> QED BY <1>0, <1>3, <2>1, <2>2, PhaseNames DEF IInv, TypeOK, counters
<1>5. ReadyInv' /\ ChildrenInv'
  <2>1. OrdersFollowDecisions'
    BY <1>1, <1>3 DEF IInv, ReadyInv, OrdersFollowDecisions
  <2> QED
    BY <1>0, <1>3, <2>1
       DEF IInv, ReadyInv, ChildrenInv, Proposed, Bundled, Intended, WithIntelligence, WithBoth
<1>6. ErrorsInv' /\ CountInv' /\ HaltInv' /\ StreakInv'
  BY <1>0, WithinCycle
<1>7. LateInv'
  BY <1>0, <1>2, <1>3 DEF LateInv
<1> QED BY <1>4, <1>5, <1>6, <1>7 DEF IInv

LEMMA GuardEndsKeeps == IInv /\ (GuardReplies \/ GuardBreaks) => IInv'
<1> SUFFICES ASSUME IInv, GuardReplies \/ GuardBreaks PROVE IInv'
  OBVIOUS
<1>0. phase = "await_guard" /\ phase \in Busy
  BY DEF GuardReplies, GuardBreaks, Busy, Proposed, WithBoth
<1>1. CASE GuardBreaks
  BY <1>0, <1>1, ErrorKeeps DEF GuardBreaks, Errors
<1>2. CASE GuardReplies
  <2>1. intent.state \in Outcomes
    BY <1>0, <1>2
       DEF GuardReplies, IInv, ReadyInv, Intended, Bundled, IntentType, Outcomes
  <2>2. Report(intent.state)
    BY <1>2 DEF GuardReplies
  <2> QED BY <1>0, <2>1, <2>2, ReportKeeps
<1> QED BY <1>1, <1>2

(* The operator and the clock, who act at any time.                        *)
LEMMA OutsideKeeps == IInv /\ (DropStopFile \/ Tick \/ UNCHANGED vars) => IInv'
<1> SUFFICES ASSUME IInv, DropStopFile \/ Tick \/ UNCHANGED vars PROVE IInv'
  OBVIOUS
<1>1. CASE DropStopFile
  <2> USE <1>1 DEF DropStopFile, counters, inHand, history
  <2>1. TypeOK' /\ ReadyInv' /\ ChildrenInv'
    BY DEF IInv, TypeOK, ReadyInv, ChildrenInv, OrdersFollowDecisions
  <2>2. ErrorsInv' /\ CountInv' /\ HaltInv' /\ LateInv' /\ StreakInv'
    BY DEF IInv, ErrorsInv, CountInv, HaltInv, LateInv, StreakInv
  <2> QED BY <2>1, <2>2 DEF IInv
<1>2. CASE Tick
  <2> USE <1>2 DEF Tick, counters, history
  <2>1. TypeOK' /\ ChildrenInv'
    BY AutonomousAssumption DEF IInv, TypeOK, ChildrenInv
  <2>2. ReadyInv'
    BY AutonomousAssumption DEF IInv, TypeOK, ReadyInv, OrdersFollowDecisions
  <2>3. ErrorsInv' /\ CountInv' /\ HaltInv' /\ LateInv' /\ StreakInv'
    BY DEF IInv, ErrorsInv, CountInv, HaltInv, LateInv, StreakInv, CapReached
  <2> QED BY <2>1, <2>2, <2>3 DEF IInv
<1>3. CASE UNCHANGED vars
  <2> USE <1>3 DEF vars
  <2>1. TypeOK' /\ ReadyInv' /\ ChildrenInv'
    BY DEF IInv, TypeOK, ReadyInv, ChildrenInv, OrdersFollowDecisions
  <2>2. ErrorsInv' /\ CountInv' /\ HaltInv' /\ LateInv' /\ StreakInv'
    BY DEF IInv, ErrorsInv, CountInv, HaltInv, LateInv, StreakInv, CapReached
  <2> QED BY <2>1, <2>2 DEF IInv
<1> QED BY <1>1, <1>2, <1>3

(* The inductive invariant: every step of the loop, its siblings, the      *)
(* operator and the clock keeps it.                                        *)
LEMMA IInvHolds == Spec => []IInv
<1>1. IInv /\ [Next]_vars => IInv'
  <2> SUFFICES ASSUME IInv, [Next]_vars PROVE IInv'
    OBVIOUS
  <2>1. CASE Halt \/ BeginCycle \/ Wake
    BY <2>1, HaltKeeps, BeginKeeps, WakeKeeps
  <2>2. CASE Recommend \/ SiblingAnswers \/ BuildIntent
    BY <2>2, RecommendKeeps, AnswerKeeps, BuildKeeps
  <2>3. CASE \E s \in Siblings : Spawn(s)
    BY <2>3, SpawnKeeps
  <2>4. CASE Submit \/ GuardActs \/ GuardReplies \/ GuardBreaks
    BY <2>4, SubmitKeeps, GuardActsKeeps, GuardEndsKeeps
  <2>5. CASE DropStopFile \/ Tick \/ Gone \/ UNCHANGED vars
    BY <2>5, OutsideKeeps DEF Gone
  <2> QED BY <2>1, <2>2, <2>3, <2>4, <2>5 DEF Next
<1> QED BY <1>1, InitHolds, PTL DEF Spec

-----------------------------------------------------------------------------
(* The loop's variables keep their types, whatever the siblings do.        *)
THEOREM LoopTypeCorrect == Spec => []TypeOK
<1>1. IInv => TypeOK
  BY DEF IInv
<1> QED BY <1>1, IInvHolds, PTL

(* Every executed order is the approved rebalance it was made from, to its *)
(* side and size.                                                          *)
THEOREM OrdersAreRight == Spec => []OrdersFollowDecisions
<1>1. IInv => OrdersFollowDecisions
  BY DEF IInv, ReadyInv
<1> QED BY <1>1, IInvHolds, PTL

(* No intent is dated before the evidence it cites, however long the       *)
(* evidence took to collect.                                               *)
THEOREM IntentsFollowEvidence == Spec => []EvidencePrecedesIntent
<1>1. IInv => EvidencePrecedesIntent
  BY DEF IInv, ReadyInv, EvidencePrecedesIntent
<1> QED BY <1>1, IInvHolds, PTL

(* At most one order is executed after the stop file appeared.             *)
THEOREM StopFileWorks == Spec => []StopFileStopsOrders
<1>1. IInv => StopFileStopsOrders
  BY DEF IInv, LateInv, StopFileStopsOrders
<1> QED BY <1>1, IInvHolds, PTL

(* The loop never begins more cycles than its cap, and halts on it.        *)
THEOREM CapWorks == Spec => []IterationsAreCapped
<1>1. IInv => IterationsAreCapped
  <2> SUFFICES ASSUME IInv, max_iterations # NoLimit
               PROVE  /\ cycles <= max_iterations
                      /\ phase = "halted" /\ ~stop_file => cycles = max_iterations
    BY DEF IterationsAreCapped
  <2>1. iteration \in Nat /\ max_iterations \in Nat
    BY AutonomousAssumption DEF IInv, TypeOK
  <2>2. cycles <= max_iterations
    BY <2>1 DEF IInv, CountInv
  <2>3. ASSUME phase = "halted", ~stop_file PROVE cycles = max_iterations
    BY <2>1, <2>3
       DEF IInv, CountInv, HaltInv, CapReached, Busy, Proposed, WithIntelligence, WithBoth
  <2> QED BY <2>2, <2>3
<1> QED BY <1>1, IInvHolds, PTL

(* The breaker trips exactly on the limit's worth of errors in a row.      *)
THEOREM BreakerWorks == Spec => []BreakerCountsEveryError
<1>1. IInv => BreakerCountsEveryError
  <2> SUFFICES ASSUME IInv PROVE BreakerCountsEveryError
    OBVIOUS
  <2>0. /\ Limit \in Nat /\ Limit >= 1 /\ consecutive_errors \in Nat
        /\ outcomes \in Seq(Errors \cup {"no_trade", "rejected", "filled"})
        /\ Len(outcomes) \in Nat
    BY LimitType DEF IInv, TypeOK
  <2>1. ASSUME phase = "broken"
        PROVE  Len(outcomes) = Limit /\ \A i \in 1 .. Limit : outcomes[i] \in Errors
    BY <2>0, <2>1 DEF IInv, ErrorsInv, StreakInv
  <2>2. ASSUME Len(outcomes) = Limit, \A i \in 1 .. Limit : outcomes[i] \in Errors
        PROVE  phase = "broken"
    <3>1. ~(consecutive_errors < Limit)
      <4> SUFFICES ASSUME consecutive_errors < Limit PROVE FALSE
        OBVIOUS
      <4>1. Limit - consecutive_errors \in 1 .. Limit
        BY <2>0
      <4> QED BY <2>2, <4>1 DEF IInv, StreakInv
    <3>2. consecutive_errors = Limit
      BY <2>0, <2>2, <3>1 DEF IInv, StreakInv
    <3> QED BY <3>2 DEF IInv, ErrorsInv
  <2> QED BY <2>1, <2>2 DEF BreakerCountsEveryError
<1> QED BY <1>1, IInvHolds, PTL

(* No sibling outlives its cycle, and each is alive while it is spoken to. *)
THEOREM SiblingsAreKilled == Spec => []NoSiblingIsLeft
<1>1. IInv => NoSiblingIsLeft
  BY DEF IInv, ChildrenInv, NoSiblingIsLeft, Resting, Tools, WithIntelligence, WithBoth
<1> QED BY <1>1, IInvHolds, PTL
=============================================================================
