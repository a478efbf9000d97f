------------------------------ MODULE Autonomous ------------------------------
(***************************************************************************)
(* The autonomous loop: one guard cycle after another until the stop file, *)
(* the iteration cap or the circuit breaker halts it.                      *)
(*                                                                         *)
(* A cycle asks the engine for a decision, collects evidence from one      *)
(* sibling process and submits an order to another.  Both are children of  *)
(* the loop, spoken to over their pipes, one request and one line of       *)
(* answer at a time, and killed when the cycle ends.  What a sibling does, *)
(* and whether it ever answers, is not up to the loop.                     *)
(*                                                                         *)
(* Outcomes of a cycle are kept apart by kind: an error is hard when a     *)
(* sibling failed to start or spoke a broken protocol, soft otherwise.     *)
(***************************************************************************)
EXTENDS Integers, Sequences

CONSTANTS
    Verdicts,                \* what the policy may say of a decision
    Caps,                    \* caps the command line may give
    NoLimit,                 \* for none
    max_consecutive_errors,  \* as given on the command line
    None,                    \* nothing of the kind
    MaxElapsed, MaxCount     \* bounds: a cycle's clock, and the counters

VerdictType ==
    [action : {"observe_blocked", "hold_inside_effective_band", "paper_rebalance_preview"},
     approved : BOOLEAN, shares : Int]

ASSUME AutonomousAssumption ==
    /\ Verdicts \subseteq VerdictType
    /\ max_consecutive_errors \in Nat
    /\ MaxElapsed \in Nat /\ MaxCount \in Nat \ {0, 1}
    /\ Caps \subseteq {NoLimit} \cup 0 .. MaxCount - 1
    /\ NoLimit \notin Int /\ None \notin VerdictType

VARIABLES
    stop_file,           \* whether the operator's stop file exists
    max_iterations,      \* as given when the loop was started
    iteration, consecutive_errors,
    phase,               \* where the loop is
    elapsed,             \* seconds since the cycle read the clock
    verdict,             \* of the decision in hand
    bundle_time,         \* when the evidence bundle was made
    children,            \* sibling processes that run
    intent,              \* the order, and what the guard has done with it
    order,               \* history: the last order the guard executed
    cycles,              \* history: how many cycles were begun
    outcomes,            \* history: how the latest of them ended
    late                 \* history: orders executed since the stop file appeared

vars == <<stop_file, max_iterations, iteration, consecutive_errors, phase, elapsed, verdict,
          bundle_time, children, intent, order, cycles, outcomes, late>>

(* What a cycle has in hand while it runs.                                 *)
inHand == <<elapsed, verdict, bundle_time, children, intent>>
counters == <<max_iterations, iteration, consecutive_errors>>
history == <<order, cycles, outcomes, late>>

Siblings == {"intelligence", "guard"}

Init ==
    /\ stop_file \in BOOLEAN
    /\ max_iterations \in Caps
    /\ iteration = 0
    /\ consecutive_errors = 0
    /\ phase = "top"
    /\ elapsed = 0
    /\ verdict = None
    /\ bundle_time = None
    /\ children = {}
    /\ intent = None
    /\ order = None
    /\ cycles = 0
    /\ outcomes = <<>>
    /\ late = 0

Limit == IF max_consecutive_errors < 1 THEN 1 ELSE max_consecutive_errors

Bump(n) == IF n < MaxCount THEN n + 1 ELSE n

Goto(p) == phase' = p

-----------------------------------------------------------------------------
Errors == {"hard", "soft"}

Latest(seq) == IF Len(seq) <= Limit THEN seq ELSE Tail(seq)

Mut_DropGuardOnly ==
    /\ children' = children \ {"guard"}
    /\ verdict' = None
    /\ bundle_time' = None
    /\ intent' = None
    /\ elapsed' = 0

(* Whatever ends a cycle drops the clients, which kills their processes.   *)
DropClients ==
    /\ children' = {}
    /\ verdict' = None
    /\ bundle_time' = None
    /\ intent' = None
    /\ elapsed' = 0

Mut_OnlyFillsReset(outcome) ==
    /\ DropClients
    /\ consecutive_errors' = IF outcome = "filled" THEN 0 ELSE consecutive_errors
    /\ iteration' = Bump(iteration)
    /\ outcomes' = Latest(Append(outcomes, outcome))
    /\ Goto("sleeping")
    /\ UNCHANGED <<stop_file, max_iterations, order, cycles, late>>

(* A cycle that ends in a report, be it a rejection, resets the breaker.   *)
Report(outcome) ==
    /\ DropClients
    /\ consecutive_errors' = 0
    /\ iteration' = Bump(iteration)
    /\ outcomes' = Latest(Append(outcomes, outcome))
    /\ Goto("sleeping")
    /\ UNCHANGED <<stop_file, max_iterations, order, cycles, late>>

(* One that ends in an error counts towards it, and may trip it.           *)
Error(kind) ==
    /\ DropClients
    /\ consecutive_errors' = consecutive_errors + 1
    /\ outcomes' = Latest(Append(outcomes, kind))
    /\ IF consecutive_errors' >= Limit
       THEN Goto("broken") /\ UNCHANGED iteration
       ELSE Goto("sleeping") /\ iteration' = Bump(iteration)
    /\ UNCHANGED <<stop_file, max_iterations, order, cycles, late>>

-----------------------------------------------------------------------------
CapReached == max_iterations # NoLimit /\ iteration >= max_iterations

(* The top of the loop: the stop file first, then the cap.                 *)
Halt ==
    /\ phase = "top"
    /\ stop_file \/ CapReached
    /\ Goto("halted")
    /\ UNCHANGED <<stop_file, counters, inHand, history>>

Mut_StopFileAtStartOnly ==
    /\ phase = "top"
    /\ ~CapReached
    /\ ~(stop_file /\ iteration = 0)
    /\ Goto("recommend")
    /\ cycles' = Bump(cycles)
    /\ UNCHANGED <<stop_file, counters, inHand, order, outcomes, late>>

BeginCycle ==
    /\ phase = "top"
    /\ ~stop_file /\ ~CapReached
    /\ Goto("recommend")
    /\ cycles' = Bump(cycles)
    /\ UNCHANGED <<stop_file, counters, inHand, order, outcomes, late>>

Mut_TradeEmptyPreview(v) == v.action = "paper_rebalance_preview" /\ v.approved

ProposesTrade(v) ==
    v.action = "paper_rebalance_preview" /\ v.approved /\ v.shares # 0

(* The engine decides, or fails.                                           *)
Recommend ==
    /\ phase = "recommend"
    /\ \/ Error("soft")
       \/ \E v \in Verdicts :
             IF ProposesTrade(v)
             THEN /\ verdict' = v
                  /\ Goto("spawn_intelligence")
                  /\ UNCHANGED <<stop_file, counters, elapsed, bundle_time, children, intent, history>>
             ELSE Report("no_trade")

(* What is done with a sibling, in order, up to the submission.            *)
NextPhase ==
    [spawn_intelligence      |-> "initialize_intelligence",
     initialize_intelligence |-> "ingest",
     ingest                  |-> "history",
     history                 |-> "bundle",
     bundle                  |-> "build_intent",
     build_intent            |-> "spawn_guard",
     spawn_guard             |-> "initialize_guard",
     initialize_guard        |-> "submit"]

(* McpClient::spawn: the process starts, or the cycle ends.                *)
Spawn(sibling) ==
    /\ phase = IF sibling = "guard" THEN "spawn_guard" ELSE "spawn_intelligence"
    /\ \/ Error("hard")
       \/ /\ children' = children \cup {sibling}
          /\ Goto(NextPhase[phase])
          /\ UNCHANGED <<stop_file, counters, elapsed, verdict, bundle_time, intent, history>>

Handshakes == {"initialize_intelligence", "initialize_guard"}
Tools == {"ingest", "history", "bundle"}

(* A sibling answers the request it was sent.  Its answer is a result, a   *)
(* broken line or the end of its output, or for a tool a failure (also of  *)
(* the history that is empty).                                             *)
SiblingAnswers ==
    /\ phase \in Handshakes \cup Tools
    /\ \/ Error("hard")
       \/ phase \in Tools /\ Error("soft")
       \/ /\ Goto(NextPhase[phase])
          /\ bundle_time' = IF phase = "bundle" THEN elapsed ELSE bundle_time
          /\ UNCHANGED <<stop_file, counters, elapsed, verdict, children, intent, history>>

-----------------------------------------------------------------------------
Abs(n) == IF n < 0 THEN -n ELSE n

Mut_DatedByDecision ==
    [side          |-> IF verdict.shares > 0 THEN "buy" ELSE "sell",
     quantity      |-> Abs(verdict.shares),
     decision_time |-> 0,
     verdict       |-> verdict,
     bundle_time   |-> bundle_time,
     state         |-> "built"]

(* build_trade_intent, dated by a second reading of the clock before the   *)
(* guard is started: the first one, at zero, is the decision's.            *)
Intent ==
    [side          |-> IF verdict.shares > 0 THEN "buy" ELSE "sell",
     quantity      |-> Abs(verdict.shares),
     decision_time |-> elapsed,
     verdict       |-> verdict,
     bundle_time   |-> bundle_time,
     state         |-> "built"]

BuildIntent ==
    /\ phase = "build_intent"
    /\ Goto(NextPhase[phase])
    /\ intent' = Intent
    /\ UNCHANGED <<stop_file, counters, elapsed, verdict, bundle_time, children, history>>

Submit ==
    /\ phase = "submit"
    /\ Goto("await_guard")
    /\ intent' = [intent EXCEPT !.state = "asked"]
    /\ UNCHANGED <<stop_file, counters, elapsed, verdict, bundle_time, children, history>>

Eligible(i) == i.bundle_time <= i.decision_time

(* The guard rejects the order or executes it, for good: its books are on  *)
(* disk.  Evidence from after the decision is one reason to reject.        *)
GuardActs ==
    /\ phase = "await_guard" /\ intent.state = "asked"
    /\ \/ /\ intent' = [intent EXCEPT !.state = "rejected"]
          /\ UNCHANGED <<order, late>>
       \/ /\ Eligible(intent)
          /\ intent' = [intent EXCEPT !.state = "filled"]
          /\ order' = [intent |-> intent, age |-> elapsed]
          /\ late' = IF stop_file THEN Bump(late) ELSE late
    /\ UNCHANGED <<stop_file, counters, phase, elapsed, verdict, bundle_time, children,
                   cycles, outcomes>>

(* Its answer arrives.                                                     *)
GuardReplies ==
    /\ phase = "await_guard" /\ intent.state # "asked"
    /\ Report(intent.state)

(* Or does not: it dies, or what it says cannot be read.                   *)
GuardBreaks == phase = "await_guard" /\ Error("hard")

-----------------------------------------------------------------------------
Wake ==
    /\ phase = "sleeping"
    /\ Goto("top")
    /\ UNCHANGED <<stop_file, counters, inHand, history>>

DropStopFile ==
    /\ ~stop_file
    /\ stop_file' = TRUE
    /\ UNCHANGED <<phase, counters, inHand, history>>

Resting == {"top", "sleeping", "halted", "broken"}

Tick ==
    /\ phase \notin Resting /\ elapsed < MaxElapsed
    /\ elapsed' = elapsed + 1
    /\ UNCHANGED <<stop_file, counters, phase, verdict, bundle_time, children, intent, history>>

(* The loop has halted, with or without an error: the process is gone.     *)
Gone == phase \in {"halted", "broken"} /\ UNCHANGED vars

(* What the loop does by itself, without waiting for anybody.              *)
OwnStep ==
    \/ Halt \/ BeginCycle \/ Wake
    \/ BuildIntent \/ Submit
    \/ \E s \in Siblings : Spawn(s)

Next ==
    \/ Halt
    \/ BeginCycle
    \/ Recommend
    \/ \E s \in Siblings : Spawn(s)
    \/ SiblingAnswers
    \/ BuildIntent
    \/ Submit
    \/ GuardActs
    \/ GuardReplies
    \/ GuardBreaks
    \/ Wake
    \/ DropStopFile
    \/ Tick
    \/ Gone

Spec == Init /\ [][Next]_vars

(* The loop goes on by itself.  Nothing is assumed of what it waits for:   *)
(* a sibling is read from without a time limit, and the core behind a      *)
(* recommendation may outlast its own (TimedCommand).                      *)
LoopSpec == Spec /\ WF_vars(OwnStep)

-----------------------------------------------------------------------------
IntentType ==
    [side : {"buy", "sell"}, quantity : Nat, decision_time : Nat, verdict : VerdictType,
     bundle_time : Nat, state : {"built", "asked", "filled", "rejected"}]

TypeOK ==
    /\ stop_file \in BOOLEAN
    /\ max_iterations \in Caps
    /\ iteration \in 0 .. MaxCount
    /\ consecutive_errors \in 0 .. Limit
    /\ phase \in DOMAIN NextPhase \cup Resting \cup {"recommend", "submit", "await_guard"}
    /\ elapsed \in 0 .. MaxElapsed
    /\ verdict \in VerdictType \cup {None}
    /\ bundle_time \in Nat \cup {None}
    /\ children \subseteq Siblings
    /\ intent \in IntentType \cup {None}
    /\ order \in [intent : IntentType, age : Nat] \cup {None}
    /\ cycles \in 0 .. MaxCount
    /\ outcomes \in Seq(Errors \cup {"no_trade", "rejected", "filled"})
    /\ late \in 0 .. MaxCount

(* An intent is what an approved rebalance asks for, to the side and the   *)
(* quantity.                                                               *)
FollowsDecision(i) ==
    /\ i.verdict.approved
    /\ i.verdict.action = "paper_rebalance_preview"
    /\ i.quantity > 0
    /\ i.verdict.shares = IF i.side = "buy" THEN i.quantity ELSE -i.quantity

(* run_guard_cycle: every order the guard executes follows the decision it *)
(* is made from: an approved rebalance, to its side and its size.          *)
OrdersFollowDecisions == order # None => FollowsDecision(order.intent)

(* The comment above decision_time (run_guard_cycle): no submitted intent  *)
(* is dated before the evidence it cites.                                  *)
EvidencePrecedesIntent == intent # None => Eligible(intent)

(* cmd_autonomous, circuit breaker: the loop breaks off exactly when the   *)
(* last max_consecutive_errors cycles all ended in errors, of any kind: a  *)
(* failing engine or tool counts like a broken sibling, and anything else  *)
(* in between, a rejection included, starts the count anew.                *)
BreakerCountsEveryError ==
    phase = "broken" <=>
        Len(outcomes) = Limit /\ \A i \in 1 .. Limit : outcomes[i] \in Errors

(* The comments above GuardCycleOutcome and cmd_autonomous: only a hard    *)
(* error, a sibling that failed to start or broke the protocol, halts it.  *)
(* The code has it otherwise.                                              *)
BreakerCountsHardErrors ==
    phase = "broken" => \A i \in DOMAIN outcomes : outcomes[i] = "hard"

(* cmd_autonomous, stop file: of the orders executed after it appeared, at *)
(* most one is the loop's: that of the cycle that was under way.           *)
StopFileStopsOrders == late <= 1

(* cmd_autonomous, --max-iterations: errors and rejections count as well.  *)
IterationsAreCapped ==
    max_iterations # NoLimit =>
        /\ cycles <= max_iterations
        /\ phase = "halted" /\ ~stop_file => cycles = max_iterations

(* McpClient::drop: no sibling outlives its cycle, however it ended, and   *)
(* each is alive for as long as it is spoken to.                           *)
NoSiblingIsLeft ==
    /\ phase \in Resting => children = {}
    /\ phase \in Tools => "intelligence" \in children
    /\ phase = "await_guard" => children = Siblings

Held == phase \in {"recommend", "await_guard"} \cup Handshakes \cup Tools

(* cmd_autonomous, the kill switch: the loop halts once the stop file is   *)
(* there, whatever cycle it is in and however that cycle ends, unless the  *)
(* engine or a sibling never answers it.                                   *)
StopFileHaltsUnlessHeld ==
    <>[]Held \/ (stop_file ~> phase \in {"halted", "broken"})

(* cmd_autonomous: "the loop notices within one interval", without more.   *)
(* The code has no such limit.                                             *)
StopFileHalts == stop_file ~> phase \in {"halted", "broken"}
=============================================================================
