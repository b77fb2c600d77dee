-------------------------- MODULE Nav2AdapterProofs --------------------------
(***************************************************************************)
(* The safety properties of the Nav2 adapter hold for any number of goals, *)
(* and the adapter implements MotionHooks, on which the command lifecycle  *)
(* is built.                                                               *)
(***************************************************************************)
EXTENDS Nav2Adapter, TLAPS

-----------------------------------------------------------------------------
(* The inductive invariant *)

\* Callbacks that are to run for goal g.
Pending(g) == g \in responseDue \cup resultDue \/ (ros # None /\ ros.goal = g)

\* One goal at a time is being sent, and one callback at most is due for it.
CallsInOrder ==
  /\ pc = "begun" => generation \in Goal /\ goal[generation] = "unsent"
                     /\ ~Pending(generation) /\ ~atGoal /\ terminal = None
  /\ pc = "cancel" => found # None
  /\ responseDue \cap resultDue = {}
  /\ ros # None => ros.goal \notin responseDue \cup resultDue

\* Nothing is known of goals that have not been begun.
FutureIsEmpty == \A g \in Goal : g > generation => goal[g] = "unsent" /\ ~Pending(g)

\* When the adapter takes another goal the latest is over for Nav2 as well.
RestIsReal ==
  atGoal /\ terminal # "unknown" /\ generation \in Goal =>
    generation \notin Live /\ ~Pending(generation)

\* What is recorded of the latest goal is what became of it.
OutcomeIsReal ==
  terminal \in Ended \cup {"rejected"} => generation \in Goal /\ goal[generation] = terminal

AdapterInv ==
  TypeOK /\ CallsInOrder /\ FutureIsEmpty /\ OnlyLatestIsLive /\ RestIsReal /\ OutcomeIsReal

-----------------------------------------------------------------------------
(* Initial states and steps *)

LEMMA GoalLemma == Goal \subseteq Nat \ {0} /\ None \notin Goal
BY AdapterAssumption DEF Goal

LEMMA InitLemma == Init => AdapterInv
<1> SUFFICES ASSUME Init PROVE AdapterInv
  OBVIOUS
<1>1. TypeOK
  <2>1. /\ goal \in [Goal -> {"unsent", "pending", "executing", "rejected"} \cup Ended]
        /\ generation \in 0..MaxGoals
    BY AdapterAssumption DEF Init
  <2> QED BY <2>1 DEF Init, TypeOK, Answers
<1>2. CallsInOrder /\ FutureIsEmpty
  BY DEF Init, CallsInOrder, FutureIsEmpty, Pending
<1>3. OnlyLatestIsLive /\ RestIsReal /\ OutcomeIsReal
  <2>1. generation \notin Goal /\ \A g \in Goal : ~(g < generation)
    BY GoalLemma DEF Init
  <2>2. terminal \notin Ended \cup {"rejected"}
    BY AdapterAssumption DEF Init, Ended
  <2> QED BY <2>1, <2>2 DEF OnlyLatestIsLive, RestIsReal, OutcomeIsReal
<1> QED BY <1>1, <1>2, <1>3 DEF AdapterInv

LEMMA RecordLemma ==
  ASSUME TypeOK, NEW g \in Goal, NEW status \in Terminal, RecordResult(g, status)
  PROVE  /\ terminal' \in Terminal \cup {None} /\ atGoal' \in BOOLEAN
         /\ resultEvent' \in BOOLEAN /\ handle' \in Goal \cup {None}
         /\ UNCHANGED <<generation, cancelRequested>>
BY DEF RecordResult, TypeOK, client

LEMMA TypeLemma == TypeOK /\ CallsInOrder /\ [Next]_vars => TypeOK'
<1> SUFFICES ASSUME TypeOK, CallsInOrder, [Next]_vars PROVE TypeOK'
  OBVIOUS
<1> USE AdapterAssumption, GoalLemma
    DEF TypeOK, caller, client, futures, nav2, Answers
<1>1. CASE StartIsRefused
  BY <1>1 DEF StartIsRefused
<1>2. CASE BeginGoal
  <2>1. generation' \in 0..MaxGoals
    BY <1>2 DEF BeginGoal
  <2> QED BY <1>2, <2>1 DEF BeginGoal
<1>3. ASSUME NEW blocking \in BOOLEAN, SendGoal(blocking) PROVE TypeOK'
  BY <1>3 DEF SendGoal, CallsInOrder
<1>4. CASE SendRaises
  BY <1>4 DEF SendRaises, CallsInOrder
<1>5. ASSUME NEW near \in BOOLEAN, Poll(near) \/ WaitEnds(near) PROVE TypeOK'
  BY <1>5 DEF Poll, WaitEnds, Outcome
<1>6. CASE CancelBegins
  BY <1>6 DEF CancelBegins
<1>7. CASE CancelIsSent
  BY <1>7 DEF CancelIsSent, CallsInOrder
<1>8. CASE CancelRaises
  BY <1>8 DEF CancelRaises
<1>9. CASE ResultIsThere
  BY <1>9 DEF ResultIsThere
<1>10. CASE WaitTimesOut
  BY <1>10 DEF WaitTimesOut
<1>11. CASE CancelReturns
  BY <1>11 DEF CancelReturns
<1>12. CASE AskForResult
  <2>1. cancelAsked' \subseteq Goal /\ resultDue' \subseteq Goal
    BY <1>12 DEF AskForResult, LateCancel
  <2> QED BY <1>12, <2>1 DEF AskForResult
<1>13. CASE AskRaises
  BY <1>13, RecordLemma DEF AskRaises, LateCancel, Terminal
<1>14. ASSUME NEW g \in Goal, ResponseIsRejection(g) PROVE TypeOK'
  <2>1. /\ UNCHANGED <<pc, found, answer, ros, resultDue, goal, cancelAsked>>
        /\ UNCHANGED <<generation, cancelRequested, handle>>
        /\ responseDue' \subseteq Goal
    BY <1>14 DEF ResponseIsRejection, client
  <2>2. /\ terminal' \in {terminal, "rejected"} /\ atGoal' \in {atGoal, TRUE}
        /\ resultEvent' \in {resultEvent, TRUE}
    BY <1>14 DEF ResponseIsRejection, client
  <2>3. terminal' \in Terminal \cup {None}
    BY <2>2 DEF Terminal
  <2>4. atGoal' \in BOOLEAN /\ resultEvent' \in BOOLEAN
    BY <2>2
  <2> QED BY <2>1, <2>3, <2>4
<1>15. ASSUME NEW g \in Goal, ResponseIsAcceptance(g) PROVE TypeOK'
  <2>1. /\ UNCHANGED <<pc, found, answer, resultDue, goal>>
        /\ UNCHANGED <<generation, atGoal, terminal, resultEvent, cancelRequested>>
        /\ responseDue' \subseteq Goal
    BY <1>15 DEF ResponseIsAcceptance, client
  <2>2. \/ /\ cancelAsked' = cancelAsked \cup {g}
           /\ UNCHANGED <<handle, ros>>
        \/ /\ handle' = g
           /\ ros' = [goal |-> g, cancel |-> cancelRequested]
           /\ UNCHANGED cancelAsked
    BY <1>15 DEF ResponseIsAcceptance, client
  <2>3. handle' \in Goal \cup {None} /\ cancelAsked' \subseteq Goal
    BY <2>2
  <2>4. [goal |-> g, cancel |-> cancelRequested] \in [goal : Goal, cancel : BOOLEAN]
    BY Zenon
  <2>5. ros' \in [goal : Goal, cancel : BOOLEAN] \cup {None}
    BY <2>2, <2>4
  <2> QED BY <2>1, <2>3, <2>5
<1>16. ASSUME NEW g \in Goal, ResponseRaises(g) PROVE TypeOK'
  BY <1>16, RecordLemma DEF ResponseRaises, Terminal
<1>17. ASSUME NEW g \in Goal, ResultArrives(g) \/ ResultRaises(g) PROVE TypeOK'
  BY <1>17, RecordLemma DEF ResultArrives, ResultRaises, Terminal
<1>18. ASSUME NEW g \in Goal, Decides(g) \/ Ends(g) PROVE TypeOK'
  BY <1>18 DEF Decides, Ends, Ended
<1>19. CASE UNCHANGED vars
  BY <1>19 DEF vars
<1> QED
  BY <1>1, <1>2, <1>3, <1>4, <1>5, <1>6, <1>7, <1>8, <1>9, <1>10, <1>11, <1>12, <1>13,
     <1>14, <1>15, <1>16, <1>17, <1>18, <1>19 DEF Next, ReceiveThread, RosThread, Callback, CallbackRaises, Nav2

-----------------------------------------------------------------------------
(* The latest goal and the others *)

LEMMA InvariantLemma == AdapterInv /\ [Next]_vars => AdapterInv'
<1> SUFFICES ASSUME AdapterInv, [Next]_vars PROVE AdapterInv'
  OBVIOUS
<1> DEFINE Rest == CallsInOrder /\ FutureIsEmpty /\ OnlyLatestIsLive /\ RestIsReal /\ OutcomeIsReal
<1> USE AdapterAssumption, GoalLemma
<1>0. TypeOK /\ Rest /\ TypeOK'
  BY TypeLemma DEF AdapterInv
<1>1. CASE /\ UNCHANGED <<generation, atGoal, terminal, goal, futures>>
           /\ pc' # "begun" /\ (pc' = "cancel" => found' # None)
  BY <1>0, <1>1 DEF CallsInOrder, FutureIsEmpty, OnlyLatestIsLive, RestIsReal, OutcomeIsReal,
     Pending, Live, futures, AdapterInv
<1>2. CASE BeginGoal
  <2>1. /\ generation' = generation + 1 /\ generation \in Nat /\ generation' \in Goal
        /\ ~atGoal' /\ terminal' = None /\ pc' = "begun"
        /\ atGoal /\ terminal # "unknown" /\ UNCHANGED <<goal, futures, found>>
    BY <1>0, <1>2 DEF BeginGoal, Busy, Goal, TypeOK, nav2
  <2>2. \A g \in Goal : g < generation' => g < generation \/ g = generation
    BY <2>1
  <2>3. CallsInOrder' /\ FutureIsEmpty'
    <3>1. \A g \in Goal : g > generation => goal[g] = "unsent" /\ ~Pending(g)
      BY <1>0 DEF FutureIsEmpty
    <3>2. \A g \in Goal : Pending(g)' <=> Pending(g)
      BY <2>1 DEF Pending, futures
    <3>3. \A g \in Goal : g > generation' => g > generation
      BY <2>1
    <3>4. generation' > generation
      BY <2>1
    <3>5. FutureIsEmpty'
      BY <2>1, <3>1, <3>2, <3>3 DEF FutureIsEmpty
    <3>6. goal'[generation'] = "unsent" /\ ~Pending(generation)'
      BY <2>1, <3>1, <3>4 DEF Pending, futures
    <3>7. CallsInOrder'
      BY <1>0, <2>1, <3>6 DEF CallsInOrder, futures
    <3> QED BY <3>5, <3>7
  <2>4. OnlyLatestIsLive'
    BY <1>0, <2>1, <2>2 DEF OnlyLatestIsLive, RestIsReal, Pending, Live, futures
  <2>5. RestIsReal' /\ OutcomeIsReal'
    BY <2>1 DEF RestIsReal, OutcomeIsReal, Ended
  <2> QED BY <1>0, <2>3, <2>4, <2>5 DEF AdapterInv
<1>3. CASE SendRaises \/ \E blocking \in BOOLEAN : SendGoal(blocking)
  <2>1. /\ generation \in Goal /\ goal[generation] = "unsent" /\ ~Pending(generation)
        /\ ~atGoal /\ terminal = None /\ pc' \in {"idle", "waiting"}
        /\ UNCHANGED <<generation, atGoal, terminal, ros, resultDue, found>>
        /\ goal' \in {goal, [goal EXCEPT ![generation] = "pending"]}
        /\ responseDue' \in {responseDue, responseDue \cup {generation}}
    BY <1>0, <1>3 DEF SendRaises, SendGoal, CallsInOrder, client, futures
  <2>2. \A g \in Goal \ {generation} :
           goal'[g] = goal[g] /\ (g \in responseDue' <=> g \in responseDue)
    BY <1>0, <2>1 DEF TypeOK
  <2>3. CallsInOrder'
    BY <1>0, <2>1 DEF CallsInOrder, Pending
  <2>4. FutureIsEmpty' /\ OnlyLatestIsLive'
    BY <1>0, <2>1, <2>2 DEF FutureIsEmpty, OnlyLatestIsLive, Pending, Live
  <2>5. RestIsReal' /\ OutcomeIsReal'
    BY <2>1 DEF RestIsReal, OutcomeIsReal, Ended
  <2> QED BY <1>0, <2>3, <2>4, <2>5 DEF AdapterInv
<1>4. ASSUME NEW g \in Goal, Pending(g) PROVE g = generation
  BY <1>0, <1>4 DEF FutureIsEmpty, OnlyLatestIsLive, Pending, TypeOK, Goal
<1>5. ASSUME NEW g \in Goal, g = generation, ros = None,
             g \notin responseDue' \cup resultDue', ros' = None,
             responseDue' \subseteq responseDue, resultDue' \subseteq resultDue,
             goal[g] \notin {"pending", "executing"} \/ terminal' = "unknown",
             goal[g] = terminal' \/ terminal' = "unknown",
             UNCHANGED <<pc, found, generation, goal>>, pc # "begun"
      PROVE  AdapterInv'
  <2>1. CallsInOrder' /\ FutureIsEmpty' /\ OnlyLatestIsLive'
    BY <1>0, <1>5 DEF CallsInOrder, FutureIsEmpty, OnlyLatestIsLive, Pending, Live
  <2>2. RestIsReal' /\ OutcomeIsReal'
    BY <1>0, <1>5 DEF RestIsReal, OutcomeIsReal, Live, Pending, Ended
  <2> QED BY <1>0, <2>1, <2>2 DEF AdapterInv
<1>6. ASSUME NEW g \in Goal,
             ResponseIsRejection(g) \/ ResponseRaises(g) \/ ResultArrives(g) \/ ResultRaises(g)
      PROVE  AdapterInv'
  <2>1. Pending(g) /\ ros = None
    BY <1>6 DEF ResponseIsRejection, ResponseRaises, ResultArrives, ResultRaises, Pending
  <2>2. g = generation /\ pc # "begun"
    BY <1>0, <1>4, <2>1 DEF CallsInOrder
  <2>3. /\ g \notin responseDue' \cup resultDue' /\ ros' = None
        /\ responseDue' \subseteq responseDue /\ resultDue' \subseteq resultDue
        /\ UNCHANGED <<pc, found, generation, goal>>
    BY <1>0, <1>6, <2>1, <2>2 DEF ResponseIsRejection, ResponseRaises, ResultArrives, ResultRaises,
       RecordResult, caller, nav2, CallsInOrder
  <2>4. \/ terminal' = "unknown"
        \/ terminal' = goal[g] /\ goal[g] \notin {"pending", "executing"}
    BY <1>6, <2>2 DEF ResponseIsRejection, ResponseRaises, ResultArrives, ResultRaises,
       RecordResult, Ended
  <2> QED BY <1>5, <2>1, <2>2, <2>3, <2>4
<1>7. ASSUME NEW g \in Goal, ResponseIsAcceptance(g) PROVE AdapterInv'
  <2>1. Pending(g) /\ ros = None /\ g \in responseDue
    BY <1>7 DEF ResponseIsAcceptance, Pending
  <2>2. g = generation /\ pc # "begun" /\ g \notin resultDue
    BY <1>0, <1>4, <2>1 DEF CallsInOrder
  <2>3. /\ ros'.goal = g /\ responseDue' = responseDue \ {g}
        /\ UNCHANGED <<pc, found, generation, goal, atGoal, terminal, resultDue>>
    BY <1>7, <2>2 DEF ResponseIsAcceptance, caller, nav2
  <2>4. CallsInOrder' /\ FutureIsEmpty' /\ OnlyLatestIsLive'
    BY <1>0, <2>1, <2>2, <2>3 DEF CallsInOrder, FutureIsEmpty, OnlyLatestIsLive, Pending, Live
  <2>5. RestIsReal' /\ OutcomeIsReal'
    BY <1>0, <2>1, <2>2, <2>3 DEF RestIsReal, OutcomeIsReal, Live, Pending, Ended
  <2> QED BY <1>0, <2>4, <2>5 DEF AdapterInv
<1>8. CASE AskForResult \/ AskRaises
  <2>1. PICK g \in Goal : ros # None /\ ros.goal = g
    BY <1>0, <1>8 DEF AskForResult, AskRaises, TypeOK
  <2>2. g = generation /\ pc # "begun" /\ g \notin responseDue \cup resultDue
    BY <1>0, <1>4, <2>1 DEF CallsInOrder, Pending
  <2>3. CASE AskForResult
    <3>1. /\ ros' = None /\ resultDue' = resultDue \cup {g}
          /\ UNCHANGED <<pc, found, generation, goal, atGoal, terminal, responseDue>>
      BY <2>1, <2>3 DEF AskForResult, caller, client
    <3>2. CallsInOrder' /\ FutureIsEmpty' /\ OnlyLatestIsLive'
      BY <1>0, <2>1, <2>2, <3>1 DEF CallsInOrder, FutureIsEmpty, OnlyLatestIsLive, Pending, Live
    <3>3. RestIsReal' /\ OutcomeIsReal'
      BY <1>0, <2>1, <2>2, <3>1 DEF RestIsReal, OutcomeIsReal, Live, Pending, Ended
    <3> QED BY <1>0, <3>2, <3>3 DEF AdapterInv
  <2>4. CASE AskRaises
    <3>1. /\ ros' = None /\ terminal' = "unknown"
          /\ UNCHANGED <<pc, found, generation, goal, responseDue, resultDue>>
      BY <2>1, <2>2, <2>4 DEF AskRaises, caller, RecordResult
    <3>2. CallsInOrder' /\ FutureIsEmpty' /\ OnlyLatestIsLive'
      BY <1>0, <2>1, <2>2, <3>1 DEF CallsInOrder, FutureIsEmpty, OnlyLatestIsLive, Pending, Live
    <3>3. RestIsReal' /\ OutcomeIsReal'
      BY <3>1 DEF RestIsReal, OutcomeIsReal, Ended
    <3> QED BY <1>0, <3>2, <3>3 DEF AdapterInv
  <2> QED BY <1>8, <2>3, <2>4
<1>9. ASSUME NEW g \in Goal, Decides(g) \/ Ends(g) PROVE AdapterInv'
  <2>1. /\ goal[g] \in {"pending", "executing"} /\ goal'[g] # "unsent"
        /\ \A h \in Goal \ {g} : goal'[h] = goal[h]
        /\ UNCHANGED <<pc, found, generation, atGoal, terminal, ros, responseDue, resultDue>>
    BY <1>0, <1>9 DEF Decides, Ends, TypeOK, caller, client, futures, Ended
  <2>2. g = generation
    BY <1>0, <2>1 DEF FutureIsEmpty, OnlyLatestIsLive, Live, TypeOK, Goal
  <2>3. CallsInOrder' /\ FutureIsEmpty' /\ OnlyLatestIsLive'
    BY <1>0, <2>1, <2>2 DEF CallsInOrder, FutureIsEmpty, OnlyLatestIsLive, Pending, Live
  <2>4. RestIsReal' /\ OutcomeIsReal'
    BY <1>0, <2>1, <2>2 DEF RestIsReal, OutcomeIsReal, Live, Pending, Ended
  <2> QED BY <1>0, <2>3, <2>4 DEF AdapterInv
<1>10. CASE UNCHANGED vars
  BY <1>0, <1>10 DEF vars, caller, client, futures, nav2, CallsInOrder, FutureIsEmpty,
     OnlyLatestIsLive, RestIsReal, OutcomeIsReal, Pending, Live, AdapterInv
<1>11. ASSUME NEW near \in BOOLEAN, Poll(near) \/ WaitEnds(near) PROVE AdapterInv'
  BY <1>1, <1>11 DEF Poll, WaitEnds, client, nav2
<1>12. CASE StartIsRefused \/ CancelRaises \/ ResultIsThere \/ WaitTimesOut \/ CancelReturns
  BY <1>1, <1>12 DEF StartIsRefused, CancelRaises, ResultIsThere, WaitTimesOut, CancelReturns,
     client, nav2
<1>13. CASE CancelBegins \/ CancelIsSent
  BY <1>1, <1>13 DEF CancelBegins, CancelIsSent, client, nav2
<1> QED
  BY <1>2, <1>3, <1>9, <1>10, <1>6, <1>7, <1>8, <1>11, <1>12, <1>13
     DEF Next, ReceiveThread, RosThread, Callback, CallbackRaises, Nav2

-----------------------------------------------------------------------------
(* Theorems *)

LEMMA AlwaysLemma == Spec => []AdapterInv
BY InitLemma, InvariantLemma, PTL DEF Spec

\* Every reachable state is well-typed.
THEOREM AdapterTypes == Spec => []TypeOK
<1>1. AdapterInv => TypeOK
  BY DEF AdapterInv
<1> QED BY <1>1, AlwaysLemma, PTL

\* When a goal is begun all earlier ones are over, in Nav2 as well, and no
\* callback of theirs is outstanding.
THEOREM EarlierGoalsAreOver == Spec => []OnlyLatestIsLive
<1>1. AdapterInv => OnlyLatestIsLive
  BY DEF AdapterInv
<1> QED BY <1>1, AlwaysLemma, PTL

\* A goal whose result is missing is one that is still being sent or for which
\* a callback is due, unless sending it raises.
LEMMA EventLemma ==
  AdapterInv /\ [Next]_vars => [AnswerIsDue => AnswerIsDue' \/ SendRaises]_vars
<1> SUFFICES ASSUME AdapterInv, AnswerIsDue, [Next]_vars, ~SendRaises,
                    ~resultEvent', generation' # 0, pc' # "begun"
             PROVE  CallbackDue'
  BY DEF AnswerIsDue
<1> USE AdapterAssumption
<1>1. TypeOK
  BY DEF AdapterInv
<1>2. CASE UNCHANGED <<resultEvent, generation, futures>> /\ pc # "begun"
  BY <1>2 DEF AnswerIsDue, CallbackDue, futures
<1>3. ASSUME NEW blocking \in BOOLEAN, SendGoal(blocking) PROVE CallbackDue'
  BY <1>3 DEF SendGoal, CallbackDue, client
<1>4. ASSUME NEW g \in Goal, ResponseIsRejection(g) PROVE CallbackDue'
  <2>1. g # generation /\ pc # "begun"
    BY <1>4 DEF ResponseIsRejection, client, caller
  <2> QED BY <1>4, <2>1 DEF ResponseIsRejection, AnswerIsDue, CallbackDue, client
<1>5. ASSUME NEW g \in Goal, ResponseIsAcceptance(g) PROVE CallbackDue'
  <2>1. [goal |-> g, cancel |-> cancelRequested] \in [goal : 1..MaxGoals, cancel : BOOLEAN]
    BY <1>1, Zenon DEF TypeOK, Goal
  <2>2. CASE g = generation
    BY <1>5, <2>1, <2>2 DEF ResponseIsAcceptance, CallbackDue
  <2>3. CASE g # generation
    BY <1>5, <2>3 DEF ResponseIsAcceptance, AnswerIsDue, CallbackDue, client, caller
  <2> QED BY <2>2, <2>3
<1>6. CASE AskForResult
  BY <1>6 DEF AskForResult, AnswerIsDue, CallbackDue, client, caller
<1>7. ASSUME NEW g \in Goal, ResultArrives(g) PROVE CallbackDue'
  BY <1>7 DEF ResultArrives, RecordResult, AnswerIsDue, CallbackDue, client, caller
<1>8. CASE UNCHANGED vars
  BY <1>2, <1>8 DEF vars, caller, client
<1>9. CASE \/ StartIsRefused \/ CancelBegins \/ CancelIsSent \/ ResultIsThere
           \/ WaitTimesOut \/ CancelReturns \/ CancelRaises
  BY <1>2, <1>9 DEF StartIsRefused, CancelBegins, CancelIsSent, ResultIsThere, WaitTimesOut,
     CancelReturns, CancelRaises, client
<1>10. ASSUME NEW near \in BOOLEAN, Poll(near) \/ WaitEnds(near) PROVE CallbackDue'
  BY <1>2, <1>10 DEF Poll, WaitEnds, client
<1>11. ASSUME NEW g \in Goal, Decides(g) \/ Ends(g) PROVE CallbackDue'
  <2>1. UNCHANGED <<resultEvent, generation, futures, pc>>
    BY <1>11 DEF Decides, Ends, caller, client
  <2> QED BY <1>2, <2>1
<1>12. ASSUME NEW g \in Goal, ResponseRaises(g) \/ ResultRaises(g) PROVE CallbackDue'
  BY <1>12 DEF ResponseRaises, ResultRaises, RecordResult, AnswerIsDue, CallbackDue, client, caller
<1>13. CASE AskRaises
  BY <1>13 DEF AskRaises, RecordResult, AnswerIsDue, CallbackDue, client, caller
<1> QED
  BY <1>3, <1>4, <1>5, <1>6, <1>7, <1>8, <1>9, <1>10, <1>11, <1>12, <1>13
     DEF Next, ReceiveThread, RosThread, Callback, CallbackRaises, Nav2, BeginGoal

\* A stop never waits for an event that nobody is going to set, except when
\* sending the goal has raised or nothing was ever begun.
THEOREM EventsAreDue == Spec => EventIsDue
BY AlwaysLemma, EventLemma, PTL DEF Spec, EventIsDue

-----------------------------------------------------------------------------
(* The adapter keeps what the command lifecycle relies on *)

\* At rest nothing is live; a goal that succeeded is the latest.
LEMMA BaseLemma ==
  ASSUME AdapterInv, terminal \in Ended \cup {"rejected"}
  PROVE  /\ base # "moving"
         /\ terminal = "succeeded" => base = "arrived"
<1>1. /\ TypeOK /\ FutureIsEmpty /\ OnlyLatestIsLive
      /\ generation \in Goal /\ goal[generation] = terminal
  BY DEF AdapterInv, OutcomeIsReal
<1>2. \A g \in Goal : g < generation \/ g = generation \/ g > generation
  BY <1>1, GoalLemma
<1>3. Live = {}
  BY <1>1, <1>2 DEF Live, OnlyLatestIsLive, FutureIsEmpty, Ended
<1>4. \A g \in Sent : g <= generation
  BY <1>1, <1>2, GoalLemma DEF Sent, FutureIsEmpty
<1>5. terminal = "succeeded" => base = "arrived"
  BY <1>1, <1>3, <1>4 DEF base, Sent
<1> QED BY <1>3, <1>5 DEF base

LEMMA HooksLemma == AdapterInv /\ [Next]_vars => [Hooks!Next]_Hooks!hookVars
<1> SUFFICES ASSUME AdapterInv, [Next]_vars PROVE [Hooks!Next]_Hooks!hookVars
  OBVIOUS
<1> USE DEF Hooks!Next, Hooks!hookVars
<1>0. TypeOK
  BY DEF AdapterInv
<1>1. ASSUME UNCHANGED goal PROVE base' = base
  BY <1>1 DEF base, Live, Sent
<1>2. CASE UNCHANGED <<goal, answer>>
  BY <1>1, <1>2
<1>3. CASE UNCHANGED goal /\ answer' \in {"raised", "unconfirmed", "failed"}
  BY <1>1, <1>3 DEF Hooks!Raises, Hooks!StopIsUnconfirmed, Hooks!Fails
<1>4. CASE SendRaises \/ \E blocking \in BOOLEAN : SendGoal(blocking)
  <2>1. generation \in Goal
    BY <1>4 DEF SendRaises, SendGoal, AdapterInv, CallsInOrder
  <2>2. goal' = [goal EXCEPT ![generation] = "pending"] => base' = "moving"
    BY <1>0, <2>1 DEF base, Live, TypeOK
  <2> QED BY <1>1, <1>4, <2>2 DEF SendRaises, SendGoal, Hooks!Starts, Hooks!Raises
<1>5. ASSUME NEW near \in BOOLEAN, Poll(near) \/ WaitEnds(near)
      PROVE  [Hooks!Next]_Hooks!hookVars
  <2>1. UNCHANGED goal /\ answer' = Outcome(near)
    BY <1>5 DEF Poll, WaitEnds, nav2
  <2>2. CASE terminal = "succeeded" /\ near
    BY <1>1, <2>1, <2>2, BaseLemma DEF Outcome, Hooks!Succeeds, Ended
  <2> QED BY <1>3, <2>1, <2>2 DEF Outcome
<1>6. CASE CancelReturns
  <2>1. UNCHANGED goal /\ answer' = IF Confirms THEN "stopped" ELSE "unconfirmed"
    BY <1>6 DEF CancelReturns, nav2
  <2>2. CASE Confirms
    BY <1>1, <2>1, <2>2, BaseLemma DEF Confirms, Hooks!StopIsConfirmed
  <2> QED BY <1>3, <2>1, <2>2
<1>7. ASSUME NEW g \in Goal, Decides(g) \/ Ends(g) PROVE [Hooks!Next]_Hooks!hookVars
  <2>1. base = "moving" /\ UNCHANGED answer
    BY <1>7 DEF Decides, Ends, base, Live, caller
  <2>2. base' \in {"moving", "arrived", "idle"}
    BY DEF base
  <2> QED BY <2>1, <2>2 DEF Hooks!Rests
<1>8. CASE UNCHANGED vars
  BY <1>2, <1>8 DEF vars, caller, nav2
<1>9. CASE \/ BeginGoal \/ CancelBegins \/ CancelIsSent \/ ResultIsThere
           \/ \E g \in Goal : \/ ResponseIsRejection(g) \/ ResponseIsAcceptance(g)
                              \/ ResponseRaises(g) \/ ResultArrives(g) \/ ResultRaises(g)
           \/ AskForResult \/ AskRaises
  BY <1>2, <1>9 DEF BeginGoal, CancelBegins, CancelIsSent, ResultIsThere, ResponseIsRejection,
     ResponseIsAcceptance, ResponseRaises, ResultArrives, ResultRaises, AskForResult, AskRaises,
     caller, nav2
<1>10. CASE StartIsRefused \/ CancelRaises \/ WaitTimesOut
  BY <1>3, <1>10 DEF StartIsRefused, CancelRaises, WaitTimesOut, nav2
<1> QED
  BY <1>4, <1>5, <1>6, <1>7, <1>8, <1>9, <1>10 DEF Next, ReceiveThread, RosThread, Callback, CallbackRaises, Nav2

\* The adapter implements the hooks that CommandRuntime is built on: in
\* particular a stop is confirmed only when nothing of the bridge moves the
\* robot in Nav2.
THEOREM ImplementsHooks == Spec => HooksSpec
<1>1. Init => Hooks!Init
  <2> SUFFICES ASSUME Init PROVE base = "idle" /\ answer = "none"
    BY DEF Hooks!Init
  <2> QED BY DEF Init, base, Live, Sent
<1> QED BY <1>1, AlwaysLemma, HooksLemma, PTL DEF Spec, HooksSpec, Hooks!Spec

=============================================================================
