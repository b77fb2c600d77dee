----------------------------- MODULE TaskEngine -----------------------------
(***************************************************************************)
(* The task engine (core/task.py): operations linked by what follows their *)
(* success, their failure and their not being able to start, and the loop  *)
(* of Task.run that walks along the links.  A plan is a value, and every   *)
(* call that builds one is an operator on it.  What an operation does is   *)
(* its own affair: the steps of the loop are taken with its outcome.       *)
(***************************************************************************)
EXTENDS Naturals, Sequences

CONSTANTS
  Op,          \* operations
  None,        \* absence
  MaxFailures  \* max_failures of every operation

ASSUME TaskAssumption == None \notin Op /\ MaxFailures \in Nat \ {0}

VARIABLES
  plan,     \* the links, and the operations added so far
  current,  \* current_operation of the loop
  failures, \* its count of failures
  result    \* "building", "running", or how the run has ended

loop == <<current, failures, result>>

Link == [Op -> Op \cup {None}]

Plan == [added : Seq(Op), terminal : SUBSET Op, initial : Op \cup {None},
         parent : Link, onSuccess : Link, onFailure : Link, onCannotStart : Link]

EngineTypeOK ==
  /\ plan \in Plan
  /\ current \in Op \cup {None}
  /\ failures \in Nat
  /\ result \in {"building", "running", "true", "false", "stuck", "raised"}
  /\ current # None <=> result = "running"

-----------------------------------------------------------------------------
(* Building a plan *)

Unlinked == [o \in Op |-> None]

EmptyPlan ==
  [added |-> <<>>, terminal |-> {}, initial |-> None, parent |-> Unlinked,
   onSuccess |-> Unlinked, onFailure |-> Unlinked, onCannotStart |-> Unlinked]

\* A link that is there already is left alone.
LinkIfNone(links, from, to) ==
  IF links[from] = None THEN [links EXCEPT ![from] = to] ELSE links

\* Operation.__init__; with retry_on_failure, onFailure is op itself.
Construct(p, op, parent, onFailure, onCannotStart) ==
  [p EXCEPT !.parent[op] = parent,
            !.onFailure[op] = onFailure,
            !.onCannotStart[op] = onCannotStart,
            !.onSuccess = IF parent = None THEN @ ELSE LinkIfNone(@, parent, op)]

\* Nothing reads the terminal operations.
AddOperation(p, op, terminal) ==
  [p EXCEPT !.added = Append(@, op),
            !.terminal = IF terminal THEN @ \cup {op} ELSE @,
            !.initial = IF @ = None /\ p.parent[op] = None THEN op ELSE @,
            !.onSuccess = IF p.added = <<>> \/ terminal
                          THEN @ ELSE LinkIfNone(@, p.added[Len(p.added)], op)]

ConnectOnSuccess(p, op, next)     == [p EXCEPT !.onSuccess[op] = next]
ConnectOnFailure(p, op, next)     == [p EXCEPT !.onFailure[op] = next]
ConnectOnCannotStart(p, op, next) == [p EXCEPT !.onCannotStart[op] = next]
TerminateOnSuccess(p, op) ==
  [p EXCEPT !.onSuccess[op] = None, !.terminal = @ \cup {op}]

-----------------------------------------------------------------------------
(* Task.run *)

Start ==
  /\ current = None
  /\ failures' = 0
  /\ current' = plan.initial
  /\ result' = IF plan.initial = None THEN "raised" ELSE "running"

Succeeds(op) ==
  /\ current = op
  /\ failures' = 0
  /\ current' = plan.onSuccess[op]
  /\ result' = IF plan.onSuccess[op] = None THEN "true" ELSE "running"

\* The count is reset whenever an operation has run, and then compared with
\* the limit of the operation that comes next; giving up calls a method that
\* Task does not have.
Fails(op) ==
  /\ current = op
  /\ failures' = 1
  /\ IF plan.onFailure[op] = None
     THEN current' = None /\ result' = "false"
     ELSE IF failures' >= MaxFailures
     THEN current' = None /\ result' = "raised"
     ELSE current' = plan.onFailure[op] /\ result' = "running"

\* "Cannot start critical operation."
CannotStart(op) ==
  /\ current = op
  /\ current' = plan.onCannotStart[op]
  /\ result' = IF plan.onCannotStart[op] = None THEN "stuck" ELSE "running"
  /\ UNCHANGED failures

=============================================================================
