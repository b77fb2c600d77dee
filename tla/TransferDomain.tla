--------------------------- MODULE TransferDomain ---------------------------
(***************************************************************************)
(* The domain that task planning works on: objects on a table whose top is *)
(* divided into regions, and one kind of operator, that moves an object to *)
(* a free region (controller/task/tamp: task_contracts.py,                 *)
(* task_planning.py, transfer_provider.py).                                *)
(*                                                                         *)
(* The names of objects and regions are numbers, in the order in which the *)
(* code sorts the names.  A region that is blocked by something else is    *)
(* one that an object occupies and that no goal mentions.                  *)
(***************************************************************************)
EXTENDS Naturals, FiniteSets

CONSTANTS
    Objects,
    Regions,
    Outside,   \* on the support, in no region
    Fits       \* <<object, region>>: the footprint fits in the region

ASSUME DomainAssumption ==
    /\ Objects \subseteq Nat
    /\ Regions \subseteq Nat
    /\ Outside \in Nat \ Regions
    /\ Fits \subseteq Objects \X Regions

\* A region holds one object at most.
Placements ==
    { at \in [Objects -> Regions \cup {Outside}] :
        \A o, p \in Objects : at[o] = at[p] => o = p \/ at[o] = Outside }

\* The predicates of a snapshot.
Facts(at) ==
    { <<"at", o, at[o]>> : o \in Objects } \cup
    { <<"free", r>> : r \in { r \in Regions : \A o \in Objects : at[o] # r } }

Transfer == [obj : Objects, source : Regions \cup {Outside}, target : Regions]

Requires(op) == { <<"at", op.obj, op.source>>, <<"free", op.target>> }

Deletes(op) == Requires(op)

Adds(op) ==
    { <<"at", op.obj, op.target>> } \cup
    { <<"free", r>> : r \in {op.source} \ {Outside} }

Operators(facts) == { op \in Transfer : Requires(op) \subseteq facts }

Apply(op, facts) == (facts \ Deletes(op)) \cup Adds(op)

Feasible(op, facts) ==
    Requires(op) \subseteq facts /\ <<op.obj, op.target>> \in Fits

\* An instruction assigns objects to distinct regions ("move", and "swap",
\* which assigns two objects to each other's); every other object is protected.
Assignments ==
    { f \in UNION { [S -> Regions] : S \in SUBSET Objects \ {{}} } :
        \A o, p \in DOMAIN f : f[o] = f[p] => o = p }

Goal(assigned, at) ==
    [ required |-> { <<"at", o, assigned[o]>> : o \in DOMAIN assigned },
      protected |-> { <<"at", o, at[o]>> : o \in Objects \ DOMAIN assigned } ]

Keeps(goal, facts) == goal.protected \subseteq facts

Satisfied(goal, facts) == (goal.required \cup goal.protected) \subseteq facts
=============================================================================
