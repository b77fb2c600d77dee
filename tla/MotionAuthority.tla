--------------------------- MODULE MotionAuthority ---------------------------
(***************************************************************************)
(* What the command protocol promises about a robot, without receipts,     *)
(* envelopes, threads or adapters: one session commands at a time, each    *)
(* identity is spent at most once and in order, the robot is in motion     *)
(* only on behalf of the one command that holds the motion slot, the slot  *)
(* is given up only at rest, and control changes hands only when the slot  *)
(* is free.  CommandRuntime implements this specification.                 *)
(***************************************************************************)
EXTENDS Integers

CONSTANTS Session, Sequence, None

Key == Session \X Sequence

VARIABLES
  owner,    \* the session in control, or None
  retired,  \* sessions that gave control back
  spent,    \* identities that can never be used again
  slot,     \* the command on whose behalf the robot may move, or None
  moving    \* the robot is in motion

authorityVars == <<owner, retired, spent, slot, moving>>

Init ==
  /\ owner = None
  /\ retired = {}
  /\ spent = {}
  /\ slot = None
  /\ moving = FALSE

\* A command of the owner, or of the first to ask, later than all its others.
Spend(k) ==
  /\ owner \in {None, k[1]}
  /\ k[1] \notin retired
  /\ \A j \in spent : j[1] = k[1] => j[2] < k[2]
  /\ owner' = k[1]
  /\ spent' = spent \cup {k}
  /\ slot' \in {slot, IF slot = None THEN k ELSE slot}
  /\ UNCHANGED <<retired, moving>>

\* The robot starts to move, for the command in the slot.
Start ==
  /\ slot # None /\ ~moving
  /\ moving' = TRUE
  /\ UNCHANGED <<owner, retired, spent, slot>>

\* The robot comes to rest; its command may or may not be over.
Rest ==
  /\ moving
  /\ moving' = FALSE
  /\ UNCHANGED <<owner, retired, spent, slot>>

\* The command in the slot is over, and the robot is at rest.
Vacate ==
  /\ slot # None
  /\ slot' = None
  /\ moving' = FALSE
  /\ UNCHANGED <<owner, retired, spent>>

\* The owner gives control back for good.
HandOver ==
  /\ owner # None /\ slot = None
  /\ owner' = None
  /\ retired' = retired \cup {owner}
  /\ UNCHANGED <<spent, slot, moving>>

Next ==
  \/ \E k \in Key : Spend(k)
  \/ Start
  \/ Rest
  \/ Vacate
  \/ HandOver

Spec == Init /\ [][Next]_authorityVars
=============================================================================
