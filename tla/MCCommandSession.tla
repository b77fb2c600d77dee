-------------------------- MODULE MCCommandSession --------------------------
(* Small instances of CommandSession for TLC. *)
EXTENDS CommandSession, TLC

CONSTANTS s1, state, observations

OneSession  == {s1}
OneStream  == {state}
TwoStreams  == {state, observations}
OneCommand    == {0}
ThreeCommands == 0..2
OneBoot  == {0}
TwoBoots == {0, 1}

Simple(ops) == [op : ops, target : {None}]

GoalPayload ==
  Simple({"xyt", "release_control"})
    \cup [op : {"cancel_navigation"}, target : Session \X Sequence]

MixedPayload ==
  Simple({"xyt", "say", "malformed_goal", "release_control"})
    \cup [op : {"cancel_navigation"}, target : Session \X Sequence]

\* The streams are interchangeable: no definition tells one from another.
StreamSymmetry == Permutations(TwoStreams)

\* A bound: the first command alone may be a goal; the others address it.
GoalComesFirst ==
  \A s \in Session : client[s].next > 1 /\ client[s].action # None =>
    client[s].action.payload.op # "xyt"
=============================================================================
