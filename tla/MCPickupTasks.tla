---------------------------- MODULE MCPickupTasks ----------------------------
(* Instances of PickupTasks for TLC: two cups, a ball, a box, a table and a  *)
(* person.                                                                   *)
EXTENDS PickupTasks

Operations ==
  {PickupSteps[i] : i \in DOMAIN PickupSteps} \cup {HandOverSteps[i] : i \in DOMAIN HandOverSteps}

Things == {"cup1", "cup2", "ball1", "box1", "table1", "person1"}
KindOf ==
  [i \in Things |-> CASE i \in {"cup1", "cup2"} -> "cup"
                      [] i = "ball1" -> "ball"
                      [] i = "box1" -> "box"
                      [] i = "table1" -> "table"
                      [] i = "person1" -> "person"]

Order(task, what, where) == [task |-> task, object |-> what, receptacle |-> where]

Orders ==
  {Order("pickup", "cup", "box"), Order("pick", "ball", "box"),
   Order("place", "cup", "table"), Order("find", "ball", "box"),
   Order("hand_over", "person", "box")}

=============================================================================
