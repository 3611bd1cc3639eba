---------------------------- MODULE MCSpillover ----------------------------
(***************************************************************************)
(* Small instances of Spillover for TLC.                                   *)
(***************************************************************************)
EXTENDS Spillover, TLC

MCZones == {1, 2, 3}
MCBins == {"b1", "b2", "b3"}

\* Zone 1 starts with two bins, zone 2 with one, zone 3 with none.
MCHome == "b1" :> 1 @@ "b2" :> 1 @@ "b3" :> 2
MCFour == {"b1", "b2", "b3", "b4"}
MCHomeFour == MCHome @@ "b4" :> 2
MCFilling == {"b1", "b2"}

(***************************************************************************)
(* A state the simulator reaches: zone 2's truck drove to b4 while b3      *)
(* overflowed, and completing the route took b3 off the list unserviced.   *)
(* Zone 3 was told of the two bins, zone 1 of the empty list; everything   *)
(* is delivered.                                                           *)
(***************************************************************************)
UnlistedInit ==
  /\ zone_bins = [z \in Zones |-> {b \in Bins : Home[b] = z}]
  /\ zone_id = Home
  /\ overflowing = {"b3"}
  /\ overflowing_bins = [z \in Zones |-> {}]
  /\ active_route = [z \in Zones |-> {}]
  /\ op_loop = [z \in Zones |-> IF z = 2 THEN "publish" ELSE "plan"]
  /\ truck = [z \in Zones |-> {}]
  /\ plan_current = [z \in Zones |-> FALSE]
  /\ current_state = [z \in Zones |-> IF z = 2 THEN 0 ELSE Unknown]
  /\ peer_states = [z \in Zones |-> [p \in Zones |->
       IF p # 2 \/ z = 2 THEN Unknown ELSE IF z = 1 THEN 0 ELSE 2]]
  /\ pending_spillovers = [z \in Zones |-> [t \in Zones |-> {}]]
  /\ attempted_peers = [z \in Zones |-> {}]
  /\ message_queue = [z \in Zones |-> <<>>]

UnlistedSpec == UnlistedInit /\ [][Next]_vars /\ Fairness
=============================================================================
