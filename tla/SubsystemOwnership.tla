------------------------- MODULE SubsystemOwnership -------------------------
(***************************************************************************)
(* What the command scheduler promises to its users, as the class comment  *)
(* of CommandScheduler puts it: a map from subsystems to the one command   *)
(* that controls each of them.  A command takes all the subsystems it      *)
(* requires in one step, whoever held any of them loses everything it had, *)
(* and it gives all of them back in one step.                              *)
(***************************************************************************)
CONSTANTS Command, Subsystem, NoCommand,
          Demand      \* the subsystems a command controls while scheduled

VARIABLE owner

Init == owner = [s \in Subsystem |-> NoCommand]

\* The commands that lose their subsystems when c is scheduled.
Displaced(c) == {owner[s] : s \in Demand[c]}

Take(c) ==
  /\ Demand[c] # {}
  /\ owner' = [s \in Subsystem |->
                 IF s \in Demand[c] THEN c
                 ELSE IF owner[s] \in Displaced(c) THEN NoCommand ELSE owner[s]]

GiveBack(c) ==
  /\ \E s \in Subsystem : owner[s] = c
  /\ owner' = [s \in Subsystem |-> IF owner[s] = c THEN NoCommand ELSE owner[s]]

\* Hardware tests take the robot away from every command at once.
RevokeAll == owner' = [s \in Subsystem |-> NoCommand]

Next == RevokeAll \/ \E c \in Command : Take(c) \/ GiveBack(c)

Spec == Init /\ [][Next]_owner
=============================================================================
