------------------------------ MODULE MCCondVar ------------------------------
(* Instances of CondVar for TLC: threads that wait, one that signals and   *)
(* one that broadcasts.                                                    *)
EXTENDS CondVar, TLC

CONSTANTS Sleepers, Signaller, Broadcaster

Roles == Sleepers \union {Signaller, Broadcaster}

RolesMay ==
  [t \in Roles |-> IF t \in Sleepers THEN {"wait"}
                   ELSE IF t = Signaller THEN {"signal"} ELSE {"broadcast"}]
=============================================================================
