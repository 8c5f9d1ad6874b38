------------------------------ MODULE MCWorkers ------------------------------
(***************************************************************************)
(* A Pi Worker process, for TLC: its link to the Control Plane, the        *)
(* commands on that link, its Run pool, the Pi Session log of a Run and    *)
(* the Cloud Steps of a model loop.  The models share no variable, so a    *)
(* behaviour takes the steps of one of them, its part.                     *)
(***************************************************************************)
EXTENDS SupervisorLink, PiSession, PiWorker, SteerExchange, StepContext, TLC

CONSTANTS v1, v2, e1, e2

VARIABLE part

\* Steer commands, and the parents, Sandboxes and environments of the others,
\* are interchangeable.
WorkerSymmetry == Permutations({v1, v2})

WorkersInit ==
  /\ part \in {"link", "session", "pool", "exchange", "context"}
  /\ LinkInit /\ PiInit /\ PoolInit /\ ExchangeInit /\ ContextInit

WorkersNext ==
  \/ /\ part = "link" /\ LinkNext
     /\ UNCHANGED <<part, piVars, poolVars, exchangeVars, contextVars>>
  \/ /\ part = "session" /\ PiNext
     /\ UNCHANGED <<part, linkVars, poolVars, exchangeVars, contextVars>>
  \/ /\ part = "pool" /\ PoolNext
     /\ UNCHANGED <<part, linkVars, piVars, exchangeVars, contextVars>>
  \/ /\ part = "exchange" /\ ExchangeNext
     /\ UNCHANGED <<part, linkVars, piVars, poolVars, contextVars>>
  \/ /\ part = "context" /\ ContextNext
     /\ UNCHANGED <<part, linkVars, piVars, poolVars, exchangeVars>>

WorkersSpec ==
  WorkersInit /\ [][WorkersNext]_<<part, linkVars, piVars, poolVars,
                                  exchangeVars, contextVars>>
=============================================================================
