------------------------------ MODULE MCServices -----------------------------
(***************************************************************************)
(* The services around a Run, for TLC: conversations and Workspaces,       *)
(* tenants, the Model Gateway, steering, the Web Terminal and the egress   *)
(* gateways.  They share no state that these models keep, so a             *)
(* behaviour takes the steps of one of them, its part, and the state       *)
(* spaces add up instead of multiplying.                                   *)
(***************************************************************************)
EXTENDS Conversations, ModelGateway, TurnSteering, WebTerminal, Tenancy,
        Egress, TLC

CONSTANTS v1, v2, s1, s2, s3, s4, w1, w2, d1, d2, x1, a1, a2

VARIABLE part

MCSessions == {s1, s2, s3, s4}
MCAttempts == 1..2
MCRunOf == [a \in MCAttempts |-> x1]

\* The requests of a part, whatever they are, are interchangeable.
ServiceSymmetry == Permutations({v1, v2})

\* A part that stands still has one initial state.
ServicesInit ==
  /\ part \in {"conversations", "gateway", "steering", "terminal", "tenancy", "egress"}
  /\ ConversationsInit /\ GatewayInit /\ SteerInit /\ TerminalInit
  /\ TenancyInit /\ EgressInit
  /\ part # "conversations" => env[w1] = [FirstEnvironment(1) EXCEPT !.state[1] = "validated"]
  /\ part # "gateway" => route /\ credential[1].secret = 1
  /\ part # "terminal" => warmOwner = 1

ServicesNext ==
  \/ /\ part = "conversations" /\ ConversationsNext
     /\ UNCHANGED <<part, gatewayVars, steerVars, terminalVars, tenancyVars,
                     egressVars>>
  \/ /\ part = "gateway" /\ GatewayNext
     /\ UNCHANGED <<part, conversationsVars, steerVars, terminalVars,
                     tenancyVars, egressVars>>
  \/ /\ part = "steering" /\ SteerNext
     /\ UNCHANGED <<part, conversationsVars, gatewayVars, terminalVars,
                     tenancyVars, egressVars>>
  \/ /\ part = "terminal" /\ TerminalNext
     /\ UNCHANGED <<part, conversationsVars, gatewayVars, steerVars,
                     tenancyVars, egressVars>>
  \/ /\ part = "tenancy" /\ TenancyNext
     /\ UNCHANGED <<part, conversationsVars, gatewayVars, steerVars,
                     terminalVars, egressVars>>
  \/ /\ part = "egress" /\ EgressNext
     /\ UNCHANGED <<part, conversationsVars, gatewayVars, steerVars,
                     terminalVars, tenancyVars>>

ServicesSpec ==
  ServicesInit /\ [][ServicesNext]_<<part, conversationsVars, gatewayVars,
       steerVars, terminalVars, tenancyVars, egressVars>>

\* A steer is delivered once and truthfully, a terminal leaves no shell behind,
\* and a tunnel keeps to one revision of the policy (the steering service, the
\* Web Terminal's hops, the egress proxy).
ServicesSound ==
  /\ SteerTypeOK /\ DeliveredWasReceived /\ SteeredOnce
  /\ TerminalTypeOK /\ NoAbandonedShell /\ ShellHoldsWorkspace
  /\ EgressTypeOK /\ OneRevisionPerTunnel /\ OrphanedUpstreamTimed

\* What a service has settled stays settled: the Turns of an archived
\* conversation, a settled model request, a steer's outcome, a revocation, and
\* the revision a proxy has reached.
SettledStays ==
  ArchivedTakesNoTurns /\ SettledOnce /\ OutcomeIsFinal /\ RevokedStaysRevoked /\ RevisionsMoveOn
=============================================================================
