-------------------------------- MODULE MCOperator --------------------------------
(***************************************************************************)
(* The TLC instance of what the operators do.  QueueScaling: one pod over  *)
(* a queue of two rows, or of one row and with one failure.  AgentRollout: *)
(* an agent, its image, key, persona and skills through two edits or       *)
(* failures.  ConnectorRollout: a connector's secret and receiver under    *)
(* two requests at once.  Every behaviour is of one of them, its part.     *)
(***************************************************************************)
EXTENDS QueueScaling, AgentRollout, ConnectorRollout

CONSTANTS p1, k1, k2

OnePod     == {p1}
TwoKeepers == {k1, k2}

-------------------------------------------------------------------------------
(* An agent with a key and the image's skills, which may get a list and a      *)
(* variable of its own and lose the key; an image whose sidecar needs E.       *)
EachEnv(v) == [n \in EnvNames |-> v]
MCFirstSpec ==
  [profile |-> "i1", persona |-> "p1", model |-> 1, tune |-> 1, key |-> TRUE,
   own |-> "inherits", over |-> EachEnv(0), servers |-> {}]
MCSpecs ==
  {[MCFirstSpec EXCEPT !.model = 2, !.tune = 2, !.key = FALSE, !.own = "some", !.over = EachEnv(1),
                       !.servers = {{"T"}}]}

Text(url, env) ==
  [url |-> url, env |-> EachEnv(env), sidecar |-> {"E"}, skills |-> TRUE, servers |-> {"E"}]
MCProfileTexts == {Text(2, 0)}
MCFirstProfile == [i \in Profiles |-> Text(1, 1)]
MCFirstRendered == [n \in PersonaNames |-> 1]

-------------------------------------------------------------------------------
VARIABLE part

operatorVars == <<part, vars, rolloutVars, gatewayVars>>

\* The two bounds of the signal: two rows, no failure and an operator that is never
\* behind; one row, a failure and an operator that lags.
OfScaling(A) ==
  /\ part \in {"queue", "failing"} /\ A /\ UNCHANGED <<part, rolloutVars, gatewayVars>>
  /\ part = "queue" =>
       /\ UNCHANGED faults
       /\ cached # status => cached' = status
       /\ cached = status /\ Resolve(cached, desired) # desired => desired' # desired
  /\ part = "failing" => pending' + active' <= 1
OfRollout(A) == part = "rollout" /\ A /\ UNCHANGED <<part, vars, gatewayVars>>
OfGateway(A) == part = "gateway" /\ A /\ UNCHANGED <<part, vars, rolloutVars>>

\* The same without what leaves the others alone, for the fairness.
Scales(A) == part \in {"queue", "failing"} /\ A
Rolls(A)  == part = "rollout" /\ A
Serves(A) == part = "gateway" /\ A

OperatorInit ==
  /\ part \in {"queue", "failing", "rollout", "gateway"}
  /\ Init /\ RolloutInit /\ GatewayInit

OperatorNext == OfScaling(Next) \/ OfRollout(RolloutNext) \/ OfGateway(GatewayNext)

\* The fairness of each component, of its own steps.
OperatorSpec ==
  /\ OperatorInit /\ [][OperatorNext]_operatorVars
  /\ WF_vars(Scales(Observe)) /\ SF_vars(Scales(Minute)) /\ WF_vars(Scales(Publish))
  /\ WF_vars(Scales(HubStarts)) /\ WF_vars(Scales(Watch)) /\ WF_vars(Scales(Reconcile))
  /\ WF_vars(Scales(AnyPodStarts))
  /\ WF_rolloutVars(Rolls(AnyDelivered)) /\ WF_rolloutVars(Rolls(PassGoesOn))
  /\ WF_rolloutVars(Rolls(RollOut))
  /\ WF_gatewayVars(Serves(AnyGateEvent)) /\ WF_gatewayVars(Serves(GateGoesOn))
  /\ WF_gatewayVars(Serves(ReceiverGoesOn))

-------------------------------------------------------------------------------
(* AgentRollout's IdleMeansCurrent, ConnectorRollout's KeyHeld.                *)
ObjectsHold ==
  /\ part = "rollout" => IdleMeansCurrent
  /\ part = "gateway" => KeyHeld

(* QueueScaling's WorkWakes and IdleParks: an agent with work gets a pod, one  *)
(* without comes down to its floor.                                            *)
AgentsScale == WorkWakes /\ IdleParks

(* AgentRollout's CatchesUp, ConnectorRollout's RotationLands: whatever was    *)
(* edited while a pass ran or failed reaches the pods.                         *)
EditsLand == <>[]((part = "rollout" => RunsAsAsked) /\ (part = "gateway" => Landed))
===============================================================================
