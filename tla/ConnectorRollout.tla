---------------------------- MODULE ConnectorRollout ----------------------------
(***************************************************************************)
(* A webhook connector from the hub's API (services/hub/internal/api/      *)
(* handlers_connectors.go), which keeps a WebhookConnector and the Secret  *)
(* its senders sign with, to the receiver pod the event-gateway operator   *)
(* (operators/event-gateway/internal/controller/                           *)
(* webhookconnector_controller.go) runs for it.  A request is several      *)
(* calls, a pass of the operator works from its caches and is never        *)
(* repeated without an event.                                              *)
(*                                                                         *)
(* One connector: an id is never used again.  The Service and the Ingress  *)
(* have a content fixed by the id; the group's row is Access's.            *)
(***************************************************************************)
EXTENDS Naturals

CONSTANTS
  Keepers,        \* callers of the API
  MaxHmacs,       \* bound: secrets generated
  MaxGatewayUpsets \* bound: updates, calls that fail, hubs and receivers that die

VARIABLES
  gate,      \* the API server's objects: conn, hmac, receiver
  gateSeen,  \* the operator's caches of them
  gateLag,   \* the kinds whose cache has not the newest object
  called,    \* the connector is in the work queue
  gatePass,  \* the pass under way
  receiver,  \* what the pod was started with: hash of its template, secret
  keeper,    \* keeper[k]: the request of k
  created,   \* the create request has been made
  hmacs, gatewayUpsets,
  unsure     \* history: a create was answered with an error and has succeeded

gatewayVars == <<gate, gateSeen, gateLag, called, gatePass, receiver, keeper, created,
                 hmacs, gatewayUpsets, unsure>>
operatorSide == <<gateSeen, called, gatePass, receiver>>

GateKinds == {"conn", "hmac", "receiver"}
NoConnector == [there |-> FALSE, disabled |-> FALSE, ready |-> "unknown", since |-> 0]
Fetched == [NoConnector EXCEPT !.there = TRUE]
NoReceiver == [replicas |-> 0, hash |-> 0, there |-> FALSE]
NoRun == [hash |-> 0, secret |-> 0]
Free == [op |-> "none", pc |-> "none", copy |-> <<0, 0>>]
Resting == [pc |-> "idle", copy |-> NoConnector]

GatewayInit ==
  /\ gate = [conn |-> NoConnector, hmac |-> 0, receiver |-> NoReceiver]
  /\ gateSeen = gate /\ gateLag = {}
  /\ called = FALSE /\ gatePass = Resting
  /\ receiver = NoRun
  /\ keeper = [k \in Keepers |-> Free]
  /\ created = FALSE /\ hmacs = 0 /\ gatewayUpsets = 0
  /\ unsure = FALSE

GatewayUpset == gatewayUpsets < MaxGatewayUpsets /\ gatewayUpsets' = gatewayUpsets + 1

Set(kind, object) ==
  /\ gate' = [gate EXCEPT ![kind] = object]
  /\ gateLag' = IF gate[kind] = object THEN gateLag ELSE gateLag \union {kind}

(***************************************************************************)
(* The requests.                                                           *)
(***************************************************************************)
At(k, op, pc) == keeper[k].op = op /\ keeper[k].pc = pc
Goes(k, pc) == keeper' = [keeper EXCEPT ![k].pc = pc]
Ends(k) == keeper' = [keeper EXCEPT ![k] = Free]
Begins(k, op, pc, copy) ==
  /\ keeper[k] = Free
  /\ keeper' = [keeper EXCEPT ![k] = [op |-> op, pc |-> pc, copy |-> copy]]
NewHmac == hmacs < MaxHmacs /\ hmacs' = hmacs + 1

\* createConnector: the secret first.
CreateSecret(k) ==
  /\ ~ created /\ created' = TRUE
  /\ NewHmac
  /\ Begins(k, "create", "row", <<0, 0>>)
  /\ Set("hmac", hmacs + 1)
  /\ UNCHANGED <<operatorSide, gatewayUpsets, unsure>>

\* The image cannot be resolved, or the connector cannot be made: the secret
\* goes again.  The connector may have been made although the call failed.
CreateRow(k) ==
  /\ At(k, "create", "row")
  /\ \/ /\ Set("conn", Fetched)
        /\ Ends(k)
        /\ UNCHANGED <<gatewayUpsets, unsure>>
     \/ /\ GatewayUpset
        /\ Goes(k, "undo")
        /\ \/ UNCHANGED <<gate, gateLag, unsure>>
           \/ Set("conn", Fetched) /\ unsure' = TRUE
  /\ UNCHANGED <<operatorSide, created, hmacs>>

UndoSecret(k) ==
  /\ At(k, "create", "undo")
  /\ Ends(k)
  /\ \/ Set("hmac", 0) /\ UNCHANGED gatewayUpsets
     \/ GatewayUpset /\ UNCHANGED <<gate, gateLag>>
  /\ UNCHANGED <<operatorSide, created, hmacs, unsure>>

\* rotateConnectorSecret and updateConnector read, then write with the version
\* they have read: whoever comes second is refused.
ReadSecret(k) ==
  /\ gate.conn.there /\ gate.hmac # 0
  /\ NewHmac
  /\ Begins(k, "rotate", "write", <<gate.hmac, hmacs + 1>>)
  /\ UNCHANGED <<gate, gateLag, operatorSide, created, gatewayUpsets, unsure>>

WriteSecret(k) ==
  /\ At(k, "rotate", "write")
  /\ Ends(k)
  /\ LET read == keeper[k].copy[1]
         new  == keeper[k].copy[2] IN
     IF gate.hmac = read
     THEN Set("hmac", new)
     ELSE UNCHANGED <<gate, gateLag>>
  /\ UNCHANGED <<operatorSide, created, hmacs, gatewayUpsets, unsure>>

\* The two calls of an update in one: its write is refused if anything came between.
Toggle(k) ==
  /\ keeper[k] = Free /\ gate.conn.there
  /\ GatewayUpset
  /\ Set("conn", [gate.conn EXCEPT !.disabled = ~ @])
  /\ UNCHANGED <<operatorSide, keeper, created, hmacs, unsure>>

\* Mutant: the secret goes before the connector.
DeleteSecretFirst(k) ==
  /\ gate.conn.there
  /\ Begins(k, "delete", "secret", <<0, 0>>)
  /\ Set("hmac", 0)
  /\ UNCHANGED <<operatorSide, created, hmacs, gatewayUpsets, unsure>>

\* The Deployment goes with the connector that owns it.
DeleteRow(k) ==
  /\ gate.conn.there
  /\ Begins(k, "delete", "secret", <<0, 0>>)
  /\ gate' = [gate EXCEPT !.conn = NoConnector, !.receiver = NoReceiver]
  /\ gateLag' = gateLag \union {"conn", "receiver"}
  /\ UNCHANGED <<operatorSide, created, hmacs, gatewayUpsets, unsure>>

DeleteSecret(k) ==
  /\ At(k, "delete", "secret")
  /\ Ends(k)
  /\ \/ Set("hmac", 0) /\ UNCHANGED gatewayUpsets
     \/ GatewayUpset /\ UNCHANGED <<gate, gateLag>>
  /\ UNCHANGED <<operatorSide, created, hmacs, unsure>>

\* Every request under way ends with the hub.
HubStops ==
  /\ \E k \in Keepers : keeper[k] # Free
  /\ GatewayUpset
  /\ keeper' = [k \in Keepers |-> Free]
  /\ UNCHANGED <<gate, gateLag, operatorSide, created, hmacs, unsure>>

(***************************************************************************)
(* The operator.                                                           *)
(***************************************************************************)
\* Mutant: only what the connector owns is watched.
CallsOwned(kind) == kind # "hmac"

\* For, Owns, and the Secret through its label or its name.
Calls(kind) == kind \in GateKinds

GateEvent(kind) ==
  /\ kind \in gateLag
  /\ gateSeen' = [gateSeen EXCEPT ![kind] = gate[kind]]
  /\ gateLag' = gateLag \ {kind}
  /\ called' = (called \/ Calls(kind))
  /\ UNCHANGED <<gate, gatePass, receiver, keeper, created, hmacs, gatewayUpsets, unsure>>

requests == <<keeper, created, hmacs, unsure>>

GateStart ==
  /\ gatePass = Resting /\ called
  /\ called' = FALSE
  /\ gatePass' = IF gateSeen.conn.there
                 THEN [pc |-> "deploy", copy |-> gateSeen.conn] ELSE Resting
  /\ UNCHANGED <<gate, gateSeen, gateLag, receiver, requests, gatewayUpsets>>

Retry == gatePass' = Resting /\ called' = TRUE /\ UNCHANGED <<gate, gateLag>>

\* The hash of the cached secret; of none, the empty one.  An owner that is gone
\* has its Deployment collected again.
GateDeploy ==
  /\ gatePass.pc = "deploy"
  /\ LET new == [replicas |-> IF gatePass.copy.disabled THEN 0 ELSE 1,
                 hash |-> gateSeen.hmac, there |-> TRUE] IN
     IF "receiver" \in gateLag THEN Retry
     ELSE IF ~ gate.conn.there
     THEN gatePass' = [gatePass EXCEPT !.pc = "report"] /\ UNCHANGED <<gate, gateLag, called>>
     ELSE /\ gatePass' = [gatePass EXCEPT !.pc = "report"]
          /\ Set("receiver", new)
          /\ UNCHANGED called
  /\ UNCHANGED <<gateSeen, receiver, requests, gatewayUpsets>>

\* Mutant: the condition is stamped anew in every pass.
SinceAnew(copy, ready) == 1 - copy.since

\* The transition time stays if the condition does.
Since(copy, ready) == IF copy.ready = ready THEN copy.since ELSE 1 - copy.since

\* Status().Update carries the version the pass has read.
GateReport ==
  /\ gatePass.pc = "report"
  /\ LET copy  == gatePass.copy
         ready == IF copy.disabled THEN "disabled" ELSE "ready" IN
     IF gate.conn # copy THEN Retry
     ELSE /\ gatePass' = Resting
          /\ Set("conn", [copy EXCEPT !.ready = ready, !.since = Since(copy, ready)])
          /\ UNCHANGED called
  /\ UNCHANGED <<gateSeen, receiver, requests, gatewayUpsets>>

\* Also the Service and the Ingress may fail: the pass is repeated from its start.
GateFails ==
  /\ gatePass # Resting
  /\ GatewayUpset
  /\ Retry
  /\ UNCHANGED <<gateSeen, receiver, requests>>

\* The Deployment: WEBHOOK_SECRET is read when a pod starts and not again.
ReceiverStarts ==
  /\ gate.receiver.replicas = 1 /\ gate.hmac # 0
  /\ receiver.secret = 0 \/ receiver.hash # gate.receiver.hash
  /\ receiver' = [hash |-> gate.receiver.hash, secret |-> gate.hmac]
  /\ UNCHANGED <<gate, gateSeen, gateLag, called, gatePass, requests, gatewayUpsets>>

ReceiverStops ==
  /\ receiver # NoRun
  /\ IF gate.receiver.replicas = 0 THEN UNCHANGED gatewayUpsets ELSE GatewayUpset
  /\ receiver' = NoRun
  /\ UNCHANGED <<gate, gateSeen, gateLag, called, gatePass, requests>>

OfKeeper(k) ==
  \/ CreateSecret(k) \/ CreateRow(k) \/ UndoSecret(k)
  \/ ReadSecret(k) \/ WriteSecret(k) \/ Toggle(k)
  \/ DeleteRow(k) \/ DeleteSecret(k)

GatewayNext ==
  \/ \E k \in Keepers : OfKeeper(k)
  \/ HubStops
  \/ \E kind \in GateKinds : GateEvent(kind)
  \/ GateStart \/ GateDeploy \/ GateReport \/ GateFails
  \/ ReceiverStarts \/ ReceiverStops

\* Events arrive, the operator and the Deployment work.  Nothing repeats a pass.
AnyGateEvent == \E kind \in GateKinds : GateEvent(kind)
GateGoesOn   == GateStart \/ GateDeploy \/ GateReport
ReceiverGoesOn == ReceiverStarts \/ (ReceiverStops /\ gate.receiver.replicas = 0)

GatewayFairness ==
  WF_gatewayVars(AnyGateEvent) /\ WF_gatewayVars(GateGoesOn) /\ WF_gatewayVars(ReceiverGoesOn)

GatewaySpec == GatewayInit /\ [][GatewayNext]_gatewayVars /\ GatewayFairness

(***************************************************************************)
(* Properties.                                                             *)
(***************************************************************************)
\* A connector always has the secret its senders sign with, whatever call of its
\* making or removing fails and wherever the hub stops, unless the call that made
\* it was taken for one that failed.
KeyHeld == (gate.conn.there /\ ~ unsure) => gate.hmac # 0

\* The operator comes to rest, and then the receiver checks signatures with the
\* secret that was stored last: a rotation lands without anybody restarting the
\* pod (webhookSecretHashAnnotation: "without the restart, a rotated secret would
\* never take effect"), a disabled connector has no receiver.
Landed ==
  /\ gatePass = Resting /\ ~ called
  /\ gate.conn.there =>
       IF gate.conn.disabled THEN receiver = NoRun
       ELSE gate.hmac # 0 => receiver.secret = gate.hmac
RotationLands == <>[]Landed
===============================================================================
