------------------------------ MODULE AgentRollout ------------------------------
(***************************************************************************)
(* The agent operator (operators/agent/internal/controller/                *)
(* agent_controller.go) turning an Agent and what it refers to into a      *)
(* Deployment: the AgentImage, the API key Secret, the ConfigMaps the hub  *)
(* renders for personas and skills, the digest behind the image's tag.     *)
(* Each informer's cache lags behind the API server; a change reaches the  *)
(* work queue when its event does, through the mapping of its kind; a pass *)
(* is several writes with a resource version, each of which may fail.      *)
(*                                                                         *)
(* The agent exists and wants one pod (how many: QueueScaling).  An        *)
(* object's content is the number of the change that made it, 0 for none.  *)
(* The metrics Service and the ServiceMonitor have a fixed content and are *)
(* left out.                                                               *)
(***************************************************************************)
EXTENDS Naturals, FiniteSets

CONSTANTS
  Specs,         \* the specs the hub may write: profile, persona, model, tune, key, own,
                 \* over, servers
  Profiles,      \* names of AgentImages
  ProfileTexts,  \* the specs one may have: url, env, sidecar, skills, servers
  PersonaNames,  \* personas with a ConfigMap of their own
  EnvNames,      \* names of environment variables
  Managed,       \* those platformManagedAgentEnv owns
  FirstSpec, FirstProfile, FirstRendered,
  MaxUpsets      \* bound: changes of an input, calls that fail and pods that die

VARIABLES
  api,       \* the API server's objects, by kind
  seen,      \* the operator's caches of them
  lag,       \* the kinds whose cache has not the newest object
  waiting,   \* the agent is in the work queue
  pass,      \* the pass under way: where it is, the Agent and AgentImage it read
  registry,  \* the digest behind the image's tag
  podNow,    \* what the pod was started with
  upsets

rolloutVars == <<api, seen, lag, waiting, pass, registry, podNow, upsets>>

Kinds == {"agent", "profile", "key", "persona", "skills", "models", "env", "deploy"}
NoProfile ==
  [url |-> 0, env |-> [n \in EnvNames |-> 0], sidecar |-> {}, skills |-> FALSE, servers |-> {}]
NoEnv == [n \in {} |-> 0]
NoModels == [model |-> 0, tune |-> 0]
Unresolved == MaxUpsets + 2
NoTemplate == [url |-> 0]
NoPod == [template |-> NoTemplate]
NewAgent == [spec |-> FirstSpec, gen |-> 0, seenGen |-> 0, ready |-> FALSE]
AtRest == [pc |-> "idle", agent |-> NewAgent, profile |-> NoProfile]

\* effectiveEnv: the image's variables under the agent's own; 0 is not defined.
EffectiveEnv(spec, profile) ==
  [n \in EnvNames |-> IF spec.over[n] # 0 THEN spec.over[n] ELSE profile.env[n]]
Defined(env) == {n \in EnvNames : env[n] # 0}

\* effectiveSkills: the agent's own list, also an empty one, or the image's.
HasSkills(spec, profile) ==
  IF spec.own = "inherits" THEN profile.skills ELSE spec.own = "some"

\* effectiveMCPServers: the agent's own, if it has a list, or the image's; a server is
\* the variable it takes its token from.
Servers(spec, profile) == IF spec.servers = {} THEN profile.servers ELSE UNION spec.servers

\* reconcileImageEnvSecret: names the platform owns carry its value.
Canonical == MaxUpsets + 2
EnvSecret(spec, profile) ==
  LET env == EffectiveEnv(spec, profile) IN
  [n \in Defined(env) |-> IF n \in Managed THEN Canonical ELSE env[n]]

ModelsFile(spec) == [model |-> spec.model, tune |-> spec.tune]

\* computeSkillsHash: all of the shared ConfigMap, for an agent that has any.
SkillsHash(spec, profile, objects) == IF HasSkills(spec, profile) THEN objects.skills ELSE 0

\* Mutant: no hash of the persona.
HashesForgettingPersona(spec, profile, objects, digest) ==
  [key |-> objects.key, env |-> objects.env, persona |-> 0,
   skills |-> SkillsHash(spec, profile, objects),
   digest |-> digest]

\* What the annotations hash: the key whether or not the spec names its Secret.
Hashes(spec, profile, objects, digest) ==
  [key |-> objects.key, env |-> objects.env, persona |-> objects.persona[spec.persona],
   skills |-> SkillsHash(spec, profile, objects),
   digest |-> digest]

\* The persona's ConfigMap and, for an agent with skills, the shared one.
Mounted(spec, profile) == [persona |-> spec.persona, skills |-> HasSkills(spec, profile)]

\* The key's Secret is optional if the spec does not name it.
KeyNeeded(spec) == spec.key

\* Variables taken from the env Secret; the platform's own have fixed values.
ContainerEnv(spec, profile) == Defined(EffectiveEnv(spec, profile)) \ Managed

\* TokenEnvValue: the servers that get their token, and those whose variable is missing.
Tokens(spec, profile) == Servers(spec, profile) \intersect ContainerEnv(spec, profile)
MissingEnv(spec, profile) == Servers(spec, profile) \ ContainerEnv(spec, profile)

\* A sidecar takes all its variables from the env Secret, defined there or not.
SidecarEnv(profile) == profile.sidecar

\* The pod template of reconcileDeployment, its annotations under "hash".
Template(spec, profile, hash) ==
  [url |-> profile.url, model |-> spec.model, mounts |-> Mounted(spec, profile),
   key |-> KeyNeeded(spec), env |-> ContainerEnv(spec, profile),
   servers |-> Servers(spec, profile), tokens |-> Tokens(spec, profile),
   sidecar |-> SidecarEnv(profile), hash |-> hash]

RolloutInit ==
  LET objects ==
        [agent   |-> NewAgent,
         profile |-> FirstProfile, key |-> 1, persona |-> FirstRendered, skills |-> 0,
         env |-> NoEnv, models |-> NoModels,
         deploy |-> [template |-> NoTemplate, up |-> FALSE]] IN
  /\ api = objects /\ seen = objects
  /\ lag = {} /\ waiting = TRUE /\ pass = AtRest
  /\ registry = 0 /\ podNow = NoPod
  /\ upsets = 0

Upset == upsets < MaxUpsets /\ upsets' = upsets + 1

(***************************************************************************)
(* The inputs: the hub writes the Agent, the AgentImage, the Secret and    *)
(* the ConfigMaps; a push moves the tag.                                   *)
(***************************************************************************)
Stores(kind, object) ==
  /\ object # api[kind]
  /\ api' = [api EXCEPT ![kind] = object]
  /\ lag' = lag \union {kind}

Fresh == upsets + 2

Input ==
  /\ Upset
  /\ UNCHANGED <<seen, waiting, pass, podNow>>

EditAgent(spec) ==
  /\ Input
  /\ spec # api.agent.spec
  /\ Stores("agent", [api.agent EXCEPT !.spec = spec, !.gen = Fresh])
  /\ UNCHANGED registry

\* An AgentImage may be deleted while an Agent names it.
EditProfile(p) ==
  /\ Input
  /\ \E text \in ProfileTexts \union {NoProfile} :
       Stores("profile", [api.profile EXCEPT ![p] = text])
  /\ UNCHANGED registry

RotateKey == /\ Input
             /\ Stores("key", Fresh)
             /\ UNCHANGED registry

RenderPersona(n) ==
  /\ Input
  /\ Stores("persona", [api.persona EXCEPT ![n] = Fresh])
  /\ UNCHANGED registry

RenderSkills == /\ Input
                /\ Stores("skills", Fresh)
                /\ UNCHANGED registry

PushImage == /\ Input
             /\ registry' = Fresh
             /\ UNCHANGED <<api, lag>>

(***************************************************************************)
(* Events: the cache first, then the mapping of the kind, which asks the   *)
(* caches whom it concerns.                                                *)
(***************************************************************************)
\* Mutant: the skills ConfigMap is looked for in the agents' own lists.
ConcernsOwnSkills(kind) ==
  LET spec == seen.agent.spec IN
  CASE kind = "profile" -> api.profile[spec.profile] # seen.profile[spec.profile]
    [] kind = "key"     -> spec.key
    [] kind = "persona" -> api.persona[spec.persona] # seen.persona[spec.persona]
    [] kind = "skills"  -> spec.own # "inherits"
    [] OTHER            -> TRUE

Concerns(kind) ==
  LET spec == seen.agent.spec IN
  CASE kind = "profile" -> api.profile[spec.profile] # seen.profile[spec.profile]
    [] kind = "key"     -> spec.key
    [] kind = "persona" -> api.persona[spec.persona] # seen.persona[spec.persona]
    [] kind = "skills"  -> spec.own # "inherits" \/ seen.profile[spec.profile].skills
    [] OTHER            -> TRUE

Deliver(kind) ==
  /\ kind \in lag
  /\ seen' = [seen EXCEPT ![kind] = api[kind]]
  /\ lag' = lag \ {kind}
  /\ waiting' = (waiting \/ Concerns(kind))
  /\ UNCHANGED <<api, pass, registry, podNow, upsets>>

(***************************************************************************)
(* A pass.                                                                 *)
(***************************************************************************)
Outside == UNCHANGED <<seen, registry, podNow>>

StartPass ==
  /\ pass.pc = "idle" /\ waiting
  /\ waiting' = FALSE
  /\ LET agent   == seen.agent
         profile == seen.profile[agent.spec.profile] IN
     pass' = [pc |-> IF profile = NoProfile THEN "unready" ELSE "models",
              agent |-> agent, profile |-> profile]
  /\ UNCHANGED <<api, lag, upsets>> /\ Outside

\* A write from a copy that is not the newest is refused, the pass is retried.
Puts(kind, object, next) ==
  IF kind \in lag
  THEN pass' = AtRest /\ waiting' = TRUE /\ UNCHANGED <<api, lag>>
  ELSE /\ pass' = [pass EXCEPT !.pc = next]
       /\ api' = [api EXCEPT ![kind] = object]
       /\ lag' = IF api[kind] = object THEN lag ELSE lag \union {kind}
       /\ UNCHANGED waiting

PutModels ==
  /\ pass.pc = "models"
  /\ Puts("models", ModelsFile(pass.agent.spec), "env")
  /\ UNCHANGED upsets /\ Outside

\* A Secret nobody needs any more is deleted if the cache has one.
PutEnv ==
  /\ pass.pc = "env"
  /\ LET secret == EnvSecret(pass.agent.spec, pass.profile) IN
     IF secret = NoEnv /\ (seen.env = NoEnv \/ api.env = NoEnv)
     THEN pass' = [pass EXCEPT !.pc = "deploy"] /\ UNCHANGED <<api, lag, waiting>>
     ELSE IF secret = NoEnv
     THEN /\ pass' = [pass EXCEPT !.pc = "deploy"]
          /\ Stores("env", NoEnv)
          /\ UNCHANGED waiting
     ELSE Puts("env", secret, "deploy")
  /\ UNCHANGED upsets /\ Outside

\* The template is built anew: a digest that is not found is left out of it.
PutDeployment ==
  /\ pass.pc = "deploy"
  /\ \E digest \in {registry, Unresolved} :
       /\ IF digest = Unresolved THEN Upset ELSE UNCHANGED upsets
       /\ LET spec == pass.agent.spec IN
          Puts("deploy",
               [api.deploy EXCEPT !.template =
                  Template(spec, pass.profile, Hashes(spec, pass.profile, seen, digest))],
               "status")
  /\ Outside

\* The merge patch carries no resource version.
Patches(gen, ready) ==
  LET agent == [api.agent EXCEPT !.seenGen = gen, !.ready = ready] IN
  /\ pass' = AtRest
  /\ api' = [api EXCEPT !.agent = agent]
  /\ lag' = IF agent = api.agent THEN lag ELSE lag \union {"agent"}
  /\ UNCHANGED <<waiting, upsets>>

\* Ready needs the pod, the persona's ConfigMap and the MCP servers' variables.
PutStatus ==
  /\ pass.pc = "status"
  /\ LET spec == pass.agent.spec IN
     Patches(pass.agent.gen,
             /\ api.deploy.up
             /\ MissingEnv(spec, pass.profile) = {}
             /\ seen.persona[spec.persona] # 0)
  /\ Outside

\* ImageNotFound: the rest of the status goes out as it was read.
PutUnready ==
  /\ pass.pc = "unready"
  /\ Patches(pass.agent.seenGen, FALSE)
  /\ Outside

\* Any call of Reconcile fails: the request is queued again.  A write may have been
\* made.
PassFails ==
  /\ pass.pc # "idle"
  /\ Upset
  /\ pass' = AtRest /\ waiting' = TRUE
  /\ UNCHANGED <<api, lag>> /\ Outside

\* RequeueAfter.
Requeue ==
  /\ pass.pc = "idle" /\ ~ waiting
  /\ waiting' = TRUE
  /\ UNCHANGED <<api, lag, pass, upsets>> /\ Outside

(***************************************************************************)
(* The Deployment: a new pod comes up if all it must have exists, and only *)
(* then takes the old one's place.  It reads everything when it starts.    *)
(***************************************************************************)
\* The variables a pod takes from the env Secret, each by its name.
Named(template) == template.env \union template.sidecar

Startable(template) ==
  /\ template # NoTemplate
  /\ Named(template) \subseteq DOMAIN api.env
  /\ template.key => api.key # 0
  /\ api.persona[template.mounts.persona] # 0

Loaded(template) ==
  [template |-> template, key |-> api.key, models |-> api.models,
   env |-> [n \in Named(template) |-> api.env[n]],
   persona |-> api.persona[template.mounts.persona], skills |-> api.skills]

Readiness(ready) ==
  /\ api' = [api EXCEPT !.deploy.up = ready]
  /\ lag' = IF api' = api THEN lag ELSE lag \union {"deploy"}
  /\ UNCHANGED <<seen, waiting, pass, registry>>

RollOut ==
  /\ Startable(api.deploy.template)
  /\ podNow.template # api.deploy.template
  /\ podNow' = Loaded(api.deploy.template)
  /\ Readiness(TRUE)
  /\ UNCHANGED upsets

PodDies ==
  /\ podNow # NoPod
  /\ Upset
  /\ podNow' = NoPod
  /\ Readiness(FALSE)

RolloutNext ==
  \/ \E spec \in Specs : EditAgent(spec)
  \/ \E p \in Profiles : EditProfile(p)
  \/ \E n \in PersonaNames : RenderPersona(n)
  \/ RotateKey \/ RenderSkills \/ PushImage
  \/ \E kind \in Kinds : Deliver(kind)
  \/ StartPass \/ PutModels \/ PutEnv \/ PutDeployment \/ PutStatus \/ PutUnready
  \/ PassFails \/ Requeue
  \/ RollOut \/ PodDies

\* Events arrive, queued passes run and end, requeues come, the Deployment works.
AnyDelivered == \E kind \in Kinds : Deliver(kind)
PassGoesOn ==
  \/ StartPass \/ PutModels \/ PutEnv \/ PutDeployment \/ PutStatus \/ PutUnready
  \/ Requeue

RolloutFairness ==
  WF_rolloutVars(AnyDelivered) /\ WF_rolloutVars(PassGoesOn) /\ WF_rolloutVars(RollOut)

RolloutSpec == RolloutInit /\ [][RolloutNext]_rolloutVars /\ RolloutFairness

(***************************************************************************)
(* Properties.                                                             *)
(***************************************************************************)
Wanted == api.profile[api.agent.spec.profile]
\* What the operator owes for the objects as they are, the digest aside, and the
\* key aside while its Secret has only the default name.
Digestless(template, spec) ==
  [template EXCEPT !.hash.digest = 0, !.hash.key = IF spec.key THEN @ ELSE 0]
Owed(spec) == Digestless(Template(spec, Wanted, Hashes(spec, Wanted, api, 0)), spec)

\* With an empty work queue, no pass under way and every event delivered, the
\* Deployment, the env Secret and models.json are what the Agent and all it
\* refers to ask for now: no change of an input is one whose event nobody maps
\* to the agent, and no write refused or failed on the way is left at that.
IdleMeansCurrent ==
  (~ waiting /\ pass = AtRest /\ lag = {} /\ Wanted # NoProfile) =>
     LET spec == api.agent.spec IN
     /\ api.models = ModelsFile(spec)
     /\ api.env = EnvSecret(spec, Wanted)
     /\ Digestless(api.deploy.template, spec) = Owed(spec)
     /\ api.agent.seenGen = api.agent.gen

\* What a pod of the current inputs would have loaded.
UpToDate ==
  LET spec == api.agent.spec IN
  /\ podNow # NoPod
  /\ podNow.template.url = Wanted.url /\ podNow.template.model = spec.model
  /\ podNow.template.hash.digest = registry
  /\ podNow.template.tokens = Tokens(spec, Wanted)
  /\ podNow.env = [n \in ContainerEnv(spec, Wanted) \union SidecarEnv(Wanted) |->
                     EnvSecret(spec, Wanted)[n]]
  /\ podNow.key = api.key
  /\ podNow.persona = api.persona[spec.persona]
  /\ HasSkills(spec, Wanted) => podNow.skills = api.skills

Possible ==
  LET spec == api.agent.spec IN
  /\ Wanted # NoProfile
  /\ Wanted.sidecar \subseteq Defined(EffectiveEnv(spec, Wanted))
  /\ spec.key => api.key # 0
  /\ api.persona[spec.persona] # 0

\* Once the inputs rest, a pod runs with all of them: the new image behind an old
\* tag, a rotated key, an edited persona or skill, a variable that came or went,
\* unless something it must have is missing; and the Agent says Ready, unless an MCP
\* server's token is to come from a variable nobody defines.
RunsAsAsked ==
  Possible => /\ UpToDate
              /\ api.agent.ready <=> MissingEnv(api.agent.spec, Wanted) = {}
CatchesUp == <>[]RunsAsAsked

\* A digest that could not be resolved restarts nothing ("could not resolve image
\* digest; skipping restart annotation").
RestartsAreMeant ==
  [][LET was == api.deploy.template
         is  == api'.deploy.template IN
     (was # NoTemplate /\ is # was) =>
        \/ [was EXCEPT !.hash.digest = 0] # [is EXCEPT !.hash.digest = 0]
        \/ Unresolved \notin {was.hash.digest, is.hash.digest}]_rolloutVars
===============================================================================
