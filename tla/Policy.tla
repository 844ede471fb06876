------------------------------- MODULE Policy -------------------------------
(***************************************************************************)
(* The configuration of a controller and the decisions it takes from it:   *)
(* internal/config/config.go, the policy helpers of internal/lab/engine.go *)
(* and internal/session/session.go, the network part of                    *)
(* internal/docker/compose_generator.go.  A configuration is a record, a   *)
(* configuration file a record of the fields it sets, an environment a     *)
(* record of the variables that are set.                                   *)
(***************************************************************************)
EXTENDS Integers, FiniteSets

\* What no configuration may permit.
Forbidden == {"host mounts", "docker socket", "privileged", "host network"}

DefaultConfig ==
  [version         |-> 2,
   outbound        |-> TRUE,
   gateway         |-> TRUE,
   gatewayName     |-> "host.docker.internal",
   allowExport     |-> FALSE,
   commandPolicy   |-> "container-only",
   permitted       |-> {},
   defaultTimeout  |-> 30,
   maximumTimeout  |-> 120,
   defaultTTL      |-> 60,
   maximumTTL      |-> 240,
   outputBytes     |-> 1048576,
   readBytes       |-> 2097152,
   writeBytes      |-> 1048576,
   maximumSessions |-> 4]

\* Of the text of a boolean variable only "true" and "1" mean true; the value
\* of the numeric one is the set of the numbers its text denotes, one or none.
EnvironmentSays(env, field) ==
  field \in DOMAIN env /\ (field = "maximumSessions" => env[field] # {})

EnvironmentValue(env, field) ==
  IF field = "maximumSessions" THEN CHOOSE n \in env[field] : TRUE
                               ELSE env[field] \in {"true", "1"}

\* LoadConfig before it validates: defaults, then the file, then
\* applyEnvOverrides, which knows three of these fields.
Merged(file, env) ==
  [field \in DOMAIN DefaultConfig |->
     IF /\ field \in {"allowExport", "outbound", "maximumSessions"}
        /\ EnvironmentSays(env, field)
       THEN EnvironmentValue(env, field)
     ELSE IF field \in DOMAIN file THEN file[field]
     ELSE DefaultConfig[field]]

\* A fault: the default timeout is not compared with the maximum.
Valid_AnyTimeouts(c) ==
  /\ c.version = 2
  /\ c.commandPolicy = "container-only"
  /\ c.permitted \cap Forbidden = {}
  /\ c.defaultTimeout > 0
  /\ c.maximumSessions > 0

\* Validate: neither the byte limits nor the TTL limits are looked at.
Valid(c) ==
  /\ c.version = 2
  /\ c.commandPolicy = "container-only"
  /\ c.permitted \cap Forbidden = {}
  /\ c.defaultTimeout > 0 /\ c.maximumTimeout >= c.defaultTimeout
  /\ c.maximumSessions > 0

\* What LoadConfig returns to controllers that are started with one of these
\* pairs of a file and an environment.  A file of version 1, known by its
\* "lab_root" too, is refused.
Deployable(deployments) ==
  {c \in {Merged(d[1], d[2]) : d \in {e \in deployments : "lab_root" \notin DOMAIN e[1]}} :
     Valid(c)}

-----------------------------------------------------------------------------
(* Requests against the configuration.                                     *)

\* What a request may ask of a permission: nothing, that it be off, or on.
Wishes == {"default", "off", "on"}

Denied(wish, allowed) == wish = "on" /\ ~ allowed

\* The permission that a request which is not denied gets.
ResolveNetworkPolicy(wish, allowed) ==
  IF wish = "default" THEN allowed ELSE wish = "on" /\ allowed

ClampTimeout(c, seconds) ==
  IF seconds <= 0 THEN c.defaultTimeout
  ELSE IF seconds > c.maximumTimeout THEN c.maximumTimeout
  ELSE seconds

\* CreateSession.
ClampTTL(c, minutes) ==
  LET wanted == IF minutes <= 0 THEN c.defaultTTL ELSE minutes IN
  IF wanted > c.maximumTTL THEN c.maximumTTL ELSE wanted

\* The helper's own default, for when the configured maximum is not positive.
ReadSize(c, bytes) ==
  LET wanted == IF bytes <= 0 \/ bytes > c.readBytes THEN c.readBytes ELSE bytes IN
  IF wanted > 0 THEN wanted ELSE 2097152

\* A fault: a name that is not configured is none.
Grants_Named(c, outbound, gateway) ==
  [internal |-> ~ outbound,
   hosts    |-> IF gateway THEN {c.gatewayName} ELSE {}]

\* GenerateComposeYAML: an internal network unless outbound is granted, and
\* the gateway's name, as configured now, for the sandbox to resolve.
Grants(c, outbound, gateway) ==
  [internal |-> ~ outbound,
   hosts    |-> IF ~ gateway THEN {}
                ELSE IF c.gatewayName = "" THEN {"host.docker.internal"}
                ELSE {c.gatewayName}]
=============================================================================
