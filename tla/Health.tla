-------------------------------- MODULE Health --------------------------------
(***************************************************************************)
(* The readiness check of health.controller.ts: every GET /health/ready    *)
(* asks the database, Redis and the HCM at once and reports when it has    *)
(* the three answers.  All calls share one Redis client, which connects    *)
(* when it is first needed, refuses to connect while it is connecting      *)
(* and, having no offline queue, refuses commands until it is connected.   *)
(*                                                                         *)
(* The HCM is HcmStore: the probe asks it for a balance that nobody has,   *)
(* so that 404 is what a healthy HCM answers.                              *)
(***************************************************************************)
EXTENDS HcmStore

CONSTANT Probes  \* bound: readiness calls under way at a time

VARIABLES
  client,   \* the status of the shared Redis client
  reach,    \* whether Redis can be reached
  db, redis, hcm,  \* of each readiness call: what its three checks have come to
  steady,   \* history: Redis could be reached all the time since the call
  crossed   \* history: another call's connect was under way when this one came

checkVars == <<db, redis, hcm>>
healthVars == <<client, reach, checkVars, steady, crossed>>

Results == {"up", "down"}

HealthInit ==
  /\ client = "wait"
  /\ reach = TRUE
  /\ db = [p \in Probes |-> "idle"]
  /\ redis = [p \in Probes |-> "idle"]
  /\ hcm = [p \in Probes |-> "idle"]
  /\ steady = [p \in Probes |-> TRUE]
  /\ crossed = [p \in Probes |-> FALSE]

Active(p) == db[p] # "idle"

\* Mutant: the ping does not wait for the connection.
readinessHasty(p) ==
  /\ ~Active(p)
  /\ db' = [db EXCEPT ![p] = "asked"]
  /\ hcm' = [hcm EXCEPT ![p] = "asked"]
  /\ redis' = [redis EXCEPT ![p] = "ping"]
  /\ client' = IF client \in {"wait", "reconnecting"} THEN "connecting" ELSE client
  /\ steady' = [steady EXCEPT ![p] = reach]
  /\ crossed' = [crossed EXCEPT ![p] = client = "connecting"]
  /\ UNCHANGED <<reach, storeVars>>

\* The three checks start together; connect() is refused while the client is connecting and
\* the refusal is ignored.
readiness(p) ==
  LET connects == client \in {"wait", "reconnecting"}
  IN /\ ~Active(p)
     /\ db' = [db EXCEPT ![p] = "asked"]
     /\ hcm' = [hcm EXCEPT ![p] = "asked"]
     /\ redis' = [redis EXCEPT ![p] = IF connects THEN "connect" ELSE "ping"]
     /\ client' = IF connects THEN "connecting" ELSE client
     /\ steady' = [steady EXCEPT ![p] = reach]
     /\ crossed' = [crossed EXCEPT ![p] = client = "connecting"]
     /\ UNCHANGED <<reach, storeVars>>

\* Mutant: an error of the client is not caught.
pingUncaught(p) ==
  /\ redis[p] = "ping"
  /\ redis' = [redis EXCEPT ![p] = IF client = "ready" THEN "pinging" ELSE "threw"]
  /\ UNCHANGED <<client, reach, db, hcm, steady, crossed, storeVars>>

ping(p) ==
  /\ redis[p] = "ping"
  /\ redis' = [redis EXCEPT ![p] = IF client = "ready" THEN "pinging" ELSE "down"]
  /\ UNCHANGED <<client, reach, db, hcm, steady, crossed, storeVars>>

pong(p) ==
  /\ redis[p] = "pinging"
  /\ redis' = [redis EXCEPT ![p] = IF client = "ready" /\ reach THEN "up" ELSE "down"]
  /\ UNCHANGED <<client, reach, db, hcm, steady, crossed, storeVars>>

\* Mutant: only the ping is raced with the timer.
timeoutOfPing(p) ==
  /\ redis[p] = "pinging"
  /\ redis' = [redis EXCEPT ![p] = "late"]
  /\ UNCHANGED <<client, reach, db, hcm, steady, crossed, storeVars>>

\* The probe of Redis is raced with a timer of two seconds.
timeout(p) ==
  /\ redis[p] \in {"connect", "ping", "pinging"}
  /\ redis' = [redis EXCEPT ![p] = "late"]
  /\ UNCHANGED <<client, reach, db, hcm, steady, crossed, storeVars>>

checkDb(p) ==
  /\ db[p] = "asked"
  /\ \E result \in Results : db' = [db EXCEPT ![p] = result]
  /\ UNCHANGED <<client, reach, redis, hcm, steady, crossed, storeVars>>

\* Anything but a 5xx is up.  The call is aborted after two seconds, whether the HCM has
\* served it or not; served, it uses up a failure injected for somebody else's call.
checkHcm(p) ==
  /\ hcm[p] = "asked"
  /\ \/ /\ failures' = popFailure(failures, "getBalance")
        /\ \E result \in {"down", IF Struck(failures, "getBalance") = "unavailable"
                                    THEN "down" ELSE "up"} : hcm' = [hcm EXCEPT ![p] = result]
     \/ UNCHANGED failures /\ hcm' = [hcm EXCEPT ![p] = "down"]
  /\ UNCHANGED <<client, reach, db, redis, steady, crossed, hcmVars>>

\* The report is sent: 200 if all three are up, else 503.
report(p) ==
  /\ db[p] \in Results /\ redis[p] \in Results \cup {"late"} /\ hcm[p] \in Results
  /\ db' = [db EXCEPT ![p] = "idle"]
  /\ redis' = [redis EXCEPT ![p] = "idle"]
  /\ hcm' = [hcm EXCEPT ![p] = "idle"]
  /\ steady' = [steady EXCEPT ![p] = TRUE]
  /\ crossed' = [crossed EXCEPT ![p] = FALSE]
  /\ UNCHANGED <<client, reach, storeVars>>

(***************************************************************************)
(* The client and Redis                                                    *)
(***************************************************************************)
RedisFrame == UNCHANGED <<db, hcm, crossed, storeVars>>

\* The connect() that a call waits for settles with the connection, well or badly.
Settled == [p \in Probes |-> IF redis[p] = "connect" THEN "ping" ELSE redis[p]]

clientConnects ==
  /\ client = "connecting" /\ reach
  /\ client' = "ready"
  /\ redis' = Settled
  /\ UNCHANGED <<reach, steady>> /\ RedisFrame

\* A connection that fails or breaks is tried again by the client itself.
clientLoses ==
  /\ client \in {"connecting", "ready"} /\ ~reach
  /\ client' = "reconnecting"
  /\ redis' = Settled
  /\ UNCHANGED <<reach, steady>> /\ RedisFrame

clientRetries ==
  /\ client = "reconnecting"
  /\ client' = "connecting"
  /\ UNCHANGED <<reach, redis, steady>> /\ RedisFrame

redisComesOrGoes ==
  /\ reach' = ~reach
  /\ steady' = [p \in Probes |-> IF Active(p) THEN FALSE ELSE steady[p]]
  /\ UNCHANGED <<client, redis>> /\ RedisFrame

ProbeStep(p) ==
  \/ readiness(p) \/ ping(p) \/ pong(p) \/ timeout(p)
  \/ checkDb(p) \/ checkHcm(p) \/ report(p)

ClientStep == clientConnects \/ clientLoses \/ clientRetries \/ redisComesOrGoes
=============================================================================
