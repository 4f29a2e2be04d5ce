---------------------------- MODULE WebhookConfig ----------------------------
(***************************************************************************)
(* How the webhook keeps its own ValidatingWebhookConfiguration right      *)
(* (pkg/reconciler/webhook, cmd/webhook): the API server consults the      *)
(* webhook only by the rules, the path and the CA bundle stored there, and *)
(* those are filled in by a reconciler of the webhook itself, from a       *)
(* secret whose certificates are generated and rotated beside it.          *)
(*                                                                         *)
(* Two pods may run, as they do while a deployment is rolled out.  Each    *)
(* has its informers' copies of the secret and the configuration, and a    *)
(* work queue that holds the one key; one pod at a time leads.             *)
(***************************************************************************)
EXTENDS Naturals, FiniteSets

CONSTANTS
    Pods,
    Services,       \* the service references an entry may carry
    NoService,      \* an entry without one
    Manifests,      \* the configurations somebody may apply
    MaxRotations,   \* bound: CA certificates issued
    MaxEdits,       \* bound: configurations applied or removed by others
    MaxFaults       \* bound: failed calls, restarts, changes of leader

\* entry: there is an entry under the configuration's own name; the other
\* fields are that entry's.  rules, path: they are what the webhook wants.
\* owned: owner references are set.
Config == [exists : BOOLEAN, owned : BOOLEAN, entry : BOOLEAN, rules : BOOLEAN, path : BOOLEAN,
           bundle : 0 .. MaxRotations, service : Services \cup {NoService}]
Absent == [exists |-> FALSE, owned |-> FALSE, entry |-> FALSE, rules |-> FALSE, path |-> FALSE,
           bundle |-> 0, service |-> NoService]

ASSUME ConfigBounds == MaxRotations \in Nat \ {0} /\ MaxEdits \in Nat /\ MaxFaults \in Nat
ASSUME NoServiceIsNone == NoService \notin Services
ASSUME ManifestsType == Manifests \subseteq {c \in Config : c.exists}

VARIABLES
    \* the secret's CA certificate, by number; 0: the secret has none
    ca,
    \* the configuration as stored
    config,
    \* the informers' copies, and the pods whose copy of the configuration
    \* carries the stored resourceVersion
    secretCache, configCache, fresh,
    \* the work queue holds the key; the pod leads
    queue, leads,
    \* the configuration a pod is about to send, or Absent, and the pods whose
    \* one is based on the stored resourceVersion
    desired, based,
    edits, faults

cluster == <<ca, config>>
caches  == <<secretCache, configCache, fresh>>
writes  == <<desired, based>>
vars    == <<cluster, caches, queue, leads, writes, edits, faults>>

Init ==
    /\ ca = 0 /\ config \in Manifests
    /\ secretCache = [p \in Pods |-> ca] /\ configCache = [p \in Pods |-> config] /\ fresh = Pods
    /\ queue = [p \in Pods |-> TRUE] /\ leads = [p \in Pods |-> FALSE]
    /\ desired = [p \in Pods |-> Absent] /\ based = {}
    /\ edits = 0 /\ faults = 0

Fault == faults < MaxFaults /\ faults' = faults + 1

-----------------------------------------------------------------------------
(* The reconciler.                                                         *)

\* reconcileValidatingWebhook: the copy with what the webhook wants filled in.
\* An entry under another name is left alone.
Wanted(c, cert) ==
    IF c.entry
    THEN [c EXCEPT !.owned = FALSE, !.rules = TRUE, !.path = TRUE, !.bundle = cert]
    ELSE [c EXCEPT !.owned = FALSE]

\* What makes Reconcile return an error: no certificate in the secret, no
\* configuration, or no service reference in the entry.
Unusable(p) ==
    \/ secretCache[p] = 0
    \/ ~configCache[p].exists
    \/ configCache[p].entry /\ configCache[p].service = NoService

\* Reconcile up to its API call.  Without the lead the key is dropped; after
\* an error it stays queued; a configuration that is as wanted ends it.
Reconcile(p) ==
    /\ queue[p] /\ desired[p] = Absent
    /\ LET wanted == Wanted(configCache[p], secretCache[p])
       IN  \/ /\ ~leads[p] \/ (~Unusable(p) /\ wanted = configCache[p])
              /\ queue' = [queue EXCEPT ![p] = FALSE]
              /\ UNCHANGED writes
           \/ /\ leads[p] /\ Unusable(p)
              /\ UNCHANGED <<queue, writes>>
           \/ /\ leads[p] /\ ~Unusable(p) /\ wanted # configCache[p]
              /\ queue' = [queue EXCEPT ![p] = FALSE]
              /\ desired' = [desired EXCEPT ![p] = wanted]
              /\ based' = IF p \in fresh THEN based \cup {p} ELSE based \ {p}
    /\ UNCHANGED <<cluster, caches, leads, edits, faults>>

\* The configuration is written: every copy of it is out of date.
ConfigWritten(c) == config' = c /\ fresh' = {} /\ based' = {}

\* Slip: the resourceVersion is not sent along.
Current_Unchecked(p) == TRUE

\* The write of p is based on the configuration as stored.
Current(p) == p \in based

\* Update: one write, refused if the configuration changed since the copy was
\* taken.  It may fail, and it may fail after it took effect.
Update(p) ==
    /\ desired[p] # Absent
    /\ desired' = [desired EXCEPT ![p] = Absent]
    /\ \/ /\ Current(p)
          /\ ConfigWritten(desired[p])
          /\ \/ UNCHANGED <<queue, faults>>
             \/ Fault /\ queue' = [queue EXCEPT ![p] = TRUE]
       \/ /\ (~Current(p) /\ UNCHANGED faults) \/ Fault
          /\ queue' = [queue EXCEPT ![p] = TRUE]
          /\ UNCHANGED <<config, fresh, based>>
    /\ UNCHANGED <<ca, secretCache, configCache, leads, edits>>

-----------------------------------------------------------------------------
(* Informers, leadership, restart.                                         *)

\* Slip: the secret is read but not watched.
SyncSecret_NotWatched(p) ==
    /\ secretCache[p] # ca
    /\ secretCache' = [secretCache EXCEPT ![p] = ca]
    /\ UNCHANGED <<cluster, configCache, fresh, queue, leads, writes, edits, faults>>

\* The secret's change reaches p and enqueues the key.
SyncSecret(p) ==
    /\ secretCache[p] # ca
    /\ secretCache' = [secretCache EXCEPT ![p] = ca]
    /\ queue' = [queue EXCEPT ![p] = TRUE]
    /\ UNCHANGED <<cluster, configCache, fresh, leads, writes, edits, faults>>

\* So does the configuration's, its removal included.
SyncConfig(p) ==
    /\ p \notin fresh
    /\ configCache' = [configCache EXCEPT ![p] = config] /\ fresh' = fresh \cup {p}
    /\ queue' = [queue EXCEPT ![p] = TRUE]
    /\ UNCHANGED <<cluster, secretCache, leads, writes, edits, faults>>

\* Slip: becoming the leader enqueues nothing.
Promote_NoEnqueue(p) ==
    /\ \A q \in Pods : ~leads[q]
    /\ leads' = [leads EXCEPT ![p] = TRUE]
    /\ UNCHANGED <<cluster, caches, queue, writes, edits, faults>>

\* p becomes the leader, and enqueues the key.
Promote(p) ==
    /\ \A q \in Pods : ~leads[q]
    /\ leads' = [leads EXCEPT ![p] = TRUE]
    /\ queue' = [queue EXCEPT ![p] = TRUE]
    /\ UNCHANGED <<cluster, caches, writes, edits, faults>>

\* p loses its lease; a write it has prepared is still sent.
Demote(p) ==
    /\ leads[p] /\ Fault
    /\ leads' = [leads EXCEPT ![p] = FALSE]
    /\ UNCHANGED <<cluster, caches, queue, writes, edits>>

\* p is restarted: its informers list everything again.
Restart(p) ==
    /\ Fault
    /\ leads' = [leads EXCEPT ![p] = FALSE]
    /\ secretCache' = [secretCache EXCEPT ![p] = ca]
    /\ configCache' = [configCache EXCEPT ![p] = config] /\ fresh' = fresh \cup {p}
    /\ queue' = [queue EXCEPT ![p] = TRUE]
    /\ desired' = [desired EXCEPT ![p] = Absent] /\ based' = based \ {p}
    /\ UNCHANGED <<cluster, edits>>

-----------------------------------------------------------------------------
(* Others.                                                                 *)

\* The certificates controller fills in or renews the secret.
Rotate ==
    /\ ca < MaxRotations
    /\ ca' = ca + 1
    /\ UNCHANGED <<config, caches, queue, leads, writes, edits, faults>>

\* Somebody applies a manifest, or removes the configuration.
Edit ==
    /\ edits < MaxEdits /\ edits' = edits + 1
    /\ \E c \in Manifests \cup {Absent} : ConfigWritten(c)
    /\ UNCHANGED <<ca, secretCache, configCache, queue, leads, desired, faults>>

Next ==
    \/ \E p \in Pods : \/ Reconcile(p) \/ Update(p)
                       \/ SyncSecret(p) \/ SyncConfig(p)
                       \/ Promote(p) \/ Demote(p) \/ Restart(p)
    \/ Rotate \/ Edit

Spec == Init /\ [][Next]_vars

\* The pods work, watches deliver, somebody is elected, and the secret gets
\* its first certificate.
Fairness ==
    /\ \A p \in Pods : /\ WF_vars(Reconcile(p)) /\ WF_vars(Update(p))
                       /\ WF_vars(SyncSecret(p)) /\ WF_vars(SyncConfig(p))
    /\ WF_vars(\E p \in Pods : Promote(p))
    /\ WF_vars(ca = 0 /\ Rotate)

FairSpec == Spec /\ Fairness

-----------------------------------------------------------------------------
(* Properties.                                                             *)

\* Every variable holds what its declaration says: ca a certificate's number,
\* config and the copies of it a configuration.
TypeOK ==
    /\ ca \in 0 .. MaxRotations /\ config \in Config
    /\ secretCache \in [Pods -> 0 .. MaxRotations] /\ configCache \in [Pods -> Config]
    /\ fresh \subseteq Pods /\ based \subseteq Pods
    /\ queue \in [Pods -> BOOLEAN] /\ leads \in [Pods -> BOOLEAN]
    /\ desired \in [Pods -> Config]
    /\ edits \in 0 .. MaxEdits /\ faults \in 0 .. MaxFaults

\* The API server consults the webhook, and trusts its present certificate.
Protected == config.rules /\ config.path /\ config.bundle = ca /\ ca # 0

\* The reconciler can do something for the configuration as it stands.
Restorable == config.exists /\ config.entry /\ config.service # NoService

\* The leader has nothing to do and nothing is on its way to it.
AtRest(p) ==
    leads[p] /\ ~queue[p] /\ desired[p] = Absent /\ p \in fresh /\ secretCache[p] = ca

\* A leader at rest has missed nothing: requests for ApprovalTasks reach the
\* webhook under its present certificate, whoever led before and whatever was
\* rotated, applied or refused in between.
RestIsProtected == \A p \in Pods : AtRest(p) /\ Restorable => Protected

\* What others put into the configuration stays: a write of the reconciler
\* neither moves the service reference nor brings back a removed
\* configuration, however old the copy it was prepared from.
OthersFieldsStay ==
    [][\A p \in Pods : desired[p] # desired'[p] /\ config' # config =>
            config'.service = config.service /\ config'.exists = config.exists]_vars

\* Once certificates and manifests stop changing, the configuration is put
\* right and stays so.
Converges == <>[](Restorable => Protected)
=============================================================================
