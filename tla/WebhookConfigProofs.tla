------------------------- MODULE WebhookConfigProofs -------------------------
(***************************************************************************)
(* Theorems about the webhook's reconciler of its own configuration, for   *)
(* any number of pods, services, manifests, rotations, edits and failures. *)
(***************************************************************************)
EXTENDS WebhookConfig, TLAPS

\* A copy that carries the stored resourceVersion is the stored object.
FreshIsCurrent == \A p \in fresh : configCache[p] = config

\* A leader with nothing queued, nothing to send and no event on its way
\* found its copy to be as wanted.
RestIsRight ==
    \A p \in Pods :
        leads[p] /\ ~queue[p] /\ desired[p] = Absent /\ p \in fresh =>
            ~Unusable(p) /\ Wanted(configCache[p], secretCache[p]) = configCache[p]

\* A prepared write that will not be refused leaves others' fields alone.
BasedKeepsFields ==
    \A p \in based :
        desired[p] # Absent =>
            desired[p].service = config.service /\ desired[p].exists = config.exists

ConfigInv == TypeOK /\ FreshIsCurrent /\ RestIsRight /\ BasedKeepsFields

-----------------------------------------------------------------------------
(* Types.                                                                  *)

\* reconcileValidatingWebhook yields a configuration, and leaves existence and
\* the service reference alone.
LEMMA WantedType ==
    ASSUME NEW c \in Config, NEW cert \in 0 .. MaxRotations
    PROVE  /\ Wanted(c, cert) \in Config
           /\ Wanted(c, cert).service = c.service
           /\ Wanted(c, cert).exists = c.exists
  BY DEF Wanted, Config

\* The absent configuration is one.
LEMMA AbsentType == Absent \in Config
  BY ConfigBounds DEF Absent, Config

\* Every step keeps the types.
LEMMA TypeStep ==
    ASSUME TypeOK, Next
    PROVE  TypeOK'
<1> USE ConfigBounds, ManifestsType, AbsentType
<1>1. CASE \E p \in Pods : Reconcile(p)
  <2> PICK p \in Pods : Reconcile(p)  BY <1>1
  <2>1. Wanted(configCache[p], secretCache[p]) \in Config  BY WantedType DEF TypeOK
  <2> QED  BY <2>1 DEF TypeOK, Reconcile, cluster, caches, writes
<1>2. CASE \E p \in Pods : Update(p)
  <2> PICK p \in Pods : Update(p)  BY <1>2
  <2>1. UNCHANGED <<ca, secretCache, configCache, leads, edits>>  BY DEF Update
  <2>2. desired' \in [Pods -> Config]  BY DEF Update, TypeOK
  <2>3. config' \in Config /\ fresh' \subseteq Pods /\ based' \subseteq Pods
    BY DEF Update, ConfigWritten, TypeOK
  <2>4. queue' \in [Pods -> BOOLEAN]  BY DEF Update, TypeOK
  <2>5. faults' \in 0 .. MaxFaults  BY DEF Update, Fault, TypeOK
  <2> QED  BY <2>1, <2>2, <2>3, <2>4, <2>5 DEF TypeOK
<1>3. CASE \E p \in Pods : SyncSecret(p)
  BY <1>3 DEF TypeOK, SyncSecret, cluster, writes
<1>8. CASE \E p \in Pods : SyncConfig(p)
  <2> PICK p \in Pods : SyncConfig(p)  BY <1>8
  <2>1. UNCHANGED <<ca, config, secretCache, leads, desired, based, edits, faults>>
    BY DEF SyncConfig, cluster, writes
  <2>2. configCache' \in [Pods -> Config] /\ fresh' \subseteq Pods  BY DEF SyncConfig, TypeOK
  <2>3. queue' \in [Pods -> BOOLEAN]  BY DEF SyncConfig, TypeOK
  <2> QED  BY <2>1, <2>2, <2>3 DEF TypeOK
<1>4. CASE \E p \in Pods : Promote(p)
  BY <1>4 DEF TypeOK, Promote, cluster, caches, writes
<1>9. CASE \E p \in Pods : Demote(p)
  <2> PICK p \in Pods : Demote(p)  BY <1>9
  <2>1. UNCHANGED <<cluster, caches, queue, writes, edits>>  BY DEF Demote
  <2>2. leads' \in [Pods -> BOOLEAN]  BY DEF Demote, TypeOK
  <2>3. faults' \in 0 .. MaxFaults  BY DEF Demote, Fault, TypeOK
  <2> QED  BY <2>1, <2>2, <2>3 DEF TypeOK, cluster, caches, writes
<1>5. CASE \E p \in Pods : Restart(p)
  BY <1>5 DEF TypeOK, Restart, Fault, cluster
<1>6. CASE Rotate
  BY <1>6 DEF TypeOK, Rotate, caches, writes
<1>7. CASE Edit
  BY <1>7 DEF TypeOK, Edit, ConfigWritten
<1> QED  BY <1>1, <1>2, <1>3, <1>4, <1>5, <1>6, <1>7, <1>8, <1>9 DEF Next

-----------------------------------------------------------------------------
(* The inductive invariant.                                                *)

\* It holds at the start.
LEMMA ConfigInvInit ==
    ASSUME Init
    PROVE  ConfigInv
<1> USE ConfigBounds, ManifestsType, AbsentType
<1>1. TypeOK  BY DEF Init, TypeOK
<1>2. FreshIsCurrent /\ RestIsRight /\ BasedKeepsFields
  BY DEF Init, FreshIsCurrent, RestIsRight, BasedKeepsFields
<1> QED  BY <1>1, <1>2 DEF ConfigInv

\* Every step keeps it.
LEMMA ConfigInvStep ==
    ASSUME ConfigInv, Next
    PROVE  ConfigInv'
<1> USE DEF ConfigInv
<1>0. TypeOK'  BY TypeStep
<1>1. CASE \E p \in Pods : Reconcile(p)
  <2> PICK p \in Pods : Reconcile(p)  BY <1>1
  <2> DEFINE wanted == Wanted(configCache[p], secretCache[p])
  <2>1. /\ wanted.service = configCache[p].service
        /\ wanted.exists = configCache[p].exists
    BY WantedType DEF TypeOK
  <2>2. UNCHANGED <<config, secretCache, configCache, fresh, leads>>
    BY DEF Reconcile, cluster, caches
  <2>3. FreshIsCurrent'  BY <2>2 DEF FreshIsCurrent
  <2>4. RestIsRight'
    <3> SUFFICES ASSUME NEW q \in Pods, (leads[q] /\ ~queue[q] /\ desired[q] = Absent /\ q \in fresh)'
                 PROVE  /\ ~Unusable(q)
                        /\ Wanted(configCache[q], secretCache[q]) = configCache[q]
      BY <2>2 DEF RestIsRight, Unusable
    <3>1. CASE q # p
      BY <3>1, <2>2 DEF Reconcile, writes, RestIsRight, TypeOK
    <3>2. CASE q = p
      <4>1. ~Unusable(p) => wanted # Absent  BY <2>1 DEF Unusable, Absent
      <4>2. ~(queue[p] /\ UNCHANGED queue)  BY <3>2
      <4>3. leads[p]  BY <3>2, <2>2
      <4>4. CASE desired' = [desired EXCEPT ![p] = wanted] /\ ~Unusable(p)
        BY <4>1, <4>4, <3>2 DEF TypeOK
      <4> QED  BY <3>2, <4>2, <4>3, <4>4 DEF Reconcile, writes
    <3> QED  BY <3>1, <3>2
  <2>5. BasedKeepsFields'
    BY <2>1, <2>2 DEF Reconcile, writes, BasedKeepsFields, FreshIsCurrent, TypeOK
  <2> QED  BY <1>0, <2>3, <2>4, <2>5
<1>2. CASE \E p \in Pods : Update(p)
  <2> PICK p \in Pods : Update(p)  BY <1>2
  <2>1. CASE ConfigWritten(desired[p])
    BY <1>0, <2>1 DEF ConfigWritten, FreshIsCurrent, RestIsRight, BasedKeepsFields
  <2>2. CASE queue' = [queue EXCEPT ![p] = TRUE] /\ UNCHANGED <<config, fresh, based>>
    BY <1>0, <2>2 DEF Update, TypeOK, FreshIsCurrent, RestIsRight, BasedKeepsFields, Unusable
  <2> QED  BY <2>1, <2>2 DEF Update
<1>3. CASE \E p \in Pods : SyncSecret(p) \/ SyncConfig(p)
  BY <1>0, <1>3 DEF SyncSecret, SyncConfig, cluster, writes, TypeOK,
                    FreshIsCurrent, RestIsRight, BasedKeepsFields, Unusable
<1>4. CASE \E p \in Pods : Promote(p) \/ Demote(p)
  BY <1>0, <1>4 DEF Promote, Demote, cluster, caches, writes, TypeOK,
                    FreshIsCurrent, RestIsRight, BasedKeepsFields, Unusable
<1>5. CASE \E p \in Pods : Restart(p)
  BY <1>0, <1>5 DEF Restart, cluster, TypeOK,
                    FreshIsCurrent, RestIsRight, BasedKeepsFields, Unusable
<1>6. CASE Rotate
  BY <1>0, <1>6 DEF Rotate, caches, writes, FreshIsCurrent, RestIsRight, BasedKeepsFields, Unusable
<1>7. CASE Edit
  BY <1>0, <1>7 DEF Edit, ConfigWritten, FreshIsCurrent, RestIsRight, BasedKeepsFields
<1> QED  BY <1>1, <1>2, <1>3, <1>4, <1>5, <1>6, <1>7 DEF Next

\* So does a step that changes nothing.
LEMMA ConfigInvStutter ==
    ASSUME ConfigInv, UNCHANGED vars
    PROVE  ConfigInv'
  BY DEF ConfigInv, vars, cluster, caches, writes, TypeOK,
         FreshIsCurrent, RestIsRight, BasedKeepsFields, Unusable

\* The invariant of the reconciler of the webhook's configuration.
THEOREM ConfigInvariant == Spec => []ConfigInv
<1>1. Init => ConfigInv  BY ConfigInvInit
<1>2. ConfigInv /\ [Next]_vars => ConfigInv'  BY ConfigInvStep, ConfigInvStutter
<1> QED  BY <1>1, <1>2, PTL DEF Spec

-----------------------------------------------------------------------------
(* What follows.                                                           *)

\* Whenever a leading pod is at rest, requests for ApprovalTasks reach the
\* webhook under its present certificate.
THEOREM RestImpliesProtection == Spec => []RestIsProtected
<1>1. ConfigInv => RestIsProtected
  <2> SUFFICES ASSUME ConfigInv, NEW p \in Pods, AtRest(p), Restorable
               PROVE  Protected
    BY DEF RestIsProtected
  <2>1. configCache[p] = config /\ secretCache[p] = ca
    BY DEF AtRest, ConfigInv, FreshIsCurrent
  <2>2. ~Unusable(p) /\ Wanted(config, ca) = config
    BY <2>1 DEF AtRest, ConfigInv, RestIsRight
  <2>3. config \in Config /\ ca \in 0 .. MaxRotations
    BY DEF ConfigInv, TypeOK
  <2>4. ca # 0  BY <2>1, <2>2 DEF Unusable
  <2>5. config.rules /\ config.path /\ config.bundle = ca
    BY <2>2, <2>3 DEF Wanted, Restorable, Config
  <2> QED  BY <2>4, <2>5 DEF Protected
<1> QED  BY <1>1, ConfigInvariant, PTL

\* The reconciler writes over nobody's service reference and brings back no
\* configuration that was removed.
THEOREM OthersFieldsSurvive == Spec => OthersFieldsStay
<1> DEFINE Kept ==
        \A p \in Pods : desired[p] # desired'[p] /\ config' # config =>
            config'.service = config.service /\ config'.exists = config.exists
<1>1. ConfigInv /\ Next => Kept
  <2> SUFFICES ASSUME ConfigInv, Next, NEW p \in Pods, desired[p] # desired'[p], config' # config
               PROVE  config'.service = config.service /\ config'.exists = config.exists
    OBVIOUS
  <2>1. ~Edit  BY DEF Edit, ConfigWritten
  <2>2. PICK q \in Pods : Update(q)
    BY <2>1 DEF Next, Reconcile, SyncSecret, SyncConfig, Promote, Demote, Restart, Rotate, cluster
  <2>3. Current(q) /\ ConfigWritten(desired[q]) /\ desired[q] # Absent  BY <2>2 DEF Update
  <2> QED  BY <2>3 DEF Current, ConfigWritten, ConfigInv, BasedKeepsFields
<1>2. ConfigInv /\ [Next]_vars => [Kept]_vars  BY <1>1
<1> QED  BY <1>2, ConfigInvariant, PTL DEF Spec, OthersFieldsStay
=============================================================================
