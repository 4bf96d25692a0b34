--------------------------- MODULE CertGenProofs ---------------------------
(***************************************************************************)
(* Proofs about CertGen, for any number of runs, overlapping or not, and   *)
(* any number of faults: types, and that the Secret and the webhook        *)
(* configuration agree once a run has succeeded alone.                     *)
(***************************************************************************)
EXTENDS CertGen, TLAPS

(* The initial states satisfy the inductive invariant.                     *)
LEMMA InitInv == Init => Inv
  <1> SUFFICES ASSUME Init PROVE Inv
    OBVIOUS
  <1>1. TypeOK
    BY BoundsAssumption, NamesAssumption DEF Init, TypeOK, Steps
  <1>2. AloneWhileActive /\ SecretTakenOver /\ SuccessAgrees
    BY NamesAssumption DEF Init, AloneWhileActive, SecretTakenOver, SuccessAgrees, Active, Steps
  <1> QED
    BY <1>1, <1>2 DEF Inv

(* Every step keeps the types.                                             *)
LEMMA NextTypeOK == TypeOK /\ [Next]_vars => TypeOK'
  <1> SUFFICES ASSUME TypeOK, [Next]_vars PROVE TypeOK'
    OBVIOUS
  <1> USE BoundsAssumption, NamesAssumption DEF TypeOK, Steps
  <1>1. ASSUME NEW r \in Runs, Start(r) PROVE TypeOK'
    BY <1>1 DEF Start, Active
  <1>2. ASSUME NEW r \in Runs, Run(r) PROVE TypeOK'
    <2>1. CASE GetSecret(r)
      BY <2>1 DEF GetSecret, idleVars
    <2>2. CASE PutSecret(r)
      BY <2>2 DEF PutSecret, idleVars
    <2>3. CASE PutSecretFails(r)
      BY <2>3 DEF PutSecretFails, idleVars
    <2>4. CASE GetHook(r)
      BY <2>4 DEF GetHook, idleVars
    <2>5. CASE PutHook(r)
      BY <2>5 DEF PutHook, idleVars
    <2>6. CASE PutHookFails(r)
      BY <2>6 DEF PutHookFails, idleVars
    <2> QED
      BY <1>2, <2>1, <2>2, <2>3, <2>4, <2>5, <2>6 DEF Run
  <1>3. ASSUME NEW r \in Runs, RunFails(r) PROVE TypeOK'
    BY <1>3 DEF RunFails, Fault, idleVars
  <1>4. CASE KubeletSync
    BY <1>4 DEF KubeletSync, runVars
  <1>5. CASE Manager
    BY <1>5 DEF Manager, StartManager, Reload, runVars
  <1>6. CASE StopManager
    BY <1>6 DEF StopManager, Fault, runVars
  <1>7. CASE UNCHANGED vars
    BY <1>7 DEF vars
  <1> QED
    BY <1>1, <1>2, <1>3, <1>4, <1>5, <1>6, <1>7 DEF Next

(* A run that ends, or goes on without a write, keeps the rest: the runs   *)
(* in progress can only become fewer.                                      *)
LEMMA QuietInv ==
  ASSUME Inv, TypeOK', NEW r \in Runs, pc[r] \in Steps,
         NEW p \in Steps \union {"failed"}, pc' = [pc EXCEPT ![r] = p],
         p \in {"getHook", "putHook"} => pc[r] \in {"getHook", "putHook"},
         UNCHANGED <<secret, bundle, overlapped>>
  PROVE  Inv'
  <1> USE DEF Inv
  <1>1. Active' \subseteq Active /\ (p \in Steps => Active' = Active)
    BY DEF TypeOK, Active, Steps
  <1>2. AloneWhileActive'
    BY <1>1 DEF AloneWhileActive
  <1>3. SecretTakenOver'
    BY DEF SecretTakenOver, TypeOK, Steps
  <1>4. SuccessAgrees'
    BY DEF SuccessAgrees, TypeOK, Steps
  <1> QED
    BY <1>2, <1>3, <1>4

(* Every step keeps the inductive invariant.                               *)
LEMMA NextInv == Inv /\ [Next]_vars => Inv'
  <1> SUFFICES ASSUME Inv, [Next]_vars PROVE Inv'
    OBVIOUS
  <1> USE NamesAssumption DEF Inv
  <1>0. TypeOK'
    BY NextTypeOK
  <1>1. ASSUME NEW r \in Runs, Start(r) PROVE Inv'
    <2>1. Active' = Active \union {r}
      BY <1>1 DEF Start, Active, TypeOK, Steps
    <2>2. AloneWhileActive'
      BY <1>1, <2>1 DEF Start, AloneWhileActive
    <2>3. SecretTakenOver'
      BY <1>1 DEF Start, SecretTakenOver, TypeOK
    <2>4. SuccessAgrees'
      BY <1>1 DEF Start, SuccessAgrees, TypeOK
    <2> QED
      BY <1>0, <2>2, <2>3, <2>4
  <1>2. ASSUME NEW r \in Runs, GetSecret(r) PROVE Inv'
    BY <1>0, <1>2, QuietInv DEF GetSecret, idleVars, Steps
  <1>3. ASSUME NEW r \in Runs, PutSecret(r) PROVE Inv'
    <2>1. Active' = Active /\ r \in Active
      BY <1>3 DEF PutSecret, Active, TypeOK, Steps
    <2>2. AloneWhileActive'
      BY <1>3, <2>1 DEF PutSecret, AloneWhileActive, idleVars
    <2>3. \A q \in Active : q # r => r \in overlapped
      BY <2>1 DEF AloneWhileActive
    <2>4. SecretTakenOver'
      BY <1>3, <2>3 DEF PutSecret, SecretTakenOver, TypeOK, Active, Steps, idleVars
    <2>5. SuccessAgrees'
      BY <1>3 DEF PutSecret, SuccessAgrees, TypeOK
    <2> QED
      BY <1>0, <2>2, <2>4, <2>5
  <1>4. ASSUME NEW r \in Runs, PutSecretFails(r) PROVE Inv'
    BY <1>0, <1>4, QuietInv DEF PutSecretFails, idleVars, Steps
  <1>5. ASSUME NEW r \in Runs, GetHook(r) PROVE Inv'
    BY <1>0, <1>5, QuietInv DEF GetHook, idleVars, Steps
  <1>6. ASSUME NEW r \in Runs, PutHook(r) PROVE Inv'
    <2>1. Active' = Active \ {r} /\ r \in Active
      BY <1>6 DEF PutHook, Active, TypeOK, Steps
    <2>2. AloneWhileActive'
      BY <1>6, <2>1 DEF PutHook, AloneWhileActive, idleVars
    <2>3. SecretTakenOver'
      BY <1>6 DEF PutHook, SecretTakenOver, TypeOK, idleVars
    <2>4. SuccessAgrees'
      BY <1>6 DEF PutHook, SuccessAgrees, SecretTakenOver, TypeOK, idleVars
    <2> QED
      BY <1>0, <2>2, <2>3, <2>4
  <1>7. ASSUME NEW r \in Runs, PutHookFails(r) PROVE Inv'
    BY <1>0, <1>7, QuietInv DEF PutHookFails, idleVars, Steps
  <1>8. ASSUME NEW r \in Runs, RunFails(r) PROVE Inv'
    BY <1>0, <1>8, QuietInv DEF RunFails, Active, idleVars, Steps
  <1>9. CASE KubeletSync \/ Manager \/ StopManager \/ UNCHANGED vars
    <2>1. UNCHANGED runVars
      BY <1>9 DEF KubeletSync, Manager, StartManager, Reload, StopManager, vars, runVars
    <2> QED
      BY <1>0, <2>1 DEF runVars, AloneWhileActive, SecretTakenOver, SuccessAgrees, Active
  <1> QED
    BY <1>1, <1>2, <1>3, <1>4, <1>5, <1>6, <1>7, <1>8, <1>9 DEF Next, Run

(* The variables keep their types; the manager never serves an empty Secret *)
(* (cmd/main.go: it exits without a certificate it can load).               *)
THEOREM TypeCorrect == Spec => []TypeOK
  BY InitInv, NextTypeOK, PTL DEF Spec, Inv

(* For any number of runs at the same time: if the Secret is that of a run  *)
(* that succeeded (runCertGenMode returned nil) and met no other run, the   *)
(* webhook configuration holds the CA of the same run.                      *)
THEOREM SuccessfulRunsAgree == Spec => []SuccessAgrees
  BY InitInv, NextInv, PTL DEF Spec, Inv
=============================================================================
