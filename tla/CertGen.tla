------------------------------ MODULE CertGen ------------------------------
(***************************************************************************)
(* The certificates of the webhook: the certificate generation mode of the *)
(* sidecar binary (runCertGenMode in cmd/sidecar/main.go and               *)
(* internal/certgen), which a Helm hook runs as a Job before every         *)
(* installation and upgrade, and the manager, which serves the webhook     *)
(* with the certificate of the mounted Secret (cmd/main.go).               *)
(*                                                                         *)
(* Run r generates a new CA and a server certificate signed by it, both    *)
(* called r here, writes the Secret, then the CA bundle of the webhook     *)
(* configuration.  The API server trusts the manager iff bundle = serving. *)
(***************************************************************************)
EXTENDS Integers, FiniteSets

CONSTANTS
    Absent,         \* the object does not exist
    Empty,          \* a Secret without data
    MaxRuns,        \* bound on the runs of certgen
    MaxActive,      \* how many of them may run at the same time
    MaxFaults       \* bound on errors, crashes and restarts

ASSUME BoundsAssumption == MaxRuns \in Nat /\ MaxActive \in Nat \ {0} /\ MaxFaults \in Nat

Runs == 1..MaxRuns

ASSUME NamesAssumption == Absent \notin Runs /\ Empty \notin Runs /\ Absent # Empty

VARIABLES
    secret,     \* whose certificates the Secret holds; it is also its version
    bundle,     \* whose CA the webhook configuration holds; likewise
    pc,         \* [Runs -> where the run is]
    read,       \* [Runs -> the version it has read for the next update]
    mounted,    \* the Secret as the kubelet last projected it
    serving,    \* the certificate the manager serves; Absent: it is down
    overlapped, \* history: the runs that were not alone all the time
    faults      \* counter for the bound

runVars == <<secret, bundle, pc, read, overlapped>>
idleVars == <<mounted, serving, overlapped>>     \* what the steps of a run leave alone
vars == <<secret, bundle, pc, read, mounted, serving, overlapped, faults>>

Steps == {"getSecret", "putSecret", "getHook", "putHook"}
Active == {r \in Runs : pc[r] \in Steps}

Init ==
    /\ secret \in {Absent, Empty} /\ bundle = Absent
    /\ pc = [r \in Runs |-> "waiting"] /\ read = [r \in Runs |-> Absent]
    /\ mounted = Absent /\ serving = Absent
    /\ overlapped = {} /\ faults = 0

Fault == faults < MaxFaults /\ faults' = faults + 1

----------------------------------------------------------------------------
(* A run of certgen.                                                       *)

\* The Job starts a pod: for an installation or upgrade, or again because
\* the one before failed, or a second one while the first is still there
\* (a Job replaced by the next upgrade).  The certificates are always new.
Start(r) ==
    /\ pc[r] = "waiting" /\ \A q \in Runs : q < r => pc[q] # "waiting"
    /\ Cardinality(Active) < MaxActive
    /\ pc' = [pc EXCEPT ![r] = "getSecret"]
    /\ overlapped' = IF Active = {} THEN overlapped ELSE overlapped \union Active \union {r}
    /\ UNCHANGED <<secret, bundle, read, mounted, serving, faults>>

GetSecret(r) ==
    /\ pc[r] = "getSecret"
    /\ read' = [read EXCEPT ![r] = secret]
    /\ pc' = [pc EXCEPT ![r] = "putSecret"]
    /\ UNCHANGED <<secret, bundle, idleVars, faults>>

\* Create or Update, on the version read.
PutSecret(r) ==
    /\ pc[r] = "putSecret" /\ read[r] = secret /\ secret # Empty
    /\ secret' = r
    /\ pc' = [pc EXCEPT ![r] = "getHook"]
    /\ UNCHANGED <<bundle, read, idleVars, faults>>

\* The version read is outdated (conflict, or it exists by now), or the
\* Secret has no data map and the assignment to it panics: the run ends.
PutSecretFails(r) ==
    /\ pc[r] = "putSecret" /\ (read[r] # secret \/ read[r] = Empty)
    /\ pc' = [pc EXCEPT ![r] = "failed"]
    /\ UNCHANGED <<secret, bundle, read, idleVars, faults>>

GetHook(r) ==
    /\ pc[r] = "getHook"
    /\ read' = [read EXCEPT ![r] = bundle]
    /\ pc' = [pc EXCEPT ![r] = "putHook"]
    /\ UNCHANGED <<secret, bundle, idleVars, faults>>

\* Mutant: an existing configuration is left alone.
PutHookOnce(r) ==
    /\ pc[r] = "putHook" /\ read[r] = bundle
    /\ bundle' = IF bundle = Absent THEN r ELSE bundle
    /\ pc' = [pc EXCEPT ![r] = "done"]
    /\ UNCHANGED <<secret, read, idleVars, faults>>

\* The CA of this run, not the one of the Secret as it is now.
PutHook(r) ==
    /\ pc[r] = "putHook" /\ read[r] = bundle
    /\ bundle' = r
    /\ pc' = [pc EXCEPT ![r] = "done"]
    /\ UNCHANGED <<secret, read, idleVars, faults>>

PutHookFails(r) ==
    /\ pc[r] = "putHook" /\ read[r] # bundle
    /\ pc' = [pc EXCEPT ![r] = "failed"]
    /\ UNCHANGED <<secret, bundle, read, idleVars, faults>>

\* Any other error, and a crash of the pod; runCertGenMode does not retry.
RunFails(r) ==
    /\ r \in Active /\ Fault
    /\ pc' = [pc EXCEPT ![r] = "failed"]
    /\ UNCHANGED <<secret, bundle, read, idleVars>>

----------------------------------------------------------------------------
(* The manager.                                                            *)

\* The kubelet projects the Secret into the pod, some time after the change.
KubeletSync ==
    /\ secret # Absent /\ mounted # secret
    /\ mounted' = secret
    /\ UNCHANGED <<runVars, serving, faults>>

\* Mutant: the files are not looked at before the server starts.
StartManagerUnchecked ==
    /\ serving = Absent /\ mounted # Absent
    /\ serving' = mounted
    /\ UNCHANGED <<runVars, mounted, faults>>

\* Without a certificate that can be loaded the manager exits.
StartManager ==
    /\ serving = Absent /\ mounted \in Runs
    /\ serving' = mounted
    /\ UNCHANGED <<runVars, mounted, faults>>

\* Mutant: the certificate is only loaded at the start.
ReloadNever ==
    /\ serving # Absent /\ mounted \in Runs /\ serving # mounted
    /\ UNCHANGED vars

\* The certificate watcher loads what is mounted.
Reload ==
    /\ serving # Absent /\ mounted \in Runs /\ serving # mounted
    /\ serving' = mounted
    /\ UNCHANGED <<runVars, mounted, faults>>

StopManager ==
    /\ serving # Absent /\ Fault
    /\ serving' = Absent
    /\ UNCHANGED <<runVars, mounted>>

----------------------------------------------------------------------------

Run(r) ==
    \/ GetSecret(r) \/ PutSecret(r) \/ PutSecretFails(r)
    \/ GetHook(r) \/ PutHook(r) \/ PutHookFails(r)

Manager == StartManager \/ Reload

Next ==
    \/ \E r \in Runs : Start(r) \/ Run(r) \/ RunFails(r)
    \/ KubeletSync \/ Manager \/ StopManager

Spec == Init /\ [][Next]_vars

\* A pod that was started goes on, the kubelet and the certificate watcher
\* come round, and the manager is restarted.
FairSpec ==
    /\ Spec
    /\ \A r \in Runs : WF_vars(Run(r))
    /\ WF_vars(KubeletSync) /\ WF_vars(Manager)

----------------------------------------------------------------------------
(* Properties.                                                             *)

\* Type invariant; the manager never serves an empty Secret.
TypeOK ==
    /\ secret \in Runs \union {Absent, Empty} /\ bundle \in Runs \union {Absent}
    /\ pc \in [Runs -> Steps \union {"waiting", "done", "failed"}]
    /\ read \in [Runs -> Runs \union {Absent, Empty}]
    /\ mounted \in Runs \union {Absent, Empty} /\ serving \in Runs \union {Absent}
    /\ overlapped \subseteq Runs
    /\ faults \in 0..MaxFaults

\* If the Secret comes from a run that succeeded, and that no other run
\* overlapped with, the webhook configuration has its CA: the two agree
\* unless a run is between its two writes, died there, or met another one.
SuccessAgrees ==
    secret \in Runs \ overlapped /\ pc[secret] = "done" => bundle = secret

\* Why: a run that is not marked as overlapped is alone while it runs, and
\* when another one writes the Secret between its two writes, that one is
\* marked.
AloneWhileActive == \A r \in Active \ overlapped : Active = {r}
SecretTakenOver ==
    \A r \in Runs : pc[r] \in {"getHook", "putHook"} =>
        secret \in Runs /\ (secret = r \/ secret \in overlapped)

\* The inductive invariant.
Inv == TypeOK /\ AloneWhileActive /\ SecretTakenOver /\ SuccessAgrees

\* Once the last rotation has succeeded, alone, the manager comes to serve
\* the certificate that the API server trusts, and keeps serving it.
RotationSettles ==
    \A r \in Runs :
        (<>[](secret = r /\ pc[r] = "done" /\ r \notin overlapped)) => <>[](serving = r /\ bundle = r)
=============================================================================
