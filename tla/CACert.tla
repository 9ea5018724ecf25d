-------------------------------- MODULE CACert --------------------------------
(***************************************************************************)
(* The serving certificate of the controller and the CA certificate its     *)
(* clients trust. The controller writes a self-signed key pair to two files, *)
(* rotates it, and publishes the certificate in a ConfigMap, the APIServices *)
(* and the webhook configuration. The agent builds its client from the      *)
(* ConfigMap. A key pair is a version number: 0 stands for none.            *)
(***************************************************************************)
EXTENDS Integers, Sequences

CONSTANTS Targets,     \* sequence of the objects syncCACert updates; the first is the ConfigMap
          MaxVersion, MaxFaults

VARIABLES
  certFile, keyFile,   \* the key pair on disk
  serving,             \* the pair the API server presents
  rotator,             \* rotateSelfSignedCertificates: sleep, key, update or ended
  caContent,           \* what caContentProvider has read from the certificate file
  caQueue,             \* the item of the CACertController's queue is pending
  sync,                \* the pass of syncCACert: index of the next target and the captured caCert
  published,           \* version in each target
  agentCA,             \* what the agent's caContentProvider has read
  client,              \* the version the agent's client trusts
  lostUpdate,          \* history: updateAntreaClient failed for agentCA
  caFaults

caVars == <<certFile, keyFile, serving, rotator, caContent, caQueue, sync, published, agentCA, client, lostUpdate, caFaults>>

Idle   == [next |-> 0, caCert |-> 0]
Fault  == caFaults < MaxFaults /\ caFaults' = caFaults + 1
Files  == <<certFile, keyFile>>
Agent  == <<agentCA, client, lostUpdate>>
Worker == <<sync, published>>

\* The API server has generated a pair and runs CACertController.RunOnce.
Started(v) ==
  /\ certFile' = v /\ keyFile' = v /\ serving' = v /\ rotator' = "sleep"
  /\ caContent' = v /\ caQueue' = FALSE /\ sync' = [next |-> 1, caCert |-> v]

Init ==
  /\ certFile = 1 /\ keyFile = 1 /\ serving = 1 /\ rotator = "sleep"
  /\ caContent = 1 /\ caQueue = FALSE /\ sync = [next |-> 1, caCert |-> 1]
  /\ published = [t \in DOMAIN Targets |-> 0]
  /\ agentCA = 0 /\ client = 0 /\ lostUpdate = FALSE /\ caFaults = 0

---------------------------------------------------------------------------
(* Rotation                                                                *)

\* generateNewServingCertificate writes the certificate, then the key.
WriteCert ==
  /\ rotator = "sleep" /\ certFile < MaxVersion
  /\ certFile' = certFile + 1 /\ rotator' = "key"
  /\ UNCHANGED <<keyFile, serving, caContent, caQueue, Worker, Agent, caFaults>>

WriteKey ==
  /\ rotator = "key"
  /\ keyFile' = certFile /\ rotator' = "update"
  /\ UNCHANGED <<certFile, serving, caContent, caQueue, Worker, Agent, caFaults>>

\* An error ends the rotation for good.
generateNewServingCertificateFails ==
  /\ rotator \in {"sleep", "key"} /\ Fault
  /\ rotator = "sleep" => certFile < MaxVersion
  /\ rotator' = "ended"
  /\ UNCHANGED <<Files, serving, caContent, caQueue, Worker, Agent>>

\* The provider notifies its listener of a content it did not have.
loadCABundle ==
  /\ caContent' = certFile
  /\ caQueue' = (caQueue \/ caContent # certFile)

UpdateCertificate ==
  /\ rotator = "update" /\ rotator' = "sleep"
  /\ loadCABundle
  /\ UNCHANGED <<Files, serving, Worker, Agent, caFaults>>

UpdateCertificateFails ==
  /\ rotator = "update" /\ Fault
  /\ rotator' = "sleep" /\ caQueue' = TRUE
  /\ UNCHANGED <<Files, serving, caContent, Worker, Agent>>

\* The provider and the API server read the files again every minute. The API
\* server ignores a certificate and a key that do not match.
PollFile ==
  /\ caContent # certFile
  /\ loadCABundle
  /\ UNCHANGED <<Files, serving, rotator, Worker, Agent, caFaults>>

ReloadServing ==
  /\ certFile = keyFile /\ serving # certFile
  /\ serving' = certFile
  /\ UNCHANGED <<Files, rotator, caContent, caQueue, Worker, Agent, caFaults>>

---------------------------------------------------------------------------
(* CACertController                                                        *)

processNextWorkItem ==
  /\ sync.next = 0 /\ caQueue
  /\ sync' = [next |-> 1, caCert |-> caContent] /\ caQueue' = FALSE
  /\ UNCHANGED <<Files, serving, rotator, caContent, published, Agent, caFaults>>

\* syncConfigMap, then each APIService, then the webhook configuration.
syncCACert ==
  /\ sync.next # 0
  /\ published' = [published EXCEPT ![sync.next] = sync.caCert]
  /\ sync' = IF sync.next = Len(Targets) THEN Idle ELSE [sync EXCEPT !.next = @ + 1]
  /\ UNCHANGED <<Files, serving, rotator, caContent, caQueue, Agent, caFaults>>

\* RunOnce and the worker both put the item back.
syncCACertFailsDropped ==
  /\ sync.next # 0 /\ Fault
  /\ sync' = Idle
  /\ UNCHANGED <<Files, serving, rotator, caContent, caQueue, published, Agent>>

syncCACertFails ==
  /\ sync.next # 0 /\ Fault
  /\ sync' = Idle /\ caQueue' = TRUE
  /\ UNCHANGED <<Files, serving, rotator, caContent, published, Agent>>

\* The controller restarts with a new pair.
RestartController ==
  /\ certFile < MaxVersion /\ Fault
  /\ Started(certFile + 1)
  /\ UNCHANGED <<published, Agent>>

---------------------------------------------------------------------------
(* The agent                                                               *)

\* The agent's provider watches the ConfigMap and notifies the client provider.
updateAntreaClient ==
  /\ agentCA # published[1]
  /\ agentCA' = published[1] /\ client' = published[1] /\ lostUpdate' = FALSE
  /\ UNCHANGED <<Files, serving, rotator, caContent, caQueue, Worker, caFaults>>

\* Enqueue logs the error; the provider does not notify again.
updateAntreaClientFails ==
  /\ agentCA # published[1] /\ Fault
  /\ agentCA' = published[1] /\ lostUpdate' = TRUE
  /\ UNCHANGED <<Files, serving, rotator, caContent, caQueue, Worker, client>>

Rotate   == WriteKey \/ UpdateCertificate
SyncPass == processNextWorkItem \/ syncCACert

Next ==
  \/ WriteCert \/ generateNewServingCertificateFails \/ Rotate \/ UpdateCertificateFails
  \/ PollFile \/ ReloadServing \/ SyncPass \/ syncCACertFails \/ RestartController
  \/ updateAntreaClient \/ updateAntreaClientFails

Spec == Init /\ [][Next]_caVars

\* The goroutines of both processes keep running.
FairSpec ==
  /\ Spec
  /\ WF_caVars(Rotate) /\ WF_caVars(PollFile) /\ WF_caVars(ReloadServing)
  /\ WF_caVars(SyncPass) /\ WF_caVars(updateAntreaClient)

---------------------------------------------------------------------------
(* Properties                                                              *)

Trusted == certFile = keyFile => /\ \A t \in DOMAIN Targets : published[t] = serving
                                 /\ ~lostUpdate => client = serving

\* Every client comes to trust the certificate the controller serves: through
\* rotations that overlap with a pass over the targets, passes that fail half
\* way and restarts. Two failures are the exception: a rotation that ended with
\* a new certificate and an old key on disk, and an update of the agent's client
\* that failed.
ClientsTrustServer == <>[]Trusted
=============================================================================
