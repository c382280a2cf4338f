------------------------------- MODULE CertOps -------------------------------
(***************************************************************************)
(* The certificate manager of internal/cert/cert.go as operations on a     *)
(* value: its configuration, the PEM material it hands out, the material   *)
(* it has persisted in cert_dir, the flag of a renewal, and the ACME       *)
(* goroutine it runs.                                                      *)
(***************************************************************************)
EXTENDS Naturals

CONSTANTS Given,        \* modes file and content: material comes with them
          Bare,         \* mode content without the content
          SelfSigned,   \* mode self
          Acme,         \* modes http and dns
          NoCert,       \* mode none; no material; no ACME goroutine
          MaxRenewals

ASSUME CertAssumption ==
    /\ Given \cap SelfSigned = {} /\ (Given \cup SelfSigned) \cap Acme = {}
    /\ Bare \cap (Given \cup SelfSigned \cup Acme) = {}
    /\ NoCert \notin Given \cup Bare \cup SelfSigned \cup Acme
    /\ MaxRenewals \in Nat

Sources == Given \cup Bare \cup SelfSigned \cup Acme
CertConfigs == Sources \cup {NoCert}

\* PEM material: the configuration it is for, and how often it was renewed.
NoMaterial == [of |-> NoCert, version |-> 0]
TLSCerts == [of : Sources, version : 0..MaxRenewals] \cup {NoMaterial}

Managers == [cfg : CertConfigs, mat : TLSCerts, disk : TLSCerts,
             renewed : BOOLEAN, acme : Acme \cup {NoCert}]

NewManager(c) == [cfg |-> c, mat |-> NoMaterial, disk |-> NoMaterial,
                  renewed |-> FALSE, acme |-> NoCert]

\* storePEM: in memory, and persisted for a restart.
Store(m, version) ==
    LET pem == [of |-> m.cfg, version |-> version]
    IN  [m EXCEPT !.mat = pem, !.disk = pem]

\* startACME, with the version that ACME storage has; once is enough.
StartedACME(m, version) ==
    IF m.acme # NoCert THEN m ELSE [Store(m, version) EXCEPT !.acme = m.cfg]

\* Start, if nothing fails but for want of content.  Mode self, and mode content
\* without the content, take whatever material is persisted, of whichever mode.
Started(m, version) ==
    CASE m.cfg = NoCert -> m
      [] m.cfg \in Given -> Store(m, 0)
      [] m.cfg \in SelfSigned /\ m.disk = NoMaterial -> Store(m, 0)
      [] m.cfg \in Bare /\ m.disk = NoMaterial -> m
      [] m.cfg \in SelfSigned \cup Bare /\ m.disk # NoMaterial ->
            [m EXCEPT !.mat = m.disk]
      [] m.cfg \in Acme -> StartedACME(m, version)

\* The ACME goroutine of another configuration is cancelled and its material
\* given up.
TornDown(m, c) ==
    IF m.acme \in {NoCert, c} THEN m
    ELSE [m EXCEPT !.acme = NoCert, !.mat = NoMaterial]

\* Reconfigure; a Start that fails leaves the teardown and the configuration,
\* and the material, if it is the certificate manager that does not start.
Reconfigured(m, c, version) ==
    Started([TornDown(m, c) EXCEPT !.cfg = c], version)
ReconfigureFailed(m, c, version) ==
    LET t == [TornDown(m, c) EXCEPT !.cfg = c]
    IN  {t} \cup (IF c \in Acme /\ t.acme = NoCert THEN {Store(t, version)} ELSE {})
=============================================================================
