--------------------------- MODULE MrvProperties ---------------------------
(***************************************************************************)
(* What the registry must guarantee to those who rely on its record.       *)
(***************************************************************************)
EXTENDS Mrv, FiniteSetsExt

\* Every account field keeps its Rust type.
MrvTypeOK ==
  /\ platform \in PlatformType
  /\ mrv \in [Retrofits ->
       [status : {"Absent", "Registered", "BaselineSubmitted", "InProgress"},
        baseline_submitted : BOOLEAN, verification_count : 0 .. MaxU8]]
  /\ auditors \subseteq AuditorWallets
  /\ baseline \in [Retrofits -> AuditorWallets \cup {NoKey}]
  /\ verification \in [Retrofits -> [Indexes ->
       [auditor : AuditorWallets \cup {NoKey}, period : Periods \cup {<<0, 0>>},
        attested : BOOLEAN]]]

IndexesOf(m) == {k \in Indexes : Submitted(m, k)}

\* The counter is the number of verifications, until it is full; it is not
\* the next free index, since auditors choose any.
VerificationsCounted == \A m \in Retrofits :
  mrv[m].verification_count = Min({Cardinality(IndexesOf(m)), MaxU8})

\* A retrofit's status and flag say what its record holds, and everything in
\* the record was signed by an authorized auditor after the baseline.
RecordFollowsStatus == \A m \in Retrofits :
  /\ mrv[m].baseline_submitted <=> baseline[m] # NoKey
  /\ mrv[m].status = "InProgress" <=> IndexesOf(m) # {}
  /\ IndexesOf(m) # {} => mrv[m].baseline_submitted
  /\ mrv[m].baseline_submitted => baseline[m] \in auditors
  /\ \A k \in IndexesOf(m) : verification[m][k].auditor \in auditors

\* Verifications take the places of Indexes, the baseline one before them.
BaselinePlace == -1

BaselineEntry(m) ==
  [subject |-> m, place |-> BaselinePlace, author |-> baseline[m], period |-> <<0, 0>>]

VerificationEntry(m, k) ==
  [subject |-> m, place |-> k, author |-> verification[m][k].auditor,
   period |-> verification[m][k].period]

Verifications == {v \in Retrofits \X Indexes : Submitted(v[1], v[2])}

Record == INSTANCE SignedRecord WITH
  Subjects <- Retrofits,
  Founding <- BaselinePlace,
  signers  <- auditors,
  record   <- {BaselineEntry(m) : m \in {r \in Retrofits : baseline[r] # NoKey}}
                \cup {VerificationEntry(v[1], v[2]) : v \in Verifications},
  attested <- {VerificationEntry(v[1], v[2]) :
                 v \in {w \in Verifications : verification[w[1]][w[2]].attested}}

\* The registry is an append-only signed record: whoever writes next, no
\* baseline, author, period or attestation ever changes or disappears, and
\* each was written by an auditor authorized before.
IsSignedRecord == Record!Spec

\* Auditors come back to attest what they submitted.
MrvFairSpec == Spec /\ \A a \in AuditorWallets, m \in Retrofits, k \in Indexes :
  WF_mrvVars(AttestVerification(a, m, k))

Unattested == {v \in Retrofits \X Indexes :
  Submitted(v[1], v[2]) /\ ~verification[v[1]][v[2]].attested}

\* No verification is locked out of its attestation: whatever was submitted
\* meanwhile, its author can still attest it, and does.
VerificationsGetAttested == \A v \in Retrofits \X Indexes :
  v \in Unattested ~> v \notin Unattested
=============================================================================
