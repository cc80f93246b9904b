------------------------------ MODULE MrvProofs ------------------------------
(***************************************************************************)
(* Proofs about the registry, for every set of retrofits, auditors and     *)
(* periods and every width of the verification counter.                    *)
(***************************************************************************)
EXTENDS MrvProperties, FiniteSetTheorems, TLAPS

(***************************************************************************)
(* The inductive invariant                                                 *)
(***************************************************************************)
\* An entry nobody registered is blank, so registering it discards nothing.
BlankUntilRegistered == \A m \in Retrofits : ~Registered(m) => mrv[m] = NoMrvProject

Inv == MrvTypeOK /\ BlankUntilRegistered /\ RecordFollowsStatus /\ VerificationsCounted

LEMMA Auditors == NoKey \notin AuditorWallets /\ MaxU8 \in Nat
BY PlatformAssumption, MrvAssumption

LEMMA Widths == 0 \in U64
BY WidthAssumption DEF U64

\* The registered indexes of a retrofit are finitely many.
LEMMA IndexesFinite ==
  ASSUME NEW m \in Retrofits
  PROVE  IsFiniteSet(IndexesOf(m)) /\ Cardinality(IndexesOf(m)) \in Nat
<1>1. IsFiniteSet(Indexes)
  BY Auditors, FS_Interval DEF Indexes
<1>2. IndexesOf(m) \subseteq Indexes
  BY DEF IndexesOf
<1> QED BY <1>1, <1>2, FS_Subset, FS_CardinalityType

LEMMA MinOfTwo ==
  ASSUME NEW a \in Nat, NEW b \in Nat
  PROVE  Min({a, b}) = IF a <= b THEN a ELSE b
<1> DEFINE low == IF a <= b THEN a ELSE b
<1>1. low \in {a, b} /\ \A y \in {a, b} : low <= y
  OBVIOUS
<1>2. \A x \in {a, b} : (\A y \in {a, b} : x <= y) => x = low
  OBVIOUS
<1> HIDE DEF low
<1>3. Min({a, b}) = low
  BY <1>1, <1>2 DEF Min
<1> QED BY <1>3 DEF low

\* One more verification keeps the counter at the number of them, or full.
LEMMA CountedOneMore ==
  ASSUME NEW n \in Nat
  PROVE  Min({n + 1, MaxU8}) = Counted(Min({n, MaxU8}))
BY Auditors, MinOfTwo DEF Counted

(***************************************************************************)
(* What the steps do to the record                                         *)
(***************************************************************************)
LEMMA PlatformStays ==
  ASSUME MrvTypeOK, NEW a \in Deployers, NEW t \in Treasuries, NEW bps \in FeeChoices,
         Deploy(a, t, bps)
  PROVE  platform' \in PlatformType
<1>1. a \in Wallets /\ t \in Wallets /\ bps \in 0 .. MAX_FEE_BPS
  BY PlatformAssumption DEF Deploy, InitializePlatform, MAX_FEE_BPS
<1> QED BY <1>1, Widths DEF Deploy, InitializePlatform, PlatformType

\* What the properties say is about the registry's accounts alone.
LEMMA RecordFrame ==
  ASSUME Inv, UNCHANGED <<mrv, baseline, verification>>,
         auditors \subseteq auditors', auditors' \subseteq AuditorWallets,
         platform' \in PlatformType
  PROVE  Inv'
<1>1. MrvTypeOK'
  BY DEF Inv, MrvTypeOK
<1>2. BlankUntilRegistered'
  BY DEF Inv, BlankUntilRegistered, Registered
<1>3. \A m \in Retrofits : IndexesOf(m)' = IndexesOf(m)
  BY DEF IndexesOf, Submitted
<1>4. RecordFollowsStatus'
  BY <1>3 DEF Inv, RecordFollowsStatus
<1>5. VerificationsCounted'
  BY <1>3 DEF Inv, VerificationsCounted
<1> QED BY <1>1, <1>2, <1>4, <1>5 DEF Inv

LEMMA InitInv == Init => Inv
<1> SUFFICES ASSUME Init PROVE Inv
  OBVIOUS
<1>1. /\ platform = NoPlatform /\ mrv = [m \in Retrofits |-> NoMrvProject]
      /\ auditors = {} /\ baseline = [m \in Retrofits |-> NoKey]
      /\ verification = [m \in Retrofits |-> [k \in Indexes |-> NoVerification]]
  BY DEF Init
<1>2. MrvTypeOK
  BY <1>1, Auditors DEF MrvTypeOK, PlatformType, NoMrvProject, NoVerification
<1>3. BlankUntilRegistered
  BY <1>1 DEF BlankUntilRegistered
<1>4. \A m \in Retrofits : IndexesOf(m) = {}
  BY <1>1 DEF IndexesOf, Submitted, NoVerification
<1>5. RecordFollowsStatus
  BY <1>1, <1>4 DEF RecordFollowsStatus, NoMrvProject
<1>6. VerificationsCounted
  <2>1. Min({0, MaxU8}) = 0
    BY MinOfTwo, Auditors
  <2>2. Cardinality({}) = 0
    BY FS_EmptySet
  <2>3. \A m \in Retrofits : mrv[m].verification_count = 0
    BY <1>1 DEF NoMrvProject
  <2> QED BY <1>4, <2>1, <2>2, <2>3 DEF VerificationsCounted
<1> QED BY <1>2, <1>3, <1>5, <1>6 DEF Inv

LEMMA RegisterInv ==
  ASSUME Inv, NEW m \in Retrofits, RegisterMrvProject(m)
  PROVE  Inv'
<1> DEFINE new == [NoMrvProject EXCEPT !.status = "Registered"]
<1>1. /\ mrv' = [mrv EXCEPT ![m] = new] /\ mrv[m] = NoMrvProject
      /\ UNCHANGED <<platform, auditors, baseline, verification>>
  BY DEF RegisterMrvProject, Inv, BlankUntilRegistered
<1>2. /\ new.status = "Registered" /\ ~new.baseline_submitted
      /\ new.verification_count = 0
      /\ new \in [status : {"Absent", "Registered", "BaselineSubmitted", "InProgress"},
                  baseline_submitted : BOOLEAN, verification_count : 0 .. MaxU8]
  <2>1. NoMrvProject \in [status : {"Absent"}, baseline_submitted : BOOLEAN,
                          verification_count : 0 .. MaxU8]
    BY Auditors DEF NoMrvProject
  <2>2. /\ new.status = "Registered" /\ ~new.baseline_submitted
        /\ new.verification_count = 0
    BY DEF NoMrvProject
  <2> QED BY <2>1, <2>2
<1>3. ~mrv[m].baseline_submitted /\ mrv[m].verification_count = 0
      /\ mrv[m].status = "Absent"
  BY <1>1 DEF NoMrvProject
<1> HIDE DEF new
<1>4. MrvTypeOK'
  BY <1>1, <1>2 DEF Inv, MrvTypeOK
<1>5. mrv'[m] = new /\ \A r \in Retrofits \ {m} : mrv'[r] = mrv[r]
  BY <1>1 DEF Inv, MrvTypeOK
<1>6. BlankUntilRegistered'
  BY <1>2, <1>5 DEF Inv, BlankUntilRegistered, Registered
<1>7. \A r \in Retrofits : IndexesOf(r)' = IndexesOf(r)
  BY <1>1 DEF IndexesOf, Submitted
<1>8. /\ \A r \in Retrofits : /\ mrv'[r].baseline_submitted <=> mrv[r].baseline_submitted
                              /\ mrv'[r].verification_count = mrv[r].verification_count
                              /\ mrv'[r].status = "InProgress" <=> mrv[r].status = "InProgress"
  BY <1>2, <1>3, <1>5
<1>9. RecordFollowsStatus'
  <2>1. ASSUME NEW r \in Retrofits
        PROVE  /\ mrv'[r].baseline_submitted <=> baseline'[r] # NoKey
               /\ mrv'[r].status = "InProgress" <=> IndexesOf(r)' # {}
               /\ IndexesOf(r)' # {} => mrv'[r].baseline_submitted
               /\ mrv'[r].baseline_submitted => baseline'[r] \in auditors'
    BY <1>1, <1>7, <1>8 DEF Inv, RecordFollowsStatus
  <2>2. \A r \in Retrofits : \A k \in IndexesOf(r)' : verification'[r][k].auditor \in auditors'
    BY <1>1, <1>7 DEF Inv, RecordFollowsStatus
  <2> QED BY <2>1, <2>2 DEF RecordFollowsStatus
<1>10. VerificationsCounted'
  BY <1>7, <1>8 DEF Inv, VerificationsCounted
<1> QED BY <1>4, <1>6, <1>9, <1>10 DEF Inv

LEMMA BaselineInv ==
  ASSUME Inv, NEW a \in AuditorWallets, NEW m \in Retrofits, SubmitBaseline(a, m)
  PROVE  Inv'
<1>1. /\ a \in auditors /\ a # NoKey /\ ~mrv[m].baseline_submitted /\ baseline[m] = NoKey
      /\ baseline' = [baseline EXCEPT ![m] = a]
      /\ mrv' = [mrv EXCEPT ![m].baseline_submitted = TRUE,
                            ![m].status = "BaselineSubmitted"]
      /\ UNCHANGED <<platform, auditors, verification>>
  BY Auditors DEF SubmitBaseline
<1>2. MrvTypeOK'
  BY <1>1 DEF Inv, MrvTypeOK
<1>3. /\ mrv'[m].baseline_submitted /\ mrv'[m].status = "BaselineSubmitted"
      /\ mrv'[m].verification_count = mrv[m].verification_count
      /\ baseline'[m] = a
      /\ \A r \in Retrofits \ {m} : mrv'[r] = mrv[r] /\ baseline'[r] = baseline[r]
  BY <1>1 DEF Inv, MrvTypeOK
<1>4. BlankUntilRegistered'
  BY <1>3 DEF Inv, BlankUntilRegistered, Registered
<1>5. \A r \in Retrofits : IndexesOf(r)' = IndexesOf(r)
  BY <1>1 DEF IndexesOf, Submitted
<1>6. IndexesOf(m) = {}
  BY <1>1 DEF Inv, RecordFollowsStatus
<1>7. RecordFollowsStatus'
  <2>1. ASSUME NEW r \in Retrofits
        PROVE  /\ mrv'[r].baseline_submitted <=> baseline'[r] # NoKey
               /\ mrv'[r].status = "InProgress" <=> IndexesOf(r)' # {}
               /\ IndexesOf(r)' # {} => mrv'[r].baseline_submitted
               /\ mrv'[r].baseline_submitted => baseline'[r] \in auditors'
    <3>1. CASE r = m
      <4>1. IndexesOf(m)' = {}
        BY <1>5, <1>6
      <4>2. mrv'[m].status # "InProgress" /\ mrv'[m].baseline_submitted
        BY <1>3
      <4>3. baseline'[m] = a /\ a # NoKey /\ a \in auditors'
        BY <1>1, <1>3
      <4> QED BY <3>1, <4>1, <4>2, <4>3
    <3>2. CASE r # m
      <4>1. /\ mrv[r].baseline_submitted <=> baseline[r] # NoKey
            /\ mrv[r].status = "InProgress" <=> IndexesOf(r) # {}
            /\ IndexesOf(r) # {} => mrv[r].baseline_submitted
            /\ mrv[r].baseline_submitted => baseline[r] \in auditors
        BY DEF Inv, RecordFollowsStatus
      <4>2. /\ mrv'[r] = mrv[r] /\ baseline'[r] = baseline[r] /\ auditors' = auditors
            /\ IndexesOf(r)' = IndexesOf(r)
        BY <1>1, <1>3, <1>5, <3>2
      <4> QED BY <4>1, <4>2
    <3> QED BY <3>1, <3>2
  <2>2. \A r \in Retrofits : \A k \in IndexesOf(r)' : verification'[r][k].auditor \in auditors'
    BY <1>1, <1>5 DEF Inv, RecordFollowsStatus
  <2> QED BY <2>1, <2>2 DEF RecordFollowsStatus
<1>8. VerificationsCounted'
  BY <1>3, <1>5 DEF Inv, VerificationsCounted
<1> QED BY <1>2, <1>4, <1>7, <1>8 DEF Inv

\* A submission adds one index to one retrofit.
LEMMA SubmitEffect ==
  ASSUME Inv, NEW a \in AuditorWallets, NEW m \in Retrofits, NEW k \in Indexes,
         NEW period \in Periods, SubmitVerification(a, m, k, period)
  PROVE  /\ a \in auditors /\ mrv[m].baseline_submitted /\ k \notin IndexesOf(m)
         /\ verification'[m][k] = [auditor |-> a, period |-> period, attested |-> FALSE]
         /\ \A r \in Retrofits, j \in Indexes :
              ~(r = m /\ j = k) => verification'[r][j] = verification[r][j]
         /\ IndexesOf(m)' = IndexesOf(m) \cup {k}
         /\ \A r \in Retrofits \ {m} : IndexesOf(r)' = IndexesOf(r)
         /\ UNCHANGED <<platform, auditors, baseline>>
<1>1. /\ verification \in [Retrofits -> [Indexes ->
           [auditor : AuditorWallets \cup {NoKey}, period : Periods \cup {<<0, 0>>},
            attested : BOOLEAN]]]
      /\ verification' = [verification EXCEPT ![m][k] =
           [auditor |-> a, period |-> period, attested |-> FALSE]]
  BY DEF Inv, MrvTypeOK, SubmitVerification
<1>2. /\ verification'[m][k] = [auditor |-> a, period |-> period, attested |-> FALSE]
      /\ \A r \in Retrofits, j \in Indexes :
           ~(r = m /\ j = k) => verification'[r][j] = verification[r][j]
  BY <1>1
<1>3. verification'[m][k].auditor = a /\ a # NoKey
  BY <1>2, Auditors
<1>4. IndexesOf(m)' = IndexesOf(m) \cup {k}
  <2>1. \A j \in Indexes : Submitted(m, j)' <=> (j = k \/ Submitted(m, j))
    BY <1>2, <1>3 DEF Submitted
  <2> QED BY <2>1 DEF IndexesOf
<1>5. \A r \in Retrofits \ {m} : IndexesOf(r)' = IndexesOf(r)
  BY <1>2 DEF IndexesOf, Submitted
<1> QED BY <1>2, <1>4, <1>5 DEF SubmitVerification, IndexesOf

LEMMA SubmitInv ==
  ASSUME Inv, NEW a \in AuditorWallets, NEW m \in Retrofits, NEW k \in Indexes,
         NEW period \in Periods, SubmitVerification(a, m, k, period)
  PROVE  Inv'
<1>1. /\ a \in auditors /\ mrv[m].baseline_submitted /\ k \notin IndexesOf(m)
      /\ verification'[m][k] = [auditor |-> a, period |-> period, attested |-> FALSE]
      /\ \A r \in Retrofits, j \in Indexes :
           ~(r = m /\ j = k) => verification'[r][j] = verification[r][j]
      /\ IndexesOf(m)' = IndexesOf(m) \cup {k}
      /\ \A r \in Retrofits \ {m} : IndexesOf(r)' = IndexesOf(r)
      /\ UNCHANGED <<platform, auditors, baseline>>
  BY SubmitEffect
<1> DEFINE count == Counted(mrv[m].verification_count)
<1>2. count \in 0 .. MaxU8
  BY Auditors DEF Inv, MrvTypeOK, Counted
<1> HIDE DEF count
<1>3. /\ mrv' = [mrv EXCEPT ![m].verification_count = count, ![m].status = "InProgress"]
      /\ verification' = [verification EXCEPT ![m][k] =
           [auditor |-> a, period |-> period, attested |-> FALSE]]
  BY DEF SubmitVerification, count
<1>4. MrvTypeOK'
  <2>1. mrv' \in [Retrofits ->
          [status : {"Absent", "Registered", "BaselineSubmitted", "InProgress"},
           baseline_submitted : BOOLEAN, verification_count : 0 .. MaxU8]]
    BY <1>2, <1>3 DEF Inv, MrvTypeOK
  <2>2. verification' \in [Retrofits -> [Indexes ->
          [auditor : AuditorWallets \cup {NoKey}, period : Periods \cup {<<0, 0>>},
           attested : BOOLEAN]]]
    BY <1>3 DEF Inv, MrvTypeOK
  <2> QED BY <1>1, <2>1, <2>2 DEF Inv, MrvTypeOK
<1>5. /\ mrv'[m].baseline_submitted = mrv[m].baseline_submitted
      /\ mrv'[m].status = "InProgress" /\ mrv'[m].verification_count = count
      /\ \A r \in Retrofits \ {m} : mrv'[r] = mrv[r]
  BY <1>3 DEF Inv, MrvTypeOK
<1>6. BlankUntilRegistered'
  BY <1>5 DEF Inv, BlankUntilRegistered, Registered
<1>7. RecordFollowsStatus'
  <2>1. verification'[m][k].auditor \in auditors
    BY <1>1
  <2>2. \A j \in IndexesOf(m)' : verification'[m][j].auditor \in auditors
    <3>1. \A j \in IndexesOf(m) : j # k /\ j \in Indexes
      BY <1>1 DEF IndexesOf
    <3> QED BY <1>1, <2>1, <3>1 DEF Inv, RecordFollowsStatus
  <2>3. \A r \in Retrofits \ {m} : \A j \in IndexesOf(r)' : verification'[r][j].auditor \in auditors
    <3>1. \A r \in Retrofits : \A j \in IndexesOf(r) : j \in Indexes
      BY DEF IndexesOf
    <3> QED BY <1>1, <3>1 DEF Inv, RecordFollowsStatus
  <2>4. IndexesOf(m)' # {}
    BY <1>1
  <2>5. ASSUME NEW r \in Retrofits
        PROVE  /\ mrv'[r].baseline_submitted <=> baseline'[r] # NoKey
               /\ mrv'[r].status = "InProgress" <=> IndexesOf(r)' # {}
               /\ IndexesOf(r)' # {} => mrv'[r].baseline_submitted
               /\ mrv'[r].baseline_submitted => baseline'[r] \in auditors'
    <3>1. CASE r = m
      BY <1>1, <1>5, <2>4, <3>1 DEF Inv, RecordFollowsStatus
    <3>2. CASE r # m
      BY <1>1, <1>5, <3>2 DEF Inv, RecordFollowsStatus
    <3> QED BY <3>1, <3>2
  <2> QED BY <1>1, <2>2, <2>3, <2>5 DEF RecordFollowsStatus
<1>8. VerificationsCounted'
  <2>1. IsFiniteSet(IndexesOf(m)) /\ Cardinality(IndexesOf(m)) \in Nat
    BY IndexesFinite
  <2>2. Cardinality(IndexesOf(m)') = Cardinality(IndexesOf(m)) + 1
    BY <1>1, <2>1, FS_AddElement
  <2>3. count = Min({Cardinality(IndexesOf(m)'), MaxU8})
    BY <2>1, <2>2, CountedOneMore DEF Inv, VerificationsCounted, count
  <2> QED BY <1>1, <1>5, <2>3 DEF Inv, VerificationsCounted
<1> QED BY <1>4, <1>6, <1>7, <1>8 DEF Inv

LEMMA AttestEffect ==
  ASSUME Inv, NEW a \in AuditorWallets, NEW m \in Retrofits, NEW k \in Indexes,
         AttestVerification(a, m, k)
  PROVE  /\ Submitted(m, k) /\ ~verification[m][k].attested
         /\ verification' = [verification EXCEPT ![m][k].attested = TRUE]
         /\ verification'[m][k].attested
         /\ \A r \in Retrofits, j \in Indexes :
              /\ verification'[r][j].auditor = verification[r][j].auditor
              /\ verification'[r][j].period = verification[r][j].period
              /\ ~(r = m /\ j = k) =>
                   verification'[r][j].attested = verification[r][j].attested
         /\ \A r \in Retrofits, j \in Indexes : Submitted(r, j)' = Submitted(r, j)
         /\ UNCHANGED <<platform, mrv, auditors, baseline>>
<1>1. /\ verification \in [Retrofits -> [Indexes ->
           [auditor : AuditorWallets \cup {NoKey}, period : Periods \cup {<<0, 0>>},
            attested : BOOLEAN]]]
      /\ verification' = [verification EXCEPT ![m][k].attested = TRUE]
      /\ verification[m][k].auditor = a /\ ~verification[m][k].attested
      /\ UNCHANGED <<platform, mrv, auditors, baseline>>
  BY DEF Inv, MrvTypeOK, AttestVerification
<1>2. /\ verification'[m][k] = [verification[m][k] EXCEPT !.attested = TRUE]
      /\ \A r \in Retrofits, j \in Indexes :
           ~(r = m /\ j = k) => verification'[r][j] = verification[r][j]
  BY <1>1
<1>3. /\ verification'[m][k].attested
      /\ verification'[m][k].auditor = verification[m][k].auditor
      /\ verification'[m][k].period = verification[m][k].period
  BY <1>1, <1>2
<1>4. \A r \in Retrofits, j \in Indexes :
        /\ verification'[r][j].auditor = verification[r][j].auditor
        /\ verification'[r][j].period = verification[r][j].period
  BY <1>2, <1>3
<1>5. Submitted(m, k)
  BY <1>1, Auditors DEF Submitted
<1> QED BY <1>1, <1>2, <1>3, <1>4, <1>5 DEF Submitted

\* Changing a field of a record within its type.
LEMMA AttestedType ==
  ASSUME NEW A, NEW P, NEW B, NEW t \in B, NEW v \in [auditor : A, period : P, attested : B]
  PROVE  [v EXCEPT !.attested = t] \in [auditor : A, period : P, attested : B]
OBVIOUS

LEMMA AttestInv ==
  ASSUME Inv, NEW a \in AuditorWallets, NEW m \in Retrofits, NEW k \in Indexes,
         AttestVerification(a, m, k)
  PROVE  Inv'
<1>1. /\ verification' = [verification EXCEPT ![m][k].attested = TRUE]
      /\ \A r \in Retrofits, j \in Indexes :
           verification'[r][j].auditor = verification[r][j].auditor
      /\ \A r \in Retrofits, j \in Indexes : Submitted(r, j)' = Submitted(r, j)
      /\ UNCHANGED <<platform, mrv, auditors, baseline>>
  BY AttestEffect
<1>2. MrvTypeOK'
  <2> DEFINE V == [auditor : AuditorWallets \cup {NoKey}, period : Periods \cup {<<0, 0>>},
                   attested : BOOLEAN]
             new == [verification[m][k] EXCEPT !.attested = TRUE]
  <2>1. verification \in [Retrofits -> [Indexes -> V]]
    BY DEF Inv, MrvTypeOK
  <2>2. verification' = [verification EXCEPT ![m][k] = new]
    BY <1>1
  <2>3. new \in V
    <3>1. verification[m][k] \in V
      BY <2>1
    <3>2. \A b \in BOOLEAN : [verification[m][k] EXCEPT !.attested = b] \in V
      BY <3>1, AttestedType, Zenon
    <3> QED BY <3>2, Zenon
  <2> HIDE DEF V, new
  <2>4. verification' \in [Retrofits -> [Indexes -> V]]
    BY <2>1, <2>2, <2>3
  <2> QED BY <1>1, <2>4 DEF Inv, MrvTypeOK, V
<1>3. BlankUntilRegistered'
  BY <1>1 DEF Inv, BlankUntilRegistered, Registered
<1>4. \A r \in Retrofits : IndexesOf(r)' = IndexesOf(r)
  BY <1>1 DEF IndexesOf
<1>5. RecordFollowsStatus'
  <2>1. \A r \in Retrofits : \A j \in IndexesOf(r) :
          verification'[r][j].auditor = verification[r][j].auditor
    BY <1>1 DEF IndexesOf
  <2> QED BY <1>1, <1>4, <2>1 DEF Inv, RecordFollowsStatus
<1>6. VerificationsCounted'
  BY <1>1, <1>4 DEF Inv, VerificationsCounted
<1> QED BY <1>2, <1>3, <1>5, <1>6 DEF Inv

LEMMA StepInv == Inv /\ [Next]_mrvVars => Inv'
<1> SUFFICES ASSUME Inv, [Next]_mrvVars PROVE Inv'
  OBVIOUS
<1>1. auditors \subseteq AuditorWallets /\ platform \in PlatformType /\ MrvTypeOK
  BY DEF Inv, MrvTypeOK
<1>2. ASSUME NEW a \in Deployers, NEW t \in Treasuries, NEW bps \in FeeChoices,
             Deploy(a, t, bps)
      PROVE  Inv'
  <2>1. platform' \in PlatformType
    BY <1>1, <1>2, PlatformStays
  <2> QED BY <1>1, <1>2, <2>1, RecordFrame DEF Deploy
<1>3. ASSUME NEW a \in AuditorWallets, AddAuditor(a) PROVE Inv'
  BY <1>1, <1>3, RecordFrame DEF AddAuditor
<1>4. CASE UNCHANGED mrvVars
  BY <1>1, <1>4, RecordFrame DEF mrvVars
<1> QED BY <1>2, <1>3, <1>4, RegisterInv, BaselineInv, SubmitInv, AttestInv DEF Next

LEMMA InvInvariant == Spec => []Inv
BY InitInv, StepInv, PTL DEF Spec

\* Every account of the registry keeps its type.
THEOREM MrvTypeCorrect == Spec => []MrvTypeOK
<1>1. Inv => MrvTypeOK
  BY DEF Inv
<1> QED BY <1>1, InvInvariant, PTL

\* The counter of a retrofit is the number of its verifications, whatever
\* indexes the auditors chose, until a u8 cannot count one more.
THEOREM VerificationsCountedTheorem == Spec => []VerificationsCounted
<1>1. Inv => VerificationsCounted
  BY DEF Inv
<1> QED BY <1>1, InvInvariant, PTL

\* The status of a retrofit and its flag are what its record says, and an
\* authorized auditor signed all of it, the baseline before the rest.
THEOREM RecordFollowsStatusTheorem == Spec => []RecordFollowsStatus
<1>1. Inv => RecordFollowsStatus
  BY DEF Inv
<1> QED BY <1>1, InvInvariant, PTL
(***************************************************************************)
(* The registry implements SignedRecord                                    *)
(***************************************************************************)
Founded == {m \in Retrofits : baseline[m] # NoKey}

Attestations ==
  {VerificationEntry(v[1], v[2]) :
     v \in {w \in Verifications : verification[w[1]][w[2]].attested}}

Entries ==
  {BaselineEntry(m) : m \in Founded}
    \cup {VerificationEntry(v[1], v[2]) : v \in Verifications}

\* What is in the record, place by place.
LEMMA InVerifications ==
  ASSUME NEW m \in Retrofits, NEW k \in Indexes
  PROVE  <<m, k>> \in Verifications <=> Submitted(m, k)
BY DEF Verifications

EntriesByPlace == \A e :
  e \in Entries <=>
    \/ \E m \in Retrofits : baseline[m] # NoKey /\ e = BaselineEntry(m)
    \/ \E m \in Retrofits, k \in Indexes :
         Submitted(m, k) /\ e = VerificationEntry(m, k)

AttestationsByPlace == \A e :
  e \in Attestations <=>
    \E m \in Retrofits, k \in Indexes :
      /\ Submitted(m, k) /\ verification[m][k].attested
      /\ e = VerificationEntry(m, k)

LEMMA InEntries == EntriesByPlace
<1> SUFFICES ASSUME NEW e
             PROVE  e \in Entries <=>
                      \/ \E m \in Retrofits : baseline[m] # NoKey /\ e = BaselineEntry(m)
                      \/ \E m \in Retrofits, k \in Indexes :
                           Submitted(m, k) /\ e = VerificationEntry(m, k)
  BY DEF EntriesByPlace
<1>1. e \in {BaselineEntry(m) : m \in Founded} <=>
        \E m \in Retrofits : baseline[m] # NoKey /\ e = BaselineEntry(m)
  BY DEF Founded
<1>2. ASSUME NEW v \in Verifications, e = VerificationEntry(v[1], v[2])
      PROVE  \E m \in Retrofits, k \in Indexes :
               Submitted(m, k) /\ e = VerificationEntry(m, k)
  BY <1>2 DEF Verifications
<1>3. ASSUME NEW m \in Retrofits, NEW k \in Indexes, Submitted(m, k),
             e = VerificationEntry(m, k)
      PROVE  \E v \in Verifications : e = VerificationEntry(v[1], v[2])
  <2>1. <<m, k>> \in Verifications /\ <<m, k>>[1] = m /\ <<m, k>>[2] = k
    BY <1>3, InVerifications
  <2> QED BY <1>3, <2>1
<1> QED BY <1>1, <1>2, <1>3 DEF Entries

LEMMA InAttestations == AttestationsByPlace
<1> SUFFICES ASSUME NEW e
             PROVE  e \in Attestations <=>
                      \E m \in Retrofits, k \in Indexes :
                        /\ Submitted(m, k) /\ verification[m][k].attested
                        /\ e = VerificationEntry(m, k)
  BY DEF AttestationsByPlace
<1>1. ASSUME NEW v \in Verifications, verification[v[1]][v[2]].attested,
             e = VerificationEntry(v[1], v[2])
      PROVE  \E m \in Retrofits, k \in Indexes :
               /\ Submitted(m, k) /\ verification[m][k].attested
               /\ e = VerificationEntry(m, k)
  BY <1>1 DEF Verifications
<1>2. ASSUME NEW m \in Retrofits, NEW k \in Indexes, Submitted(m, k),
             verification[m][k].attested, e = VerificationEntry(m, k)
      PROVE  e \in Attestations
  <2>1. <<m, k>> \in Verifications /\ <<m, k>>[1] = m /\ <<m, k>>[2] = k
    BY <1>2, InVerifications
  <2> QED BY <1>2, <2>1 DEF Attestations
<1> QED BY <1>1, <1>2 DEF Attestations

\* Entries of different places, or of different retrofits, differ.
LEMMA EntryFields ==
  ASSUME NEW m, NEW k
  PROVE  /\ BaselineEntry(m).subject = m /\ BaselineEntry(m).place = BaselinePlace
         /\ BaselineEntry(m).author = baseline[m]
         /\ VerificationEntry(m, k).subject = m /\ VerificationEntry(m, k).place = k
         /\ VerificationEntry(m, k).author = verification[m][k].auditor
BY DEF BaselineEntry, VerificationEntry

LEMMA Places ==
  ASSUME NEW k \in Indexes
  PROVE  k # BaselinePlace
BY Auditors DEF Indexes, BaselinePlace

\* The record is a function of the baselines and the verifications alone.
LEMMA EntriesFrame ==
  ASSUME UNCHANGED <<baseline, verification>>
  PROVE  Entries' = Entries /\ Attestations' = Attestations
BY DEF Entries, Attestations, Founded, Verifications, Submitted, BaselineEntry,
       VerificationEntry

LEMMA BaselineRefines ==
  ASSUME Inv, NEW a \in AuditorWallets, NEW m \in Retrofits, SubmitBaseline(a, m)
  PROVE  \E e \in Entries' : Record!Write(e)
<1>0. PICK e : e = BaselineEntry(m)'
  OBVIOUS
<1>1. /\ a \in auditors /\ a # NoKey /\ baseline[m] = NoKey
      /\ baseline' = [baseline EXCEPT ![m] = a]
      /\ UNCHANGED <<auditors, verification>>
  BY Auditors DEF SubmitBaseline
<1>2. /\ baseline'[m] = a
      /\ \A r \in Retrofits \ {m} : baseline'[r] = baseline[r]
  BY <1>1 DEF Inv, MrvTypeOK
<1>3. e.subject = m /\ e.place = BaselinePlace /\ e.author = a
  BY <1>0, <1>2 DEF BaselineEntry
<1>4. Founded' = Founded \cup {m} /\ m \notin Founded
  BY <1>1, <1>2 DEF Founded
<1>5. \A r \in Founded : BaselineEntry(r)' = BaselineEntry(r)
  BY <1>2, <1>4 DEF BaselineEntry, Founded
<1>6. Verifications' = Verifications /\ Attestations' = Attestations
  BY <1>1 DEF Attestations, Verifications, Submitted, VerificationEntry
<1>7. {VerificationEntry(v[1], v[2])' : v \in Verifications}
        = {VerificationEntry(v[1], v[2]) : v \in Verifications}
  BY <1>1 DEF VerificationEntry
<1>8. Entries' = Entries \cup {e}
  <2>1. {BaselineEntry(r)' : r \in Founded'} = {BaselineEntry(r) : r \in Founded} \cup {e}
    BY <1>0, <1>4, <1>5
  <2>2. Entries' = {BaselineEntry(r)' : r \in Founded'}
                     \cup {VerificationEntry(v[1], v[2])' : v \in Verifications'}
    BY DEF Entries
  <2> QED BY <1>6, <1>7, <2>1, <2>2 DEF Entries
<1>9. ~ \E f \in Entries : f.subject = m /\ f.place = BaselinePlace
  <2>1. \A r \in Retrofits : baseline[r] # NoKey => BaselineEntry(r).subject # m
    BY <1>1, EntryFields
  <2>2. \A r \in Retrofits, k \in Indexes : VerificationEntry(r, k).place # BaselinePlace
    BY EntryFields, Places
  <2> QED BY <2>1, <2>2, InEntries DEF EntriesByPlace
<1>10. Record!Write(e)
  BY <1>1, <1>3, <1>6, <1>8, <1>9
     DEF Record!Write, Record!Taken, Entries, Attestations, Founded
<1> QED BY <1>8, <1>10

LEMMA SubmitRefines ==
  ASSUME Inv, NEW a \in AuditorWallets, NEW m \in Retrofits, NEW k \in Indexes,
         NEW period \in Periods, SubmitVerification(a, m, k, period)
  PROVE  \E e \in Entries' : Record!Write(e)
<1>0. PICK e : e = VerificationEntry(m, k)'
  OBVIOUS
<1>1. /\ a \in auditors /\ mrv[m].baseline_submitted
      /\ verification'[m][k] = [auditor |-> a, period |-> period, attested |-> FALSE]
      /\ \A r \in Retrofits, j \in Indexes :
           ~(r = m /\ j = k) => verification'[r][j] = verification[r][j]
      /\ UNCHANGED <<auditors, baseline>>
  BY SubmitEffect
<1>2. a # NoKey /\ ~Submitted(m, k) /\ baseline[m] # NoKey
  BY <1>1, Auditors DEF SubmitVerification, Inv, RecordFollowsStatus
<1>3. /\ verification'[m][k].auditor = a /\ ~verification'[m][k].attested
  BY <1>1
<1>4. \A r \in Retrofits, j \in Indexes :
        Submitted(r, j)' <=> Submitted(r, j) \/ (r = m /\ j = k)
  BY <1>1, <1>2, <1>3 DEF Submitted
<1>5. e.subject = m /\ e.place = k /\ e.author = a
  BY <1>0, <1>3 DEF VerificationEntry
<1>6. \A r \in Retrofits, j \in Indexes : ~(r = m /\ j = k) =>
        VerificationEntry(r, j)' = VerificationEntry(r, j)
  BY <1>1 DEF VerificationEntry
<1>7. \A r \in Retrofits : BaselineEntry(r)' = BaselineEntry(r)
  BY <1>1 DEF BaselineEntry
<1>8. Entries' = Entries \cup {e}
  <2>1. EntriesByPlace /\ EntriesByPlace'
    BY InEntries, PTL
  <2>2. ASSUME NEW f PROVE f \in Entries' <=> f \in Entries \/ f = e
    BY <1>0, <1>1, <1>2, <1>4, <1>6, <1>7, <2>1 DEF EntriesByPlace
  <2> QED BY <2>2
<1>9. Attestations' = Attestations
  <2>1. AttestationsByPlace /\ AttestationsByPlace'
    BY InAttestations, PTL
  <2>2. \A r \in Retrofits, j \in Indexes :
          Submitted(r, j)' /\ verification'[r][j].attested <=>
            Submitted(r, j) /\ verification[r][j].attested
    BY <1>1, <1>2, <1>3, <1>4
  <2>3. \A r \in Retrofits, j \in Indexes :
          Submitted(r, j) => VerificationEntry(r, j)' = VerificationEntry(r, j)
    BY <1>2, <1>6
  <2>4. ASSUME NEW f PROVE f \in Attestations' <=> f \in Attestations
    BY <2>1, <2>2, <2>3 DEF AttestationsByPlace
  <2> QED BY <2>4
<1>10. ~ \E f \in Entries : f.subject = m /\ f.place = k
  <2>1. \A r \in Retrofits : BaselineEntry(r).place # k
    BY EntryFields, Places
  <2>2. \A r \in Retrofits, j \in Indexes : Submitted(r, j) =>
          ~(VerificationEntry(r, j).subject = m /\ VerificationEntry(r, j).place = k)
    BY <1>2, EntryFields
  <2> QED BY <2>1, <2>2, InEntries DEF EntriesByPlace
<1>11. \E f \in Entries : f.subject = m /\ f.place = BaselinePlace
  <2>1. BaselineEntry(m) \in Entries
    BY <1>2, InEntries DEF EntriesByPlace
  <2> QED BY <2>1, EntryFields
<1>12. Record!Write(e)
  BY <1>1, <1>5, <1>8, <1>9, <1>10, <1>11
     DEF Record!Write, Record!Taken, Entries, Attestations, Founded
<1> QED BY <1>8, <1>12

LEMMA AttestRefines ==
  ASSUME Inv, NEW a \in AuditorWallets, NEW m \in Retrofits, NEW k \in Indexes,
         AttestVerification(a, m, k)
  PROVE  \E e \in Entries' : Record!Attest(e)
<1>0. PICK e : e = VerificationEntry(m, k)
  OBVIOUS
<1>1. /\ Submitted(m, k) /\ ~verification[m][k].attested
      /\ verification'[m][k].attested
      /\ \A r \in Retrofits, j \in Indexes :
           /\ verification'[r][j].auditor = verification[r][j].auditor
           /\ verification'[r][j].period = verification[r][j].period
           /\ ~(r = m /\ j = k) =>
                verification'[r][j].attested = verification[r][j].attested
      /\ \A r \in Retrofits, j \in Indexes : Submitted(r, j)' = Submitted(r, j)
      /\ UNCHANGED <<auditors, baseline>>
  BY AttestEffect
<1>2. \A r \in Retrofits, j \in Indexes : VerificationEntry(r, j)' = VerificationEntry(r, j)
  BY <1>1 DEF VerificationEntry
<1>3. \A r \in Retrofits : BaselineEntry(r)' = BaselineEntry(r)
  BY <1>1 DEF BaselineEntry
<1>4. e.subject = m /\ e.place = k /\ e \in Entries
  BY <1>0, <1>1, EntryFields, InEntries DEF EntriesByPlace
<1>5. e \notin Attestations
  <2>1. \A r \in Retrofits, j \in Indexes : e = VerificationEntry(r, j) => r = m /\ j = k
    BY <1>4, EntryFields
  <2> QED BY <1>1, <2>1, InAttestations DEF AttestationsByPlace
<1>6. Entries' = Entries
  <2>1. EntriesByPlace /\ EntriesByPlace'
    BY InEntries, PTL
  <2>2. ASSUME NEW f PROVE f \in Entries' <=> f \in Entries
    BY <1>1, <1>2, <1>3, <2>1 DEF EntriesByPlace
  <2> QED BY <2>2
<1>7. Attestations' = Attestations \cup {e}
  <2>1. AttestationsByPlace /\ AttestationsByPlace'
    BY InAttestations, PTL
  <2>2. \A r \in Retrofits, j \in Indexes :
          verification'[r][j].attested <=> verification[r][j].attested \/ (r = m /\ j = k)
    BY <1>1
  <2>3. ASSUME NEW f PROVE f \in Attestations' <=> f \in Attestations \/ f = e
    BY <1>0, <1>1, <1>2, <2>1, <2>2 DEF AttestationsByPlace
  <2> QED BY <2>3
<1>8. e.place # BaselinePlace
  BY <1>4, Places
<1>9. Record!Attest(e)
  BY <1>1, <1>4, <1>5, <1>6, <1>7, <1>8
     DEF Record!Attest, Entries, Attestations, Founded
<1> QED BY <1>4, <1>6, <1>9

\* Whoever writes next, the registry is an append-only record: every entry
\* was signed by an auditor authorized before, none changes or disappears.
THEOREM IsSignedRecordTheorem == Spec => IsSignedRecord
<1>1. Init => Record!Init
  <2> SUFFICES ASSUME Init PROVE Record!Init
    OBVIOUS
  <2>1. \A m \in Retrofits : baseline[m] = NoKey
    BY DEF Init
  <2>2. Verifications = {}
    BY DEF Init, Verifications, Submitted, NoVerification
  <2>3. auditors = {}
    BY DEF Init
  <2> QED BY <2>1, <2>2, <2>3 DEF Record!Init
<1>2. Inv /\ [Next]_mrvVars => [Record!Next]_Record!recordVars
  <2> SUFFICES ASSUME Inv, [Next]_mrvVars PROVE [Record!Next]_Record!recordVars
    OBVIOUS
  <2>1. ASSUME UNCHANGED <<auditors, baseline, verification>>
        PROVE  UNCHANGED Record!recordVars
    BY <2>1, EntriesFrame DEF Record!recordVars, Entries, Attestations, Founded
  <2>2. ASSUME NEW a \in Deployers, NEW t \in Treasuries, NEW bps \in FeeChoices,
               Deploy(a, t, bps)
        PROVE  UNCHANGED Record!recordVars
    BY <2>1, <2>2 DEF Deploy
  <2>3. ASSUME NEW m \in Retrofits, RegisterMrvProject(m)
        PROVE  UNCHANGED Record!recordVars
    BY <2>1, <2>3 DEF RegisterMrvProject
  <2>4. ASSUME NEW a \in AuditorWallets, AddAuditor(a) PROVE Record!Next
    <3>1. auditors' = auditors \cup {a} /\ UNCHANGED <<baseline, verification>>
      BY <2>4 DEF AddAuditor
    <3>2. Record!Authorize(a)
      BY <3>1, EntriesFrame DEF Record!Authorize, Entries, Attestations, Founded
    <3> QED BY <3>1, <3>2 DEF Record!Next
  <2>5. ASSUME NEW a \in AuditorWallets, NEW m \in Retrofits, SubmitBaseline(a, m)
        PROVE  Record!Next
    BY <2>5, BaselineRefines DEF Record!Next, Entries, Founded
  <2>6. ASSUME NEW a \in AuditorWallets, NEW m \in Retrofits, NEW k \in Indexes,
               NEW period \in Periods, SubmitVerification(a, m, k, period)
        PROVE  Record!Next
    BY <2>6, SubmitRefines DEF Record!Next, Entries, Founded
  <2>7. ASSUME NEW a \in AuditorWallets, NEW m \in Retrofits, NEW k \in Indexes,
               AttestVerification(a, m, k)
        PROVE  Record!Next
    BY <2>7, AttestRefines DEF Record!Next, Entries, Founded
  <2>8. CASE UNCHANGED mrvVars
    BY <2>1, <2>8 DEF mrvVars
  <2> QED BY <2>2, <2>3, <2>4, <2>5, <2>6, <2>7, <2>8 DEF Next
<1> QED BY <1>1, <1>2, InvInvariant, PTL DEF Spec, IsSignedRecord, Record!Spec
=============================================================================
