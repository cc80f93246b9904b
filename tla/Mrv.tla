-------------------------------- MODULE Mrv --------------------------------
(***************************************************************************)
(* The MRV registry: retrofits the administrator registers, auditors it    *)
(* authorizes, the baseline an auditor submits once per retrofit, and the  *)
(* verifications auditors submit under indexes of their choice and attest. *)
(* Auditors act concurrently; the address of a verification is made of its *)
(* retrofit and its index, so an index is taken once.  What is measured    *)
(* and the texts are left out: nothing depends on them.                    *)
(***************************************************************************)
EXTENDS Platform

CONSTANTS
  Retrofits,        \* ids of MrvProject entries
  AuditorWallets,   \* the wallets the administrator may authorize
  Periods,          \* <<period_start, period_end>> pairs, in any order
  MaxU8             \* 255

ASSUME MrvAssumption ==
  /\ AuditorWallets \subseteq Wallets
  /\ Periods \subseteq Int \X Int
  /\ MaxU8 \in Nat

VARIABLES
  mrv,           \* the MrvProject entries
  auditors,      \* the wallets with an active Auditor account
  baseline,      \* the author of each entry's Baseline
  verification   \* the Verification accounts, per entry and index

mrvVars == <<platform, mrv, auditors, baseline, verification>>

Indexes == 0 .. MaxU8

NoMrvProject ==
  [status |-> "Absent", baseline_submitted |-> FALSE, verification_count |-> 0]

NoVerification == [auditor |-> NoKey, period |-> <<0, 0>>, attested |-> FALSE]

Registered(m) == mrv[m].status # "Absent"

Submitted(m, k) == verification[m][k].auditor # NoKey

Init ==
  /\ platform = NoPlatform
  /\ mrv = [m \in Retrofits |-> NoMrvProject]
  /\ auditors = {}
  /\ baseline = [m \in Retrofits |-> NoKey]
  /\ verification = [m \in Retrofits |-> [k \in Indexes |-> NoVerification]]

Deploy(admin, treasury, bps) ==
  /\ InitializePlatform(admin, treasury, bps)
  /\ UNCHANGED <<mrv, auditors, baseline, verification>>

RegisterMrvProject(m) ==
  /\ Initialized
  /\ ~Registered(m)
  /\ mrv' = [mrv EXCEPT ![m] = [NoMrvProject EXCEPT !.status = "Registered"]]
  /\ UNCHANGED <<platform, auditors, baseline, verification>>

\* An Auditor account is created active and nothing changes it afterwards.
AddAuditor(a) ==
  /\ Initialized
  /\ a \notin auditors
  /\ auditors' = auditors \cup {a}
  /\ UNCHANGED <<platform, mrv, baseline, verification>>

\* Variant: a second baseline replaces the first.
SubmitBaselineAgain(a, m) ==
  /\ a \in auditors
  /\ Registered(m)
  /\ baseline' = [baseline EXCEPT ![m] = a]
  /\ mrv' = [mrv EXCEPT ![m].baseline_submitted = TRUE,
                        ![m].status = "BaselineSubmitted"]
  /\ UNCHANGED <<platform, auditors, verification>>

SubmitBaseline(a, m) ==
  /\ a \in auditors
  /\ Registered(m)
  /\ ~mrv[m].baseline_submitted
  /\ baseline[m] = NoKey
  /\ baseline' = [baseline EXCEPT ![m] = a]
  /\ mrv' = [mrv EXCEPT ![m].baseline_submitted = TRUE,
                        ![m].status = "BaselineSubmitted"]
  /\ UNCHANGED <<platform, auditors, verification>>

\* Variant: the counter wraps around.
CountedWrapping(n) == (n + 1) % (MaxU8 + 1)

\* Variant: the counter is wider than its field.
CountedUnbounded(n) == n + 1

\* saturating_add(1) on a u8.
Counted(n) == IF n < MaxU8 THEN n + 1 ELSE n

\* Variant: an index can be submitted again.
SubmitVerificationAgain(a, m, k, period) ==
  /\ a \in auditors
  /\ mrv[m].baseline_submitted
  /\ period[2] > period[1]
  /\ verification' = [verification EXCEPT ![m][k] =
       [auditor |-> a, period |-> period, attested |-> FALSE]]
  /\ mrv' = [mrv EXCEPT
       ![m].verification_count = Counted(@),
       ![m].status = "InProgress"]
  /\ UNCHANGED <<platform, auditors, baseline>>

\* Any free index will do.  There is one index more than the counter can
\* count, so the counter stays at its limit on the last one.
SubmitVerification(a, m, k, period) ==
  /\ a \in auditors
  /\ mrv[m].baseline_submitted
  /\ ~Submitted(m, k)
  /\ period[2] > period[1]
  /\ verification' = [verification EXCEPT ![m][k] =
       [auditor |-> a, period |-> period, attested |-> FALSE]]
  /\ mrv' = [mrv EXCEPT
       ![m].verification_count = Counted(@),
       ![m].status = "InProgress"]
  /\ UNCHANGED <<platform, auditors, baseline>>

\* Variant: only the latest index can be attested.
AttestLatest(a, m, k) ==
  /\ a \in auditors
  /\ k = mrv[m].verification_count - 1
  /\ verification[m][k].auditor = a
  /\ ~verification[m][k].attested
  /\ verification' = [verification EXCEPT ![m][k].attested = TRUE]
  /\ UNCHANGED <<platform, mrv, auditors, baseline>>

AttestVerification(a, m, k) ==
  /\ a \in auditors
  /\ verification[m][k].auditor = a
  /\ ~verification[m][k].attested
  /\ verification' = [verification EXCEPT ![m][k].attested = TRUE]
  /\ UNCHANGED <<platform, mrv, auditors, baseline>>

Next ==
  \/ \E a \in Deployers, t \in Treasuries, bps \in FeeChoices : Deploy(a, t, bps)
  \/ \E m \in Retrofits : RegisterMrvProject(m)
  \/ \E a \in AuditorWallets : AddAuditor(a)
  \/ \E a \in AuditorWallets, m \in Retrofits :
       \/ SubmitBaseline(a, m)
       \/ \E k \in Indexes :
            \/ \E period \in Periods : SubmitVerification(a, m, k, period)
            \/ AttestVerification(a, m, k)

Spec == Init /\ [][Next]_mrvVars
=============================================================================
