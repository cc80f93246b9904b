---------------------------- MODULE SignedRecord ----------------------------
(***************************************************************************)
(* What a registry of measurements promises those who rely on it: an       *)
(* append-only record.  An entry has a place, and at most one entry ever   *)
(* takes a place; whoever wrote it had been authorized before; nothing is  *)
(* recorded of a subject before its founding entry; and nothing is ever    *)
(* removed or rewritten.  An entry can be attested, for good.              *)
(***************************************************************************)
CONSTANTS
  Subjects,
  Founding     \* the place of a subject's founding entry

VARIABLES
  signers,     \* those authorized to write
  record,      \* the entries written so far
  attested     \* the entries attested so far

recordVars == <<signers, record, attested>>

Init == signers = {} /\ record = {} /\ attested = {}

Authorize(a) ==
  /\ signers' = signers \cup {a}
  /\ UNCHANGED <<record, attested>>

Taken(s, place) == \E e \in record : e.subject = s /\ e.place = place

Write(e) ==
  /\ e.subject \in Subjects
  /\ e.author \in signers
  /\ ~Taken(e.subject, e.place)
  /\ e.place # Founding => Taken(e.subject, Founding)
  /\ record' = record \cup {e}
  /\ UNCHANGED <<signers, attested>>

Attest(e) ==
  /\ e \in record \ attested
  /\ e.place # Founding
  /\ attested' = attested \cup {e}
  /\ UNCHANGED <<signers, record>>

Next ==
  \/ \E a \in signers' : Authorize(a)
  \/ \E e \in record' : Write(e) \/ Attest(e)

Spec == Init /\ [][Next]_recordVars
=============================================================================
