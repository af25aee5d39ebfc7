--------------------------- MODULE ReadCacheProofs --------------------------
(* Lemmas about the scripts of ReadCache, for the proofs about their       *)
(* callers (CacheFenceProofs, CacheRuntimeProofs).                         *)
EXTENDS ReadCache, TLAPS

(* ADMIT stops short of the last epoch.                                    *)
LEMMA NextEpoch ==
  ASSUME NEW n \in 0..MaxEpoch, n # MaxEpoch
  PROVE  n + 1 \in 0..MaxEpoch
BY MaxEpochAssumption

(* A control key deleted, overwritten or spoilt by hand.                   *)
LEMMA DamagedControl ==
  ASSUME control \in Control
  PROVE  /\ Unusable("none") \in Control
         /\ Unusable("other") \in Control
         /\ [control EXCEPT !.kind = "bad"] \in Control
         /\ [control EXCEPT !.stray = TRUE] \in Control
<1>1. 0 \in 0..MaxEpoch
  BY MaxEpochAssumption
<1>2. NoWriters \in [Tokens -> 0..MaxEpoch]
  BY <1>1 DEF NoWriters
<1>3. Unusable("none") \in Control /\ Unusable("other") \in Control
  BY <1>1, <1>2 DEF Unusable, Control
<1>4. [control EXCEPT !.kind = "bad"] \in Control
  BY DEF Control
<1>5. [control EXCEPT !.stray = TRUE] \in Control
  BY DEF Control
<1>6. QED
  BY <1>3, <1>4, <1>5

(* The values the scripts leave in the control key are control hashes.     *)
LEMMA ControlValues ==
  ASSUME NEW old \in Identities, NEW new \in Identities,
         NEW left \in SUBSET Tokens, NEW strayLeft \in BOOLEAN,
         control \in Control
  PROVE  /\ FreshControl(new) \in Control
         /\ Fenced(old) \in Control
         /\ HalfFenced(old) \in Control
         /\ Opened(old, new, left, strayLeft) \in Control
<1>1. 0 \in 0..MaxEpoch
  BY MaxEpochAssumption
<1>2. NoWriters \in [Tokens -> 0..MaxEpoch]
  BY <1>1 DEF NoWriters
<1>3. FreshControl(new) \in Control
  BY <1>1, <1>2 DEF FreshControl, Control
<1>4. Fenced(old) \in Control
  BY <1>1 DEF Fenced, Control
<1>5. [t \in Tokens |-> IF t \in left THEN control.writers[t] ELSE 0]
        \in [Tokens -> 0..MaxEpoch]
  BY <1>1 DEF Control
<1>6. (control.stray /\ strayLeft) \in BOOLEAN
  OBVIOUS
<1>7. Opened(old, new, left, strayLeft) \in Control
  BY <1>4, <1>5, <1>6 DEF Opened, Control
<1>8. HalfFenced(old) \in Control
  <2>1. Unusable("none") \in Control
    BY DamagedControl
  <2>2. [Fenced(old) EXCEPT !.kind = "bad"] \in Control
    BY <1>4 DEF Control
  <2>3. QED
    BY <1>4, <2>1, <2>2 DEF HalfFenced
<1>9. QED
  BY <1>3, <1>4, <1>7, <1>8

(* RECOVER's first commands leave the cache in maintenance, whatever was   *)
(* there before.                                                           *)
LEMMA FencedIsClosed ==
  ASSUME NEW old \in Identities, control \in Control
  PROVE  Fenced(old).state = "maintenance" /\ HalfFenced(old).state = "maintenance"
<1>1. Fenced(old) \in Control /\ Fenced(old).state = "maintenance"
  BY ControlValues DEF Fenced, Control
<1>2. CASE control.kind = "other"
  BY <1>1, <1>2 DEF HalfFenced, Unusable
<1>3. CASE control.kind = "bad"
  <2>1. [Fenced(old) EXCEPT !.kind = "bad"].state = "maintenance"
    BY <1>1 DEF Control
  <2>2. HalfFenced(old) = [Fenced(old) EXCEPT !.kind = "bad"]
    BY <1>3 DEF HalfFenced
  <2>3. QED
    BY <1>1, <2>1, <2>2
<1>4. CASE control.kind \notin {"other", "bad"}
  BY <1>1, <1>4 DEF HalfFenced
<1>5. QED
  BY <1>2, <1>3, <1>4
============================================================================
