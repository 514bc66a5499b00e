-------------------------- MODULE KeyProviderProofs --------------------------
(***************************************************************************)
(* Theorems about KeyProvider, for any finite set of requests and any      *)
(* number of TPM connections.                                              *)
(***************************************************************************)
EXTENDS KeyProvider, FiniteSetTheorems, TLAPS

(* Only finitely many connections are open.                                *)
LEMMA OpenFinite == TypeOK => IsFiniteSet(open) /\ Cardinality(open) \in Nat
BY RequestAssumption, FS_Subset, FS_CardinalityType DEF TypeOK

(* Closing a connection leaves no more of them than before.                *)
LEMMA CloseCount ==
  ASSUME TypeOK, NEW r
  PROVE  Cardinality(open \ {r}) <= Sessions
<1>1. IsFiniteSet(open) /\ Cardinality(open) \in Nat /\ Cardinality(open) <= Sessions
  BY OpenFinite DEF TypeOK
<1>2. Cardinality(open \ {r}) \in {Cardinality(open), Cardinality(open) - 1}
  BY <1>1, FS_RemoveElement
<1> QED
  BY <1>1, <1>2, SessionsAssumption

(* A connection is only opened where one is left.                          *)
LEMMA OpenCount ==
  ASSUME TypeOK, NEW r, Cardinality(open) < Sessions
  PROVE  Cardinality(open \cup {r}) <= Sessions
<1>1. IsFiniteSet(open) /\ Cardinality(open) \in Nat
  BY OpenFinite
<1>2. Cardinality(open \cup {r}) \in {Cardinality(open), Cardinality(open) + 1}
  BY <1>1, FS_AddElement
<1> QED
  BY <1>1, <1>2, SessionsAssumption

(* The end of the process closes every connection.                         *)
LEMMA EndTyped ==
  ASSUME TypeOK, NEW state \in {"down", "dead"}, End(state)
  PROVE  TypeOK'
<1>1. pc' \in [Request -> {"new", "lost"} \cup InFlight \cup Answered]
  BY DEF TypeOK, End
<1>2. open' = {} /\ Cardinality({}) <= Sessions
  BY FS_EmptySet, SessionsAssumption DEF End
<1> QED
  BY <1>1, <1>2 DEF TypeOK, End

(* A step that leaves the connections alone.                               *)
LEMMA StepTyped ==
  ASSUME TypeOK, NEW r \in Request, NEW from,
         NEW to \in {"retrieve", "get", "open", "key"},
         Step(r, from, to), UNCHANGED open
  PROVE  TypeOK'
<1>1. PICK end \in {to, "error"} : pc' = [pc EXCEPT ![r] = end]
  BY DEF Step
<1> QED
  BY <1>1 DEF TypeOK, Step, InFlight, Answered

(* The types are inductive as they stand.                                  *)
LEMMA TypeStep ==
  ASSUME TypeOK, [Next]_vars
  PROVE  TypeOK'
<1>1. ASSUME NEW r \in Request, Accept(r) PROVE TypeOK'
  BY <1>1, StepTyped DEF Accept
<1>2. ASSUME NEW r \in Request, RetrieveKeyWithURL(r) PROVE TypeOK'
  BY <1>2, StepTyped DEF RetrieveKeyWithURL
<1>3. ASSUME NEW r \in Request, GetKeyWithURL(r) PROVE TypeOK'
  BY <1>3, StepTyped DEF GetKeyWithURL
<1>4. ASSUME NEW r \in Request, OpenTpm(r) PROVE TypeOK'
  <2>1. Cardinality(open') <= Sessions
    BY <1>4, OpenCount DEF OpenTpm
  <2> QED
    BY <1>4, <2>1 DEF TypeOK, OpenTpm, InFlight
<1>5. ASSUME NEW r \in Request, OpenTpmPanics(r) PROVE TypeOK'
  BY <1>5, EndTyped DEF OpenTpmPanics
<1>6. ASSUME NEW r \in Request, Unbind(r) PROVE TypeOK'
  <2>1. Cardinality(open') <= Sessions
    BY <1>6, CloseCount DEF Unbind
  <2>2. PICK end \in {"decrypt", "error"} : pc' = [pc EXCEPT ![r] = end]
    BY <1>6 DEF Unbind, Step
  <2> QED
    BY <1>6, <2>1, <2>2 DEF TypeOK, Unbind, Step, InFlight, Answered
<1>7. ASSUME NEW r \in Request, AesDecrypt(r) PROVE TypeOK'
  BY <1>7, StepTyped DEF AesDecrypt
<1>8. ASSUME Signal \/ WaitEnds PROVE TypeOK'
  BY <1>8 DEF TypeOK, Signal, WaitEnds
<1>9. ASSUME GracefulStop PROVE TypeOK'
  BY <1>9, EndTyped DEF GracefulStop
<1>10. ASSUME UNCHANGED vars PROVE TypeOK'
  BY <1>10 DEF TypeOK, vars
<1> QED
  BY <1>1, <1>2, <1>3, <1>4, <1>5, <1>6, <1>7, <1>8, <1>9, <1>10 DEF Next, Work

(* There are never more connections to the TPM than it takes.              *)
THEOREM TypeCorrect == Spec => []TypeOK
<1>1. Init => TypeOK
  <2>1. Cardinality({}) <= Sessions
    BY FS_EmptySet, SessionsAssumption
  <2> QED
    BY <2>1 DEF Init, TypeOK
<1> QED
  BY <1>1, TypeStep, PTL DEF Spec
=============================================================================
