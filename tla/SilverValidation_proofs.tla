----------------------- MODULE SilverValidation_proofs -----------------------
(***************************************************************************)
(* Theorems of SilverValidation, for any records on the wire of any topic: *)
(* what the two queries of SilverClean, whose invariants are proved in     *)
(* SilverClean_proofs, make of what the validator says of a record.        *)
(***************************************************************************)
EXTENDS SilverValidation, SilverClean_proofs, AggregateTheorems

(* What a topic's rules are, as far as the order of their tests goes.      *)
LEMMA RulesInOrder ==
    ASSUME NEW t \in Topics
    PROVE  LET rules == Rules(t)
           IN  /\ \E n \in {5, 7} : DOMAIN rules = 1 .. n
               /\ rules[1].test = NULL
               /\ \A i \in DOMAIN rules :
                     /\ rules[i].test \in {NULL, "negative", "implausible", "unknown"}
                     /\ rules[i].reason # NULL
<1> USE DEF Rules, Rule, NULL
<1>1. CASE t = "orders"
  BY <1>1
<1>2. CASE t = "inventory_updates"
  BY <1>2
<1>3. CASE t = "delivery_status"
  BY <1>3
<1> QED
  BY <1>1, <1>2, <1>3 DEF Topics

(* The branch that F.when takes is the first of those that are true.       *)
LEMMA FirstHit ==
    ASSUME NEW t \in Topics, NEW r, Hits(t, r) # {}
    PROVE  \E i \in Hits(t, r) : Reason(t, r) = Rules(t)[i].reason
<1> DEFINE H == Hits(t, r)
<1>1. H \in SUBSET Nat /\ IsFiniteSet(H) /\ H # {}
  <2>1. PICK n \in {5, 7} : DOMAIN Rules(t) = 1 .. n
    BY RulesInOrder
  <2>2. H \subseteq 1 .. n
    BY <2>1 DEF Hits
  <2>3. IsFiniteSet(1 .. n) /\ 1 .. n \subseteq Nat
    BY FS_Interval
  <2>4. IsFiniteSet(H)
    BY <2>2, <2>3, FS_Subset
  <2> QED
    BY <2>2, <2>3, <2>4
<1> HIDE DEF H
<1>2. Min(H) \in H
  <2>1. \E x \in H : \A y \in H : x <= y
    <3> DEFINE f == [i \in H |-> -i]
    <3>1. \A i \in H : f[i] \in Int
      BY <1>1
    <3> HIDE DEF f
    <3>2. PICK x \in H : \A y \in H : f[y] <= f[x]
      BY <1>1, <3>1, Greatest
    <3> QED
      BY <1>1, <3>2 DEF f
  <2> QED
    BY <2>1 DEF Min
<1> QED
  BY <1>1, <1>2 DEF Reason, H

(* A record without a reason hits no rule.                                 *)
LEMMA NoReasonNoHit ==
    ASSUME NEW t \in Topics, NEW r, Reason(t, r) = NULL
    PROVE  Hits(t, r) = {}
<1>1. SUFFICES ASSUME Hits(t, r) # {} PROVE FALSE
  OBVIOUS
<1>2. PICK j \in Hits(t, r) : Reason(t, r) = Rules(t)[j].reason
  BY <1>1, FirstHit
<1>3. j \in DOMAIN Rules(t)
  BY <1>2 DEF Hits
<1> QED
  BY <1>2, <1>3, RulesInOrder

(* The only records that are dead-lettered are those with a reason.        *)
OnlyRejectedDead == \A r \in Records : dead[r] > 0 => r \in Malformed

LEMMA DeadAreRejected == Spec => []OnlyRejectedDead
<1>1. Init => OnlyRejectedDead
  BY DEF Init, OnlyRejectedDead
<1>2. OnlyRejectedDead /\ [Next]_vars => OnlyRejectedDead'
  <2> SUFFICES ASSUME OnlyRejectedDead, [Next]_vars PROVE OnlyRejectedDead'
    OBVIOUS
  <2>1. CASE dead' = dead
    BY <2>1 DEF OnlyRejectedDead
  <2>2. CASE DeadSink
    <3>1. ASSUME NEW r \in Records, r \notin Malformed PROVE dead'[r] = dead[r]
      BY <2>2, <3>1 DEF DeadSink
    <3> QED
      BY <3>1 DEF OnlyRejectedDead
  <2> QED
    BY <2>1, <2>2 DEF Next, Arrive, SilverStep, Plan, Sink, Commit, DeadStep, DeadPlan, DeadCommit,
                      Start, Crash, vars, deadQuery
<1> QED
  BY <1>1, <1>2, PTL DEF Spec

(* Whatever faults a record has at once, the reason its dead letter gives  *)
(* is one of them (silver_clean.py, 40-43).                                *)
THEOREM ReasonsAreTrue == Spec => []ReasonIsTrue
<1>1. ASSUME OnlyRejectedDead PROVE ReasonIsTrue
  <2> SUFFICES ASSUME NEW r \in Records, dead[r] > 0
               PROVE  \E i \in DOMAIN Rules(Topic) :
                         /\ Rules(Topic)[i].reason = DeadLetterReason[r]
                         /\ AtFault(Rules(Topic)[i], Wire[r])
    BY DEF ReasonIsTrue
  <2>1. Topic \in Topics /\ Reason(Topic, Row[r]) # NULL /\ DeadLetterReason[r] = Reason(Topic, Row[r])
    BY <1>1, ValidationAssumption DEF OnlyRejectedDead, Rejected, DeadLetterReason
  <2>2. Hits(Topic, Row[r]) # {}
    BY <2>1 DEF Reason
  <2>3. PICK i \in Hits(Topic, Row[r]) : Reason(Topic, Row[r]) = Rules(Topic)[i].reason
    BY <2>1, <2>2, FirstHit
  <2> DEFINE rule == Rules(Topic)[i]
  <2>4. i \in DOMAIN Rules(Topic) /\ Test(rule, Row[r]) = "true"
    BY <2>3 DEF Hits
  <2>5. Row[r][rule.column] = ParseColumn(Wire[r], rule.column)
    BY <2>4 DEF Columns, Row
  <2>6. AtFault(rule, Wire[r])
    <3> HIDE DEF rule
    <3> QED
      BY <2>4, <2>5 DEF Test, ParseColumn, AtFault, NULL
  <2> QED
    BY <2>1, <2>3, <2>4, <2>6
<1> QED
  BY <1>1, DeadAreRejected, PTL

(* No combination of faults hides one of them: a row in silver has all the *)
(* columns its topic requires, and no value the rules name.                *)
THEOREM SilverIsValid == Spec => []OnlyValidInSilver
<1>1. ASSUME Types, MalformedQuarantined PROVE OnlyValidInSilver
  <2> SUFFICES ASSUME NEW r \in Records, silver[r] > 0, NEW i \in DOMAIN Rules(Topic),
                      NEW rule, rule = Rules(Topic)[i]
               PROVE  IF rule.test = NULL THEN Row[r][rule.column] # NULL
                                                     ELSE Wire[r][rule.column] # rule.test
    BY DEF OnlyValidInSilver
  <2>1. r \notin Malformed
    BY <1>1 DEF MalformedQuarantined
  <2>2. Topic \in Topics /\ Reason(Topic, Row[r]) = NULL
    BY <2>1, ValidationAssumption DEF Rejected, DeadLetterReason
  <2>3. Hits(Topic, Row[r]) = {}
    BY <2>2, NoReasonNoHit
  <2>4. \A j \in DOMAIN Rules(Topic) :
           LET c == Rules(Topic)[j].column
           IN  /\ Test(Rules(Topic)[j], Row[r]) # "true"
               /\ Row[r][c] = ParseColumn(Wire[r], c)
    BY <2>3 DEF Hits, Columns, Row
  <2>5. rule.test \in {NULL, "negative", "implausible", "unknown"}
    BY <2>2, RulesInOrder
  <2>6. Wire[r] # <<>>
    <3>1. 1 \in DOMAIN Rules(Topic) /\ Rules(Topic)[1].test = NULL
      BY <2>2, RulesInOrder
    <3> QED
      BY <2>4, <3>1 DEF Test, ParseColumn
  <2>7. Test(rule, Row[r]) # "true" /\ Row[r][rule.column] = ParseColumn(Wire[r], rule.column)
    BY <2>4
  <2> QED
    BY <2>5, <2>6, <2>7 DEF Test, ParseColumn, NULL
<1> QED
  BY <1>1, DeadLettersComplete, Invariant, PTL DEF IInv
=============================================================================
