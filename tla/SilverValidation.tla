-------------------------- MODULE SilverValidation --------------------------
(***************************************************************************)
(* What a record meets before SilverClean takes it for clean or malformed: *)
(* from_json parses it against the topic's schema (bronze_ingest.py), then *)
(* the topic's validator either rejects it with a reason or lets it        *)
(* through (silver_clean.py).  A column on the wire is good, absent, of    *)
(* the wrong type, or out of the range the validator names; in a row it    *)
(* may also be SQL's NULL, and a comparison with NULL is neither true nor  *)
(* false.                                                                  *)
(*                                                                         *)
(* Parser and validators are functions of one record: this module says     *)
(* what they make of it, and the two queries of SilverClean, which both    *)
(* apply them to every batch, say where it goes.                           *)
(***************************************************************************)
EXTENDS SilverClean, FiniteSetsExt

CONSTANTS Topic,    \* the topic whose queries these are
          Wire      \* each record as published; <<>>: not JSON at all

NULL == "NULL"

Topics == {"orders", "inventory_updates", "delivery_status"}

(* What a publisher may put in a column, after ORDER_SCHEMA and the other  *)
(* two; from_json casts anything to StringType, so a string column is      *)
(* never mistyped.                                                         *)
Faults(column) ==
    CASE column \in {"event_id", "store_id", "order_id", "sku"} -> {"absent"}
      [] column = "event_time" -> {"absent", "mistyped"}
      [] column \in {"status", "stage"} -> {"absent", "unknown"}
      [] column = "order_value" -> {"absent", "mistyped", "negative", "implausible"}
      [] column \in {"line_count", "new_level", "minutes_since_order"} ->
            {"absent", "mistyped", "negative"}

(* The validators: the branches of the F.when chain, in order.             *)
Rule(column, test, name) == [column |-> column, test |-> test, reason |-> name]

Rules(t) ==
    CASE t = "orders" ->
           <<Rule("event_id", NULL, "missing_event_id"),
             Rule("event_time", NULL, "missing_event_time"),
             Rule("store_id", NULL, "missing_store_id"),
             Rule("order_value", "negative", "order_value_negative"),
             Rule("order_value", "implausible", "order_value_implausible"),
             Rule("status", "unknown", "unknown_status"),
             Rule("line_count", "negative", "negative_line_count")>>
      [] t = "inventory_updates" ->
           <<Rule("event_id", NULL, "missing_event_id"),
             Rule("event_time", NULL, "missing_event_time"),
             Rule("store_id", NULL, "missing_store_id"),
             Rule("sku", NULL, "missing_sku"),
             Rule("new_level", "negative", "negative_inventory")>>
      [] t = "delivery_status" ->
           <<Rule("event_id", NULL, "missing_event_id"),
             Rule("event_time", NULL, "missing_event_time"),
             Rule("order_id", NULL, "missing_order_id"),
             Rule("stage", "unknown", "unknown_stage"),
             Rule("minutes_since_order", "negative", "negative_elapsed")>>

Columns(t) == {Rules(t)[i].column : i \in DOMAIN Rules(t)}

Published(w) == \/ w = <<>>
                \/ /\ DOMAIN w = Columns(Topic)
                   /\ \A c \in Columns(Topic) : w[c] \in {"good"} \cup Faults(c)

(* parse_topic: a column that cannot be read is NULL; a value that is not  *)
(* JSON gives a row of NULLs.  No row is dropped.                          *)
ParseWhole(w, c) == IF \E d \in DOMAIN w : w[d] = "mistyped" THEN NULL   \* mutant: all or nothing
                    ELSE IF w = <<>> THEN NULL ELSE w[c]
ParseColumn(w, c) == IF w = <<>> THEN NULL
                     ELSE IF w[c] \in {"absent", "mistyped"} THEN NULL ELSE w[c]

Row == [r \in Records |-> [c \in Columns(Topic) |-> ParseColumn(Wire[r], c)]]

(* isNull() is always true or false; <, > and ~isin() of NULL are NULL.    *)
Test(rule, r) ==
    LET v == r[rule.column]
    IN  IF rule.test # NULL /\ v = NULL THEN NULL
        ELSE IF v = rule.test THEN "true" ELSE "false"

Hits(t, r) == {i \in DOMAIN Rules(t) : Test(Rules(t)[i], r) = "true"}

(* F.when takes the first branch that is true; otherwise(None).            *)
SkipFirst(t, r) == LET later == Hits(t, r) \ {1}      \* mutant: off by one in the chain
                   IN  IF later = {} THEN NULL ELSE Rules(t)[Min(later)].reason
Reason(t, r) == IF Hits(t, r) = {} THEN NULL ELSE Rules(t)[Min(Hits(t, r))].reason

(* clean and dead_letter: _dead_letter_reason isNull and isNotNull.        *)
DeadLetterReason == [r \in Records |-> Reason(Topic, Row[r])]
Rejected == {r \in Records : DeadLetterReason[r] # NULL}

ASSUME ValidationAssumption == /\ Topic \in Topics
                               /\ \A r \in Records : Published(Wire[r])
                               /\ Malformed = Rejected

-----------------------------------------------------------------------------
(* Properties.                                                             *)

AtFault(rule, w) == \/ w = <<>>
                    \/ w[rule.column] = rule.test
                    \/ rule.test = NULL /\ w[rule.column] \in {"absent", "mistyped"}

(* A dead letter's reason is a diagnosis: the column it names was at fault *)
(* in the record as published, whatever else was (silver_clean.py, 40-43). *)
ReasonIsTrue ==
    \A r \in Records : dead[r] > 0 =>
        \E i \in DOMAIN Rules(Topic) :
            Rules(Topic)[i].reason = DeadLetterReason[r] /\ AtFault(Rules(Topic)[i], Wire[r])

(* Dedup, watermark and every downstream join may rely on their keys: what *)
(* is in silver has the columns the validator requires, and no value that  *)
(* the validator names as out of range, however many faults it has.        *)
OnlyValidInSilver ==
    \A r \in Records : silver[r] > 0 =>
        \A i \in DOMAIN Rules(Topic) :
            LET rule == Rules(Topic)[i]
            IN  IF rule.test = NULL THEN Row[r][rule.column] # NULL
                                   ELSE Wire[r][rule.column] # rule.test
=============================================================================
