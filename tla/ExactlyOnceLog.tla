--------------------------- MODULE ExactlyOnceLog ---------------------------
(***************************************************************************)
(* What the bronze layer promises, with no checkpoint, no micro-batch and  *)
(* no crash in sight: every topic is a partitioned log with a cursor, and  *)
(* the table holds each record exactly as often as the cursor passed it.   *)
(* The cursor only moves forward, past records that are still retained,    *)
(* until an operator reopens the topic with a fresh checkpoint.            *)
(***************************************************************************)
EXTENDS Integers

CONSTANTS Topics,      \* the topics ingest() starts a stream for
          Partitions,  \* the partitions of each topic
          MaxOffset    \* bound: records published to one partition

VARIABLES logEnd,    \* [t][p]: the next offset the broker will assign
          logStart,  \* [t][p]: the oldest offset the broker retains
          cursor,    \* [t][p]: the next offset bronze has not captured
          copies     \* [t][p][o]: rows bronze holds for the record at o

vars == <<logEnd, logStart, cursor, copies>>

Offsets == 0 .. MaxOffset

Init == /\ logEnd = [t \in Topics |-> [p \in Partitions |-> 0]]
        /\ logStart = [t \in Topics |-> [p \in Partitions |-> 0]]
        /\ cursor = [t \in Topics |-> [p \in Partitions |-> 0]]
        /\ copies = [t \in Topics |-> [p \in Partitions |-> [o \in Offsets |-> 0]]]

Publish(t, p) == /\ logEnd[t][p] < MaxOffset
                 /\ logEnd' = [logEnd EXCEPT ![t][p] = @ + 1]
                 /\ UNCHANGED <<logStart, cursor, copies>>

Expire(t, p) == /\ logStart[t][p] < logEnd[t][p]
                /\ logStart' = [logStart EXCEPT ![t][p] = @ + 1]
                /\ UNCHANGED <<logEnd, cursor, copies>>

(* The records of topic t between its cursor and `upTo` become rows, all   *)
(* of them in one step; none of them may have been expired unread.         *)
Deliver(t, upTo) ==
    /\ \A p \in Partitions : /\ upTo[p] \in cursor[t][p] .. logEnd[t][p]
                             /\ cursor[t][p] < upTo[p] => cursor[t][p] >= logStart[t][p]
    /\ copies' = [copies EXCEPT ![t] = [p \in Partitions |-> [o \in Offsets |->
                     IF cursor[t][p] <= o /\ o < upTo[p] THEN copies[t][p][o] + 1
                                                         ELSE copies[t][p][o]]]]
    /\ cursor' = [cursor EXCEPT ![t] = upTo]
    /\ UNCHANGED <<logEnd, logStart>>

(* The topics of R are read again from the oldest retained record.         *)
Reopen(R) == /\ cursor' = [t \in Topics |-> IF t \in R THEN logStart[t] ELSE cursor[t]]
             /\ UNCHANGED <<logEnd, logStart, copies>>

Next == \/ \E t \in Topics, p \in Partitions : Publish(t, p) \/ Expire(t, p)
        \/ \E t \in Topics : \E upTo \in [Partitions -> Offsets] : Deliver(t, upTo)
        \/ \E R \in SUBSET Topics : Reopen(R)

Spec == Init /\ [][Next]_vars
=============================================================================
