---------------------------- MODULE MCRecordPage ----------------------------
(***************************************************************************)
(* Pages of 20 bytes and words of two: up to four records.  MCRecords has  *)
(* the records of up to two bytes, one of four words, one that just fits   *)
(* the empty page and two that do not, MCLongRecords one so long that two  *)
(* of them are more than a page, MCMaxRecords those of about               *)
(* RECORD_MAX_SIZE.                                                        *)
(***************************************************************************)
EXTENDS RecordPage

MCRecords == UNION {[1..n -> {0, 1}] : n \in 0..2} \cup {[i \in 1..n |-> 7] : n \in {8, 10, 11, 19}}
MCLongRecords == {[i \in 1..n |-> 1] : n \in {1, 10}}
MCMaxRecords == {[i \in 1..n |-> 1] : n \in {10, 11, 12}}
=============================================================================
