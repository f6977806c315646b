------------------------------ MODULE MCLedger ------------------------------
(***************************************************************************)
(* Instances of Ledger for model checking, with the database files the     *)
(* runs start from.                                                        *)
(***************************************************************************)
EXTENDS Ledger

CONSTANTS
    InitialKinds,   \* which generations of ledger file may be found on disk
    InitialRows     \* bound: rows of a table found on disk

(* Ledger files as earlier runs left them: not yet written; rows without a *)
(* chain; an old chain without heads; an old chain that this version has   *)
(* anchored; a chain this version wrote.                                   *)
OldContent(i) == [body |-> i, ext |-> "default"]

(* The hash the version that wrote an old chained row would have stored.   *)
OldHash(legacy) ==
    LET h[i \in 0..InitialRows] ==
          IF i = 0 THEN EmptyHash
          ELSE ChainHash(h[i - 1], i, IF legacy THEN LegacyContentJson(OldContent(i))
                                                ELSE ContentJson(OldContent(i)))
    IN  h

OldRows(n, h) ==
    [i \in 1..n |-> [content |-> OldContent(i), prev |-> h[i - 1], hash |-> h[i]]]

InitialTable(kind, t, n) ==
    CASE kind = "fresh" ->
           [cols |-> Column, rows |-> <<>>, head |-> NoHead]
      [] kind = "unchained" ->
           [cols |-> {}, rows |-> OldRows(n, [i \in 0..InitialRows |-> EmptyHash]),
            head |-> NoHead]
      [] kind = "unanchored" ->
           [cols |-> {"prev_hash", "row_hash"},
            rows |-> OldRows(n, OldHash(t \in Extended)), head |-> NoHead]
      [] kind = "legacy" ->
           [cols |-> Column, rows |-> OldRows(n, OldHash(t \in Extended)),
            head |-> [count |-> n, hash |-> OldHash(t \in Extended)[n]]]
      [] kind = "anchored" ->
           [cols |-> Column, rows |-> OldRows(n, OldHash(FALSE)),
            head |-> [count |-> n, hash |-> OldHash(FALSE)[n]]]

Files ==
    {[t \in Table |-> InitialTable(kind[t], t, n[t])] :
        kind \in [Table -> InitialKinds], n \in [Table -> 0..InitialRows]}

OneTable == <<"certificates">>
TwoTables == <<"certificates", "paradox_results">>
SacrificeTable == <<"declared_sacrifices">>
=============================================================================
