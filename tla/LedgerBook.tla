----------------------------- MODULE LedgerBook -----------------------------
(***************************************************************************)
(* What the ledger promises, with no process that forgets, no requests and *)
(* no queries on their way: a book to which entries are only ever added    *)
(* at the end, and a store that holds entries of the book and lets none    *)
(* go.                                                                     *)
(*                                                                         *)
(* EscrowLedger implements this module.                                    *)
(***************************************************************************)
EXTENDS Naturals, Sequences

CONSTANT Entries

VARIABLES
    written,    \* every entry that was acknowledged, in order
    kept        \* positions of the entries in the store

bookVars == <<written, kept>>

BookInit == written = <<>> /\ kept = {}

Write(entry) ==
    /\ written' = Append(written, entry)
    /\ UNCHANGED kept

Keep(n) ==
    /\ n \in 1 .. Len(written)
    /\ kept' = kept \cup {n}
    /\ UNCHANGED written

BookNext ==
    \/ \E entry \in Entries : Write(entry)
    \/ \E n \in 1 .. Len(written) : Keep(n)

BookSpec == BookInit /\ [][BookNext]_bookVars

=============================================================================
