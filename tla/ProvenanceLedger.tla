-------------------------- MODULE ProvenanceLedger --------------------------
(***************************************************************************)
(* What the export-provenance manifest promises, whatever the exporters of *)
(* one directory do and wherever they stop: a ledger of receipts that a    *)
(* commit changes in one step, for one output family only, and that a      *)
(* power loss takes back by at most the last commit.                       *)
(*                                                                         *)
(* This is a specification of intent, not a translation: ExportProvenance  *)
(* is the code, and is shown to implement this module.                     *)
(***************************************************************************)
EXTENDS Naturals

CONSTANTS
    Names,      \* basenames of one export directory
    Families,   \* logical outputs
    FamilyOf,   \* the family a basename belongs to
    Layouts,    \* the sets of basenames one export can write
    Intervals,  \* requested windows
    Digests,    \* file contents, by hash
    NoEntry,    \* a basename the manifest does not list
    Malformed   \* a manifest no reader can parse

VARIABLES
    ledger,     \* the manifest a reader finds now
    mayRemain   \* the manifests a power loss could leave behind

ledgerVars == <<ledger, mayRemain>>

Receipt == [interval: Intervals, digest: Digests]

EmptyLedger == [generation |-> 0, entries |-> [n \in Names |-> NoEntry]]

Init ==
    /\ ledger = EmptyLedger
    /\ mayRemain = {EmptyLedger}

(* One export of family f is receipted: every other family keeps its       *)
(* entries, the family's previous entries are gone, and the previous       *)
(* ledger was already beyond the reach of a power loss.                    *)
Commit(f, receipts) ==
    LET next == [generation |-> ledger.generation + 1,
                 entries |-> [n \in Names |->
                     IF n \in DOMAIN receipts THEN receipts[n]
                     ELSE IF FamilyOf[n] = f THEN NoEntry
                     ELSE ledger.entries[n]]]
    IN /\ ledger # Malformed
       /\ mayRemain = {ledger}
       /\ ledger' = next
       /\ mayRemain' = {ledger, next}

Settle ==
    /\ mayRemain' = {ledger}
    /\ UNCHANGED ledger

PowerLoss ==
    /\ ledger' \in mayRemain
    /\ mayRemain' = {ledger'}

Damage ==
    /\ ledger' = Malformed
    /\ mayRemain' = {Malformed}

Next ==
    \/ \E f \in Families, layout \in Layouts :
          /\ \A n \in layout : FamilyOf[n] = f
          /\ \E receipts \in [layout -> Receipt] : Commit(f, receipts)
    \/ Settle
    \/ PowerLoss
    \/ Damage

Spec == Init /\ [][Next]_ledgerVars
=============================================================================
