------------------------------- MODULE Ledger -------------------------------
(***************************************************************************)
(* What the generator promises of migration history, without files: a      *)
(* project has a ledger of schema transitions that starts at the schema it *)
(* was first generated from and only ever grows at its end, by the one     *)
(* transition from the schema it vouches for to the next.  A developer may *)
(* save the ledger, go back to the saved one, or lose it.                  *)
(***************************************************************************)
EXTENDS Naturals

CONSTANTS Schemas, Numbers, None

VARIABLES ledger,  \* [base, links, top], or None
          saved

ledgerVars == <<ledger, saved>>

Start(s) == [base |-> s, links |-> {}, top |-> s]
Extended(l, n, s) ==
    [l EXCEPT !.links = @ \cup {[at |-> n, from |-> l.top, to |-> s]}, !.top = s]

LedgerInit == ledger = None /\ saved = None

Open(s) == /\ ledger = None
           /\ ledger' = Start(s) /\ UNCHANGED saved

Advance(n, s) == /\ ledger # None
                 /\ s # ledger.top
                 /\ \A l \in ledger.links : l.at < n
                 /\ ledger' = Extended(ledger, n, s) /\ UNCHANGED saved

Save   == ledger # None /\ saved' = ledger /\ UNCHANGED ledger
Rewind == saved # None /\ ledger' = saved /\ UNCHANGED saved
Lose   == ledger' = None /\ UNCHANGED saved

LedgerNext == \/ \E s \in Schemas : Open(s)
              \/ \E n \in Numbers, s \in Schemas : Advance(n, s)
              \/ Save \/ Rewind \/ Lose

LedgerSpec == LedgerInit /\ [][LedgerNext]_ledgerVars
=============================================================================
