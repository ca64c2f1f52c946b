--------------------------- MODULE AutomationTable ---------------------------
(***************************************************************************)
(* What the automations table promises to its readers, the engine and the  *)
(* status views: definitions are added under new ids, changed in place or  *)
(* removed, one row at a time except for the built-in ones, which come     *)
(* together; two rows never share a name, and the id of a removed row is   *)
(* never seen again.                                                       *)
(***************************************************************************)
EXTENDS Integers

CONSTANT Existing   \* the rows at the start, a function from ids

VARIABLES
  table,  \* a function from ids to definitions
  ever    \* the ids that have ever been in the table

vars == <<table, ever>>

\* name is declared unique.
NamesDiffer ==
  \A i, j \in DOMAIN table : table[i].name = table[j].name => i = j

Init == table = Existing /\ ever = DOMAIN Existing

Add ==
  /\ DOMAIN table \subseteq DOMAIN table'
  /\ \A i \in DOMAIN table : table'[i] = table[i]
  /\ (DOMAIN table' \ DOMAIN table) \cap ever = {}
  /\ ever' = ever \cup DOMAIN table'
  /\ NamesDiffer'

Change(i) ==
  /\ DOMAIN table' = DOMAIN table
  /\ \A j \in DOMAIN table \ {i} : table'[j] = table[j]
  /\ NamesDiffer'
  /\ UNCHANGED ever

Remove(i) ==
  /\ table' = [j \in DOMAIN table \ {i} |-> table[j]]
  /\ UNCHANGED ever

Next ==
  \/ Add
  \/ \E i \in DOMAIN table : Change(i) \/ Remove(i)

Spec == Init /\ [][Next]_vars
=============================================================================
