------------------------- MODULE VersionedRegistry -------------------------
(***************************************************************************)
(* What Store promises of a dataset: definitions are published one after   *)
(* the other, each in one step, with the next version number, with every   *)
(* column of the one before it, and none is ever changed or forgotten.     *)
(***************************************************************************)
EXTENDS Integers

CONSTANT Column    \* records with a name and a type

VARIABLES
    current,   \* the latest version and its columns; version 0: none yet
    versions   \* every version's columns

NoNameTwice(def) == \A c, d \in def : c.name = d.name => c = d

Init ==
    /\ current = [version |-> 0, columns |-> {}]
    /\ versions = [v \in {} |-> {}]

Publish(def) ==
    /\ def # {} /\ NoNameTwice(def) /\ current.columns \subseteq def
    /\ current' = [version |-> current.version + 1, columns |-> def]
    /\ versions' = [v \in 1..(current.version + 1) |->
                       IF v <= current.version THEN versions[v] ELSE def]

Next == \E def \in SUBSET Column : Publish(def)

Spec == Init /\ [][Next]_<<current, versions>>
=============================================================================
