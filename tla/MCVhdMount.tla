----------------------------- MODULE MCVhdMount -----------------------------
(* Instances of VhdMount: every command line with up to two methods.        *)
EXTENDS VhdMount, FiniteSets

Asked(c) == {f \in {"upper", "squash"} : c[f]} \cup {f \in {"kloop", "vloop"} : c[f] # "no"}

MCCommandLines ==
    {c \in CommandLine :
        /\ Cardinality(Asked(c)) <= 2
        /\ c.work => c.upper
        /\ c.klvm => c.kloop # "no"
        /\ c.fstype => (c.kloop # "no" \/ c.vloop # "no")}
=============================================================================
