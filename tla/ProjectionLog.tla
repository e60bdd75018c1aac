--------------------------- MODULE ProjectionLog ----------------------------
(***************************************************************************)
(* What the critical projection promises, whoever runs it and however      *)
(* often it fails: the log grows one bundle at a time.  A source fact is   *)
(* admitted only behind a fully projected log, and then the facts derived  *)
(* from exactly that log follow it in one step.                            *)
(***************************************************************************)
EXTENDS Naturals, Sequences

CONSTANTS
    Facts, Legacy,  \* the source facts, and the log at the start
    Source(_),      \* the record of a source fact
    FactsIn(_),     \* the source facts of a log
    Effects(_, _)   \* what is derived from a fact behind a log

VARIABLES log, through

Init == log = Legacy /\ through = Len(Legacy)

Admit ==
    /\ through = Len(log)
    /\ \E f \in Facts \ FactsIn(log) : log' = Append(log, Source(f))
    /\ UNCHANGED through

Complete ==
    /\ Len(log) = through + 1
    /\ log' = log \o Effects(SubSeq(log, 1, through), log[Len(log)].fact)
    /\ through' = Len(log')

Next == Admit \/ Complete

Spec == Init /\ [][Next]_<<log, through>>
=============================================================================
