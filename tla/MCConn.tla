------------------------------- MODULE MCConn -------------------------------
(* Instances of Conn for TLC.                                              *)
EXTENDS Conn, TLC

MCKinds == {"log", "file"}
MCFilters == {[include |-> {"log"}, exclude |-> {}],
              [include |-> {"file"}, exclude |-> {"log"}],
              NoFilter}
MCSymmetry == Permutations(Runners)
=============================================================================
