------------------------- MODULE MCDevelopmentEvidence -------------------------
(***************************************************************************)
(* DevelopmentEvidence over nine sessions in months of two days.  Early    *)
(* and late differ in where training ends, and so in which range request   *)
(* spans more than one month; uneven has a closing quote too many.         *)
(***************************************************************************)
EXTENDS DevelopmentEvidence

late   == [trainStart |-> 0, trainEnd |-> 2, validationEnd |-> 5, testEnd |-> 8]
early  == [trainStart |-> 0, trainEnd |-> 1, validationEnd |-> 4, testEnd |-> 8]
uneven == [trainStart |-> 0, trainEnd |-> 1, validationEnd |-> 5, testEnd |-> 8]

MCSessions    == 0 .. 8
MCScheduled   == {1, 3, 5, 7}
MCFrozenShape == [range |-> 2, training |-> 1, validation |-> 1]
MCConfigs     == {late, early, uneven}
MCPilotKeys   == {[kind |-> "closing_quote", start |-> 1, end |-> 2]}
MCCosts       == [range |-> {1, 3}, closing_quote |-> {1}]

=============================================================================
