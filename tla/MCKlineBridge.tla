---------------------------- MODULE MCKlineBridge ----------------------------
(***************************************************************************)
(* KlineBridge one direction at a time (the directions meet only in the    *)
(* break, the connection and the error flag, which both runs keep): queues *)
(* of one or two bytes, two data values to tell order and loss, two        *)
(* supported codings and a refused one, breaks of one tick.                *)
(***************************************************************************)
EXTENDS KlineBridge

Data2 == {0, 1}
OneData == {0}
NoData == {}
Startup == [rate |-> 4800, bits |-> 8, stop |-> 1, parity |-> "none"]
MCSupported == [rate |-> {4800, 62500}, bits |-> 5..8, stop |-> {1, 2},
                parity |-> {"none", "odd", "even"}]
MCCodings == { Startup, [Startup EXCEPT !.rate = 62500, !.parity = "even"],
               [Startup EXCEPT !.rate = 62500, !.bits = 16, !.parity = "mark"] }
OneCoding == {Startup}
=============================================================================
