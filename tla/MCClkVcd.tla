------------------------------ MODULE MCClkVcd ------------------------------
(* ClkVcd with a clock, a vector of two bits, and the variables of interest*)
(* in two variants: all different, or two names of one net.                *)
EXTENDS ClkVcd

MCSizes == [c \in {"clk", "bus"} |-> IF c = "bus" THEN 2 ELSE 1]
MCSmallSizes == [c \in {"clk", "net"} |-> 1]
MCWritten == {<<1>>, <<X>>, <<1, 0>>, <<0>>}
MCVars == <<"bus", "clk">>
MCAliased == <<"net", "clk", "net">>
=============================================================================
