------------------------------ MODULE MCCprman ------------------------------
(* Two PLLs with a channel each, the DSI0HSCK mux between them, and three  *)
(* muxes whose registers are four words apart, as those of TD0, TSENS and  *)
(* UART are; TD0 feeds UART.                                               *)
EXTENDS Cprman

MCParentOf == [plla_dsi0 |-> "plla", plld_dsi0 |-> "plld"]
MCDsiInput == [b \in BOOLEAN |-> IF b THEN "plld_dsi0" ELSE "plla_dsi0"]
MCMuxSeq == <<"td0", "tsens", "uart">>
MCCtlWord == [td0 |-> 52, tsens |-> 56, uart |-> 60]
MCSourcesOf == [td0   |-> [s \in {0, 4} |-> IF s = 0 THEN "gnd" ELSE "plla_dsi0"],
                tsens |-> [s \in {0, 1} |-> IF s = 0 THEN "gnd" ELSE "xosc"],
                uart  |-> [s \in {0, 2, 5} |-> CASE s = 0 -> "gnd" [] s = 2 -> "td0"
                                                [] s = 5 -> "dsi0hsck"]]
MCOrder == <<"plla", "plld", "plla_dsi0", "plld_dsi0", "dsi0hsck", "td0", "tsens", "uart">>
MCResetRegs ==
  [ZeroRegs EXCEPT !.a2w = [p \in Pll |-> [pwrdn |-> p = "plld", mult |-> 2]],
                   !.chan = [c \in Chan |-> [disable |-> FALSE, div |-> 1]],
                   !.div = [m \in Mux |-> 1]]
=============================================================================
