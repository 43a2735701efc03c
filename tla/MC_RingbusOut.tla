--------------------------- MODULE MC_RingbusOut ---------------------------
(* The EventDsp thread and a JavaScript caller share the queue, the        *)
(* EventDsp thread and the zmq thread (with the words of another node) the *)
(* FPGA "parse".                                                           *)
EXTENDS RingbusOut

MCProgram ==
    [dsp |-> <<[fpga |-> "parse", op |-> "set2", val |-> 2],
               [fpga |-> "peer", op |-> "add0", val |-> 1],
               [fpga |-> "peer", op |-> "add0", val |-> 2]>>,
     js  |-> <<[fpga |-> "fft", op |-> "set5", val |-> 1]>>,
     zmq |-> <<[fpga |-> "parse", op |-> "set3", val |-> 3]>>]
=============================================================================
