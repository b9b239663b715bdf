---------------------------- MODULE MCVirtualDisk ----------------------------
(* VirtualDisk with the device's own geometry. *)
EXTENDS VirtualDisk

(* Lengths at which a file of BOM and payload changes its sectors or clusters. *)
Lengths == <<0, 1, 509, 510, 1021, 1022, 2045, 2046, 3069, 3070, 4093, 4094, 4096>>

LogOf(n) == [i \in 0..(n - 1) |-> Lengths[1 + (i % 13)]]

Normal(length, n) ==
  [latest |-> length, log |-> LogOf(n), analyzer |-> FALSE, json |-> 0, raw |-> TRUE,
   debug |-> 0]

Analyzed(json, raw, debug) ==
  [latest |-> 1, log |-> LogOf(3), analyzer |-> TRUE, json |-> json, raw |-> raw,
   debug |-> debug]

MCViews ==
  {Normal(Lengths[i], i - 1) : i \in 1..13}
    \cup {Normal(4096, n) : n \in {499, 500}}
    \cup {Analyzed(j, r, d) : j \in {0, 1, 512, 1025, 32767}, r \in BOOLEAN,
                              d \in {0, 513, 2047}}
=============================================================================
