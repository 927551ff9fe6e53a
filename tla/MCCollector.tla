----------------------------- MODULE MCCollector -----------------------------
(* One reporter beside the poll, the regions of both, and one or two peers. *)
EXTENDS Collector

MCBase == [c \in {"myderp", "vpn3-vn"} |-> IF c = "vpn3-vn" THEN "vpn3" ELSE c]
MCHost == [p \in {"p1", "p2"} |-> p]
MCSameHost == [p \in {"p1", "p2"} |-> "localhost"]

Relayed == [answered |-> TRUE, endpoint |-> FALSE, derp |-> "myderp"]
ErrorWithPath == [answered |-> FALSE, endpoint |-> TRUE, derp |-> ""]
MCErrors == {Relayed, ErrorWithPath}

ASSUME NamesAssumption == DistinctNames
=============================================================================
