----------------------------- MODULE MCPciTables ------------------------------
(* A card of two functions, a card behind a sibling port, and one function *)
(* of the root bus.                                                        *)
EXTENDS PciTables

MCRootFn == {10}
MCCardFn == {0, 1}
MCSiblingFn == {20}
=============================================================================
