--------------------------- MODULE MCMemoryModes ---------------------------
(* All programs of memory_modes.cpp, each in every mode it is given for, and *)
(* the loop of compare_exchange.cpp.                                         *)
EXTENDS MemoryModes
=============================================================================
