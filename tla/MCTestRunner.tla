---------------------------- MODULE MCTestRunner ----------------------------
(* Areas of a few bytes with a gap after the vectors and the stack, and the *)
(* three ways in which main is called.                                      *)
EXTENDS TestRunner

MCAddresses == {10, 12, 13, 14, 16, 20, 22, 28, 32}
MCStacks == {Top - 4, Top}
MCSuites == {<<"case", "case", "memory guard", "instruction limit",
               "saved register">>,
             <<"fault case">>}
=============================================================================
