------------------------- MODULE MCCountedPipeline -------------------------
(***************************************************************************)
(* Instances of the pipeline with its counters for TLC.                    *)
(***************************************************************************)
EXTENDS CountedPipeline, MCPrograms

EndAt52 == 52

(* Every instruction that changes or depends on the privilege mode, with   *)
(* mstatus and mepc accesses at any distance: too wild for the comparison  *)
(* with the instruction-level simulator, checked for what holds always.    *)
(* 36 sets the previous mode to Supervisor and is the address of the sixth *)
(* word; twice that, Hypervisor, makes the mret illegal.  The program ends  *)
(* in front of the tenth word, reached by a branch or sequentially.        *)
ModeAlphabet == <<I("addi", 1, 1, 36), I("csrrw", 3, 1, MSTATUS),
                  I("csrrw", 1, 1, MEPC), N("mret"), N("ecall"), N("extx"),
                  B("bne", 1, 0, 8), I("lw", 1, 2, -4), S("sw", 1, -4, 2)>>
ModeDecode   == DecodeOf(ModeAlphabet)
ModePrograms == {Loaded(<<1, 2, 3, 1>> \o p \o <<1, 1>>) : p \in Programs(1 .. 9, 4)}
=============================================================================
