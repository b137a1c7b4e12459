------------------------ MODULE MCPredictedPipeline ------------------------
(***************************************************************************)
(* Instances of the pipeline with its predictors for TLC: programs with    *)
(* loops, branches behind branches, branches that wait for a load and      *)
(* branches on wrong paths.                                                *)
(***************************************************************************)
EXTENDS PredictedPipeline, MCPrograms

Bits == INSTANCE Bitwise
MCXor(i, j) == Bits!^^(i, j)

NoAddress == nullopt

LoopAlphabet == <<B("bne", 1, 3, 8), B("bltu", 1, 2, -4), I("jal", 3, 0, 8),
                  I("addi", 1, 1, 8), I("lw", 1, 2, -4)>>
LoopDecode   == DecodeOf(LoopAlphabet)
LoopPrograms == {Loaded(p) : p \in {q \in Programs(1 .. 5, 4) : q[1] # 2}}
=============================================================================
