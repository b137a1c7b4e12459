-------------------------- MODULE RepositoryClaims --------------------------
(***************************************************************************)
(* What comments, assertions and tests of the repository say of the        *)
(* pipeline, where the code disagrees.  Each claim is checked by a run     *)
(* whose program TLC finds to violate it.                                  *)
(***************************************************************************)
EXTENDS PipelineRefinement

(* "The zero register x0 = zero is set 0." (Registers.h:60): an operand     *)
(* that names x0 is zero.  forwardRs1OnDE and forwardRs2OnDE (lines         *)
(* 433-452, 477-491) forward to x0 what an earlier instruction computed    *)
(* for it.                                                                  *)
ZeroRegister ==
  phase = "EX" /\ ~Empty(EX) =>
    LET w == Insts[EX] IN
      /\ HasRs1(w) /\ Mnemo(w) \notin CSRImm /\ Rs1(w) = 0 => DEVal.rs1 = 0
      /\ HasRs2(w) /\ Rs2(w) = 0 => DEVal.rs2 = 0

(* mtvec is the "Machine trap-handler base address." (CSR.h:36): after a    *)
(* trap the next fetch is there.  The prediction made in the same cycle     *)
(* for a branch behind the ecall overrides it (lines 586 and 697-704).      *)
TrapEntersHandler ==
  [][phase = "PC" /\ Holds(EX, {"ecall"}) => PC' = ClearBit0(Forwarded(MTVEC))]_vars

(* "extended instruction. nop on simulator" (Decoder.cpp:43): a nop is      *)
(* followed by the next word.  handleException (lines 552-567) flushes the *)
(* two words behind extx and fetches on after them.                        *)
ExtxIsNop ==
  phase = "IF" /\ Status = "run" /\ Holds(EX, {"extx"}) =>
    Upcoming = Wrap(PCs[EX] + 4)

(* "invalid access to bigger address than DRAMSize" (Memory.cpp:11): an     *)
(* access outside DRAM fails the assertion.  The check lets the first      *)
(* address after DRAM pass, and sequential fetch gets there.               *)
AccessesChecked == Status # "undefined"
=============================================================================
