------------------------------- MODULE MCEvm -------------------------------
(***************************************************************************)
(* Model values for Evm.  The instruction set is the one init registers,   *)
(* minus DUP/SWAP beyond 2 and PUSH beyond what PushData spells, plus one  *)
(* unregistered opcode.                                                    *)
(***************************************************************************)
EXTENDS Evm

\* STOP ADD MUL SUB DIV POP MLOAD MSTORE MSTORE8 SLOAD SSTORE PC MSIZE GAS
\* DUP1 DUP2 SWAP1 RETURN, and 0xfe (INVALID, not registered).
MCPlainOps == {0, 1, 2, 3, 4, 80, 81, 82, 83, 84, 85, 88, 89, 90, 128, 129, 144, 243, 254}

\* PUSH1 0, PUSH1 1, PUSH1 32, and PUSH8 0x8000000000000000.
MCPushData == {<< 0 >>, << 1 >>, << 32 >>, << 128, 0, 0, 0, 0, 0, 0, 0 >>}
=============================================================================
