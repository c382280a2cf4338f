--------------------------- MODULE MCKernelControl ---------------------------
(* One kernel with one goroutine of remote commands; its certificate is    *)
(* by ACME or none, or, as long as no command has come, self-signed or     *)
(* content that is missing.                                                *)
EXTENDS KernelControl

CONSTANTS g1, g2, u1, c1, i1, i2, i3, self, bare, acme1
Bounded == cert.cfg \in SelfSigned \cup Bare => budget.commands = MaxCommands
=============================================================================
