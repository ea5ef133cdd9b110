----------------------------- MODULE MCInterrupts -----------------------------
(* A small system for TLC, and whatever mask the firmware leaves.            *)
EXTENDS Interrupts

MCTexts == {<<Blank>>, <<Newline>>}
MCFirmwareMasks == SUBSET Irqs
MCAlways == CpuSteps
MCAfterBoot == {"run", "filesystem"}
MCTimerMasked == {{IRQ_TIMER}, Irqs}
=============================================================================
