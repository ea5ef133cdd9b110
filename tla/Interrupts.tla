------------------------------ MODULE Interrupts ------------------------------
(***************************************************************************)
(* How a key gets to keyboard_isr: the keyboard and its controller, the    *)
(* interrupt controller, the processor's interrupt flag, the order in      *)
(* which kernel_setup sets them up, and the shell that makes system calls. *)
(*                                                                         *)
(* The devices are outside the repository.  The keyboard controller holds  *)
(* one byte in its output buffer and keeps its interrupt line up until the *)
(* byte is read; the interrupt controller is edge triggered: it requests   *)
(* an interrupt when a line goes up, and no further one of the same or a   *)
(* lower priority until the one in service is acknowledged.                *)
(*                                                                         *)
(* cpu: loader, remapped, idt, masked   the steps of kernel_setup          *)
(*      run          the shell, or a keyboard or text system call          *)
(*      filesystem   a file system call, with interrupts off               *)
(***************************************************************************)
EXTENDS Console

CONSTANTS
  FirmwareMasks,   \* what the interrupt mask may be when the kernel starts
  KeysAt,          \* the values of cpu at which a key may come although no
                   \* line is read; while one is read it may always come
  QueueSize        \* the keys the keyboard keeps, a bound

IRQ_TIMER == 0
IRQ_KEYBOARD == 1
Irqs == {IRQ_TIMER, IRQ_KEYBOARD}

CpuSteps == {"loader", "remapped", "idt", "masked", "run", "filesystem"}

NoKey == "none"
NoIrq == -1

ASSUME SystemAssumption ==
  /\ FirmwareMasks \subseteq SUBSET Irqs
  /\ KeysAt \subseteq CpuSteps
  /\ QueueSize \in Nat \ {0}
  /\ NoKey \notin Glyphs

VARIABLES
  scancodes,        \* keys that wait in the keyboard
  output_buffer,    \* the controller's byte, or NoKey
  irr, isr, imr,    \* requested, in service, masked
  iflag,            \* the processor takes interrupts
  handler,          \* the interrupt being handled, or NoIrq
  cpu

pic == <<irr, isr, imr>>
device == <<scancodes, output_buffer>>
systemVars == <<vars, pic, device, iflag, handler, cpu>>

SystemInit ==
  /\ Init
  /\ scancodes = << >> /\ output_buffer = NoKey
  /\ irr = {} /\ isr = {}
  /\ imr \in FirmwareMasks
  /\ iflag = FALSE
  /\ handler = NoIrq
  /\ cpu = "loader"

-----------------------------------------------------------------------------
(* The devices.                                                            *)

Reading == call = "waiting" /\ keyboard_input_on

\* A key is pressed or released.
KeyEvent(key) ==
  /\ Len(scancodes) < QueueSize
  /\ cpu \in KeysAt \/ (Reading /\ scancodes = << >> /\ output_buffer = NoKey)
  /\ scancodes' = Append(scancodes, key)
  /\ UNCHANGED <<vars, pic, output_buffer, iflag, handler, cpu>>

FillOutputBuffer ==
  /\ output_buffer = NoKey /\ scancodes # << >>
  /\ output_buffer' = Head(scancodes)
  /\ scancodes' = Tail(scancodes)
  /\ irr' = irr \cup {IRQ_KEYBOARD}
  /\ UNCHANGED <<vars, isr, imr, iflag, handler, cpu>>

Tick ==
  /\ IRQ_TIMER \notin irr
  /\ irr' = irr \cup {IRQ_TIMER}
  /\ UNCHANGED <<vars, isr, imr, device, iflag, handler, cpu>>

-----------------------------------------------------------------------------
(* Interrupts.                                                             *)

\* The one that the processor is asked to take next.
Pending(irq) ==
  /\ irq \in irr \ imr
  /\ \A other \in isr : irq < other
  /\ \A other \in irr \ imr : irq =< other

Interrupted == iflag /\ \E irq \in Irqs : Pending(irq)

\* Through the interrupt gate that initialize_idt has set up.
TakeInterrupt ==
  /\ iflag /\ handler = NoIrq
  /\ \E irq \in Irqs :
       /\ Pending(irq)
       /\ irr' = irr \ {irq}
       /\ isr' = isr \cup {irq}
       /\ handler' = irq
  /\ iflag' = FALSE
  /\ UNCHANGED <<vars, imr, device, cpu>>

\* An acknowledgement ends the interrupt of the highest priority in service.
pic_ack == isr' = {irq \in isr : \E other \in isr : other < irq}

\* The end of the interrupt routine: sti, iret.
ReturnFromInterrupt == handler' = NoIrq /\ iflag' = TRUE

\* The case of IRQ_KEYBOARD in main_interrupt_handler.  An empty output buffer
\* would read as a byte of the past.
KeyboardInterrupt ==
  /\ handler = IRQ_KEYBOARD
  /\ \E key \in IF output_buffer = NoKey THEN Keys ELSE {output_buffer} :
       KeyboardIsr(key)
  /\ output_buffer' = IF keyboard_input_on THEN NoKey ELSE output_buffer
  /\ pic_ack
  /\ ReturnFromInterrupt
  /\ UNCHANGED <<irr, imr, scancodes, cpu>>

\* Its default case: nothing is acknowledged.
OtherInterrupt ==
  /\ handler \notin {NoIrq, IRQ_KEYBOARD}
  /\ ReturnFromInterrupt
  /\ UNCHANGED <<vars, pic, device, cpu>>

-----------------------------------------------------------------------------
(* kernel_setup.                                                           *)

\* The processor goes on only after it has taken what it is asked to take.
Goes(from) == cpu = from /\ handler = NoIrq /\ ~Interrupted

\* The initialisation of the controller forgets requests; the masks stay.
PicRemap ==
  /\ Goes("loader")
  /\ irr' = {} /\ isr' = {}
  /\ cpu' = "remapped"
  /\ UNCHANGED <<vars, imr, device, iflag, handler>>

InitializeIdt ==
  /\ Goes("remapped")
  /\ iflag' = TRUE
  /\ cpu' = "idt"
  /\ UNCHANGED <<vars, pic, device, handler>>

\* Mutation: the other interrupts are left as the firmware had them.
ActivateOnTop ==
  /\ Goes("idt")
  /\ imr' = imr \ {IRQ_KEYBOARD}
  /\ cpu' = "masked"
  /\ UNCHANGED <<vars, irr, isr, device, iflag, handler>>

ActivateKeyboardInterrupt ==
  /\ Goes("idt")
  /\ imr' = Irqs \ {IRQ_KEYBOARD}
  /\ cpu' = "masked"
  /\ UNCHANGED <<vars, irr, isr, device, iflag, handler>>

\* The rest: the screen, the file system, paging, the jump to the shell with
\* the flags the kernel has.
StartShell ==
  /\ Goes("masked")
  /\ cpu' = "run"
  /\ UNCHANGED <<vars, pic, device, iflag, handler>>

-----------------------------------------------------------------------------
(* The shell and its system calls.                                         *)

\* Mutation: case 4 waits with interrupts off.
WaitsWithoutSti ==
  /\ Goes("run")
  /\ \/ Fgets /\ iflag' = FALSE
     \/ (LeaveLoop \/ CopyLine \/ \E text \in Texts : Puts(text)) /\ UNCHANGED iflag
  /\ UNCHANGED <<pic, device, handler, cpu>>

\* A call enters with interrupts off; case 4 turns them on (sti) once
\* keyboard_input_on is set.  What happens with interrupts off is one step.
ConsoleCall ==
  /\ Goes("run")
  /\ Fgets \/ LeaveLoop \/ CopyLine \/ \E text \in Texts : Puts(text)
  /\ UNCHANGED <<pic, device, iflag, handler, cpu>>

FileSystemCall ==
  /\ Goes("run") /\ call = "user"
  /\ iflag' = FALSE
  /\ cpu' = "filesystem"
  /\ UNCHANGED <<vars, pic, device, handler>>

FileSystemReturn ==
  /\ Goes("filesystem")
  /\ iflag' = TRUE
  /\ cpu' = "run"
  /\ UNCHANGED <<vars, pic, device, handler>>

-----------------------------------------------------------------------------
Boot == PicRemap \/ InitializeIdt \/ ActivateKeyboardInterrupt \/ StartShell

Interrupt == TakeInterrupt \/ KeyboardInterrupt \/ OtherInterrupt

Devices == (\E key \in Keys : KeyEvent(key)) \/ FillOutputBuffer \/ Tick

SystemNext ==
  \/ Boot
  \/ Interrupt
  \/ Devices
  \/ ConsoleCall
  \/ FileSystemCall
  \/ FileSystemReturn

\* The processor always does something, and the controller raises its line;
\* nothing makes the user type or the shell ask.
SystemSpec ==
  /\ SystemInit /\ [][SystemNext]_systemVars
  /\ WF_systemVars(Boot)
  /\ WF_systemVars(Interrupt)
  /\ WF_systemVars(FillOutputBuffer)
  /\ WF_systemVars(FileSystemReturn)
  /\ WF_systemVars(Goes("run") /\ LeaveLoop /\ UNCHANGED <<pic, device, iflag, handler, cpu>>)
  /\ WF_systemVars(Goes("run") /\ CopyLine /\ UNCHANGED <<pic, device, iflag, handler, cpu>>)

-----------------------------------------------------------------------------
(* Properties.                                                             *)

SystemTypeOK ==
  /\ TypeOK
  /\ scancodes \in Seq(Keys) /\ output_buffer \in Keys \cup {NoKey}
  /\ {irr, isr, imr} \subseteq SUBSET Irqs
  /\ iflag \in BOOLEAN
  /\ handler \in Irqs \cup {NoIrq}
  /\ cpu \in CpuSteps

\* The controller holds a key that no interrupt is requested for any more.
Lost ==
  output_buffer # NoKey /\ IRQ_KEYBOARD \notin irr /\ handler # IRQ_KEYBOARD

\* No key gets through: the controller's line stays up behind a lost one, and
\* a tick in service has the higher priority.
Blocked == Lost \/ IRQ_TIMER \in isr

\* Whenever a key comes, it is read from the controller, unless the keyboard is
\* blocked by then: no tick, system call or step of kernel_setup delays it
\* for ever (interrupt.c:111-123).
KeysServed ==
  output_buffer # NoKey ~> output_buffer = NoKey \/ Blocked

\* There are three places where the keyboard gets blocked, and nothing in the
\* code takes that back: pic_remap forgets a request made before it
\* (interrupt.c:31); a tick between sti and the mask is never acknowledged
\* (idt.c:24, kernel.c:16-17); and keyboard_isr acknowledges a key that it does
\* not read while no line is read (keyboard.c:298).
BlockedOnlyThere ==
  [][/\ Blocked => Blocked'
     /\ ~Blocked /\ Blocked' =>
          \/ cpu = "loader" /\ cpu' = "remapped"
          \/ cpu = "idt" /\ handler' = IRQ_TIMER
          \/ handler = IRQ_KEYBOARD /\ ~keyboard_input_on]_systemVars

\* Enter above the last row ends the call (keyboard.c:331-339,
\* interrupt.c:114), whatever else happens meanwhile.
EnterReturnsLine ==
  /\ handler = IRQ_KEYBOARD /\ output_buffer = Newline
  /\ keyboard_input_on /\ cursor_row < VGA_HEIGHT - 1
  ~> call = "user"

\* keyboard.h: "Will start listen and process keyboard scancode if
\* keyboard_input_on."
ScancodesProcessed ==
  output_buffer # NoKey /\ Reading ~> output_buffer = NoKey
=============================================================================
