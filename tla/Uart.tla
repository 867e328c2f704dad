-------------------------------- MODULE Uart --------------------------------
(***************************************************************************)
(* The receive side of the UART: its FIFO, the PLIC's enable bit for it,   *)
(* SYS_IRQ_WAIT and the external interrupt, on top of module Tasks.        *)
(***************************************************************************)
EXTENDS Tasks, Sequences

CONSTANTS
    RxSize,      \* depth of the receive FIFO
    CharMod      \* characters are numbered modulo CharMod as they are typed

ASSUME UartAssumption ==
    /\ RxSize \in Nat \ {0}
    /\ CharMod \in Nat /\ RxSize + 1 < CharMod

VARIABLES
    rx,            \* characters in the FIFO
    irq_enabled,   \* the UART's bit in the PLIC's enable register
    typed          \* history: the last character that arrived

uartVars == <<rx, irq_enabled, typed>>

UartOwner == 1     \* uart_owner: kernel_main grants the UART to the console

(* plic::init leaves all device interrupts masked.                         *)
UartInit ==
    /\ rx = <<>>
    /\ irq_enabled = FALSE
    /\ typed = 0

NextChar(c) == (c + 1) % CharMod

(* A character arrives.  One that finds the FIFO full is lost in the       *)
(* device, before the system has seen it.                                  *)
CharArrives ==
    /\ Len(rx) < RxSize
    /\ typed' = NextChar(typed)
    /\ rx' = Append(rx, typed')
    /\ UNCHANGED <<tasksVars, irq_enabled>>

SysIrqWaitMasked_bug ==
    /\ current = UartOwner
    /\ Schedule(Block(tasks, SlotOf(tasks, current), UartRx))
    /\ runnable_count' = SaturatingSub(runnable_count)
    /\ UNCHANGED <<irq_enabled, next_pid, reports, rx, typed>>

(* SYS_IRQ_WAIT: the owner sleeps and the interrupt is unmasked.           *)
SysIrqWait ==
    /\ current = UartOwner
    /\ Schedule(Block(tasks, SlotOf(tasks, current), UartRx))
    /\ runnable_count' = SaturatingSub(runnable_count)
    /\ irq_enabled' = TRUE
    /\ UNCHANGED <<next_pid, reports, rx, typed>>

(* wake_uart                                                               *)
WaitsForUart(s) == tasks[s].state = "Sleeping" /\ tasks[s].wait = UartRx

UartWokenNobody_bug == tasks

UartWoken ==
    [s \in Slots |-> IF WaitsForUart(s)
                     THEN [tasks[s] EXCEPT !.state = "Ready", !.wait = NoWait]
                     ELSE tasks[s]]

(* The external interrupt: level-triggered, raised as long as the FIFO has *)
(* data and the PLIC lets it through.  It is masked until the next         *)
(* SYS_IRQ_WAIT.                                                           *)
External ==
    /\ irq_enabled
    /\ rx # <<>>
    /\ irq_enabled' = FALSE
    /\ Schedule(UartWoken)
    /\ runnable_count' = runnable_count
                           + Cardinality({s \in Slots : WaitsForUart(s)})
    /\ UNCHANGED <<next_pid, reports, rx, typed>>

(* The interrupt is unmasked exactly while the console sleeps for it: a    *)
(* character that arrives between its look at the FIFO and its call cannot *)
(* be slept through, and a running console is not interrupted for what it  *)
(* is about to read.                                                       *)
IrqArmedWhileAsleep == irq_enabled <=> \E s \in Slots : WaitsForUart(s)

=============================================================================
