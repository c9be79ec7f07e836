------------------------------- MODULE Entry -------------------------------
(***************************************************************************)
(* Into the kernel and back: the interrupt wrappers (idt/interrupts.asm),  *)
(* the dispatch of interrupts and system calls (idt/idt.c,                 *)
(* idt/interrupts.c), saving and restoring the registers of a task         *)
(* (task/task.c, task/task.asm), the page directory and segments in use,   *)
(* and the acknowledgement of the interrupt controller.                    *)
(*                                                                         *)
(* The value of a register is <<task, register, version>>, so that a value *)
(* that turns up in another register or another task is seen.  The kernel  *)
(* runs with interrupts off: one step is one entry, from user mode to user *)
(* mode.  The task that follows is any live one (its choice is in module   *)
(* Scheduler).                                                             *)
(***************************************************************************)
EXTENDS Naturals, Sequences, SequencesExt

CONSTANTS
    Tasks,          \* tasks
    Lines,          \* lines of the interrupt controllers that are raised
    Exceptions,     \* exceptions that are raised
    None

ASSUME EntryAssumption == Lines \subseteq 0 .. 15 /\ Exceptions \subseteq 0 .. 31

VARIABLES
    reg,            \* the registers, in user mode
    saved,          \* task->registers
    mine,           \* the registers each task had when it last ran
    current,        \* current_task
    live,           \* the tasks that exist
    page,           \* the page directory in use
    segments,       \* what the data segment registers hold
    in_service,     \* lines that wait for their acknowledgement
    mode            \* "user" or "panic"

vars == <<reg, saved, mine, current, live, page, segments, in_service, mode>>

(* struct registers, four bytes each, and struct interrupt_frame.          *)
RegistersLayout == <<"edi", "esi", "ebp", "ebx", "edx", "ecx", "eax", "eip", "cs", "eflags", "esp", "ss">>
FrameLayout == <<"edi", "esi", "ebp", "handler_esp", "ebx", "edx", "ecx", "eax", "err_code",
                 "eip", "cs", "eflags", "esp", "ss">>
Registers == ToSet(RegistersLayout)

(* Values that are not a program's own.                                    *)
Of(what) == <<None, what, 0>>
UserCode == Of("0x1B")
UserData == Of("0x23")
KernelData == Of("0x10")
Result == Of("result")

(* idt_init and classic_keyboard_init: the vectors with a callback.        *)
interrupt_callbacks == {0, 6, 13, 14, 32, 33}

----------------------------------------------------------------------------
(* The stack at the call of the handler, top first: what the processor     *)
(* pushes, the error code (by the processor or a dummy by the wrapper),    *)
(* pushad.                                                                 *)
ProcessorPushes == <<"ss", "esp", "eflags", "cs", "eip">>
PushadPushes == <<"eax", "ecx", "edx", "ebx", "handler_esp", "ebp", "esi", "edi">>
HasErrorCode(v) == v \in {8, 10, 11, 12, 13, 14, 17, 21}

(* Faulty variants of definitions below, used only to show that the        *)
(* properties can fail.                                                    *)
SaveSwapsIndexes(frame) ==
    [r \in Registers |-> IF r = "esi" THEN frame["edi"] ELSE IF r = "edi" THEN frame["esi"] ELSE frame[r]]
PageOfKernel == page' = "kernel" /\ segments' = KernelData
NoEOI(lines) == lines

(* interrupts.asm: the wrapper pushes a dummy for these.                  *)
interrupt_no_err(v) == v \notin {8, 10, 11, 12, 13, 14, 17, 21}

Pushed(v) ==
    Reverse([i \in DOMAIN ProcessorPushes |-> reg[ProcessorPushes[i]]]
            \o (IF HasErrorCode(v) THEN <<Of("error")>> ELSE <<>>)
            \o (IF interrupt_no_err(v) THEN <<Of("dummy")>> ELSE <<>>)
            \o [i \in DOMAIN PushadPushes |->
                  IF PushadPushes[i] = "handler_esp" THEN Of("kernel stack") ELSE reg[PushadPushes[i]]])

(* The handler's view of the stack.                                        *)
Frame(stack) == [f \in ToSet(FrameLayout) |->
                   stack[CHOOSE i \in DOMAIN FrameLayout : FrameLayout[i] = f]]

(* popad, the error code dropped, iret.                                    *)
Popped(stack) ==
    LET order == Reverse(PushadPushes) \o <<"err_code">> \o Reverse(ProcessorPushes)
    IN  [r \in Registers |-> stack[CHOOSE i \in DOMAIN order : order[i] = r]]

task_save_state(frame) == [r \in Registers |-> frame[r]]

(* task_return and restore_general_purpose_registers, by offset.  ebp is   *)
(* loaded and then popped: it is left with a kernel address.  The flags    *)
(* are those of the kernel, with interrupts on.                            *)
At(regs, offset) == regs[RegistersLayout[offset \div 4 + 1]]
task_return(regs) ==
    [edi |-> At(regs, 0), esi |-> At(regs, 4), ebp |-> Of("kernel stack"),
     edx |-> At(regs, 16), ecx |-> At(regs, 20), eax |-> At(regs, 24), ebx |-> At(regs, 12),
     eip |-> At(regs, 28), cs |-> At(regs, 32), eflags |-> Of("kernel flags"),
     esp |-> At(regs, 40), ss |-> At(regs, 44)]

(* task_init.                                                              *)
NewRegisters(t) ==
    [r \in Registers |-> CASE r = "cs" -> UserCode [] r = "ss" -> UserData
                           [] r \in {"eip", "esp"} -> <<t, r, 0>> [] OTHER -> Of("zero")]

----------------------------------------------------------------------------
(* The controllers.  A line is raised only when no line of its own         *)
(* controller with the same or a higher priority is in service; the second *)
(* controller, lines 8 to 15, is on line 2 of the first.                   *)
Deliverable(n) ==
    /\ \A k \in in_service : k <= 7 => (IF n <= 7 THEN n < k ELSE 2 < k)
    /\ n > 7 => \A k \in in_service : k > 7 => n < k
Raise(n) == in_service \cup {n} \cup (IF n > 7 THEN {2} ELSE {})

(* _ACK_IRQ_EOI: the first controller's line of highest priority.  The     *)
(* second controller is never told.                                        *)
_ACK_IRQ_EOI(lines) ==
    LET first == {k \in lines : k <= 7}
    IN  lines \ {k \in first : \A j \in first : k <= j}

----------------------------------------------------------------------------
(* kernel_main: the first task is run.                                     *)
Init ==
    /\ \E t \in Tasks :
          /\ current = t /\ live = {t} /\ page = t
          /\ reg = task_return(NewRegisters(t))
    /\ saved = [t \in Tasks |-> NewRegisters(t)]
    /\ mine = [t \in Tasks |-> task_return(NewRegisters(t))]
    /\ segments = UserData
    /\ in_service = {}
    /\ mode = "user"

(* The program runs and changes its registers.                             *)
user_step ==
    /\ mode = "user"
    /\ \E v \in {1, 2} :
          reg' = [r \in Registers |-> IF r \in {"cs", "ss"} THEN reg[r] ELSE <<current, r, v>>]
    /\ mine' = [mine EXCEPT ![current] = reg']
    /\ UNCHANGED <<saved, current, live, page, segments, in_service, mode>>

(* task_page: the directory and data segments of the current task.         *)
task_page == page' = current /\ segments' = UserData

(* The wrapper's way back to the task that was interrupted.                *)
Return(v) ==
    /\ task_page
    /\ reg' = Popped(Pushed(v))
    /\ UNCHANGED <<current, live, mode>>

Save(v) == saved' = [saved EXCEPT ![current] = task_save_state(Frame(Pushed(v)))]

(* task_switch and task_return.                                            *)
SwitchTo(t, image) ==
    /\ current' = t
    /\ page' = t
    /\ reg' = task_return(image[t])
    /\ segments' = At(image[t], 44)

(* process_terminate and task_next.                                        *)
TerminateCurrent(image) ==
    /\ live' = live \ {current}
    /\ IF live' = {}
       THEN /\ mode' = "panic"
            /\ page' = "kernel" /\ segments' = KernelData
            /\ UNCHANGED <<reg, current>>
       ELSE /\ \E t \in live' : SwitchTo(t, image)
            /\ UNCHANGED mode

(* interrupt_handler for the timer: acknowledged before the switch, the    *)
(* handler does not come back.                                             *)
timer_interrupt ==
    /\ mode = "user" /\ 0 \in Lines /\ Deliverable(0)
    /\ in_service' = _ACK_IRQ_EOI(Raise(0))
    /\ Save(32)
    /\ \E t \in live : SwitchTo(t, saved')
    /\ UNCHANGED <<mine, live, mode>>

(* interrupt_handler for the other lines: the keyboard has a callback and  *)
(* its registers are saved, all come back through the wrapper.             *)
irq(n) ==
    /\ mode = "user" /\ n # 0 /\ Deliverable(n)
    /\ IF 32 + n \in interrupt_callbacks THEN Save(32 + n) ELSE UNCHANGED saved
    /\ Return(32 + n)
    /\ in_service' = _ACK_IRQ_EOI(Raise(n))
    /\ UNCHANGED <<mine>>

(* interrupt_handler for exceptions.  #UD, #GP and #PF end the process,    *)
(* int_zero prints and comes back.  An exception without callback comes    *)
(* back too: no number is below 0x20 and not below 0x30.                   *)
exception(v) ==
    /\ mode = "user"
    /\ IF v \in interrupt_callbacks THEN Save(v) ELSE UNCHANGED saved
    /\ IF v \in interrupt_callbacks \ {0} THEN TerminateCurrent(saved') ELSE Return(v)
    /\ UNCHANGED <<mine, in_service>>

(* isr80h_wrapper around a command that comes back, an unknown number      *)
(* included: the result goes to eax.                                       *)
isr80h_handler ==
    /\ mode = "user"
    /\ Save(128)
    /\ task_page
    /\ reg' = [Popped(Pushed(128)) EXCEPT !["eax"] = Result]
    /\ mine' = [mine EXCEPT ![current]["eax"] = Result]
    /\ UNCHANGED <<current, live, in_service, mode>>

sys_exit ==
    /\ mode = "user"
    /\ Save(128)
    /\ TerminateCurrent(saved')
    /\ UNCHANGED <<mine, in_service>>

(* A program is started and runs at once.                                  *)
sys_process_load_start(t) ==
    /\ mode = "user" /\ t \notin live
    /\ saved' = [saved EXCEPT ![current] = task_save_state(Frame(Pushed(128))), ![t] = NewRegisters(t)]
    /\ SwitchTo(t, saved')
    /\ live' = live \cup {t}
    /\ mine' = [mine EXCEPT ![t] = reg']
    /\ UNCHANGED <<in_service, mode>>

(* A program is started, its arguments cannot be copied, and the caller    *)
(* goes on with an error.                                                  *)
sys_invoke_fails(t) ==
    /\ mode = "user" /\ t \notin live
    /\ saved' = [saved EXCEPT ![current] = task_save_state(Frame(Pushed(128))), ![t] = NewRegisters(t)]
    /\ live' = live \cup {t}
    /\ task_page
    /\ reg' = [Popped(Pushed(128)) EXCEPT !["eax"] = Result]
    /\ mine' = [mine EXCEPT ![current]["eax"] = Result, ![t] = task_return(NewRegisters(t))]
    /\ UNCHANGED <<current, in_service, mode>>

Next ==
    \/ user_step
    \/ timer_interrupt
    \/ \E n \in Lines : irq(n)
    \/ \E v \in Exceptions : exception(v)
    \/ isr80h_handler
    \/ sys_exit
    \/ \E t \in Tasks : sys_process_load_start(t) \/ sys_invoke_fails(t)

Spec == Init /\ [][Next]_vars

----------------------------------------------------------------------------
TypeOK ==
    /\ current \in Tasks /\ live \subseteq Tasks
    /\ page \in Tasks \cup {"kernel"} /\ segments \in {UserData, KernelData}
    /\ in_service \subseteq 0 .. 15
    /\ DOMAIN reg = Registers /\ reg["cs"] = UserCode /\ reg["ss"] = UserData

(* A task that gets the processor back, by whatever mixture of timer       *)
(* ticks, key presses, faults of others and system calls, has every        *)
(* register as it left it, but for ebp and the flags: the order in which   *)
(* the wrappers and the processor push, struct interrupt_frame, struct     *)
(* registers and the offsets in task_return all agree.                     *)
ResumesIntact ==
    mode = "user" => \A r \in Registers \ {"ebp", "eflags"} : reg[r] = mine[current][r]

(* In user mode the directory in use is that of the running task, which    *)
(* exists, and the data segments are the user's: each way out of           *)
(* interrupt_handler, isr80h_handler and the fault handlers undoes         *)
(* kernel_page.  The type invariant is part of it.                         *)
UserModeSane ==
    /\ TypeOK
    /\ mode = "user" => current \in live /\ page = current /\ segments = UserData

(* In user mode neither the timer nor the keyboard waits for an            *)
(* acknowledgement: every way out of interrupt_handler, task_next included *)
(* and a divide error repeated for ever included, leaves them able to      *)
(* interrupt.  Lines of the second controller are not so lucky.            *)
MasterServes == mode = "user" => \A k \in in_service : k > 7

=============================================================================
