-------------------------------- MODULE Rtos --------------------------------
(***************************************************************************)
(* NRtos and CTask: main starts the tasks up one after the other, which    *)
(* run from then on beside it, may stop them (on POSIX, and in the samples) *)
(* and leaves the destructors of the static tasks to the end of the        *)
(* program.  A task runs its tenants in turn.                              *)
(*                                                                         *)
(* StopRtos calls the destructor by name, so a task that was stopped is    *)
(* destroyed again in the end: its vector of tenants is walked and freed   *)
(* once more, and the compiler may have left out to forget the stack in an *)
(* object whose life was over.                                             *)
(***************************************************************************)
EXTENDS Naturals, Sequences

CONSTANTS
  Tasks,         (* how many tenants each task has, in the order of AddTask *)
  MaxTurns       (* bound: the tenants a task runs                          *)

TasksAssumption == Tasks \in Seq(Nat \ {0}) /\ Tasks # <<>> /\ MaxTurns \in Nat

VARIABLES
  step, task, tenant,   (* where main is                                    *)
  stopped,       (* whether StopRtos was called                             *)
  exiting,       (* whether the static objects are being destroyed          *)
  thread,        (* task -> "none", "runs", "aborted"                       *)
  stack,         (* task -> whether its pointer to one is set               *)
  frees, drops,  (* task -> how often its stack and its vector were freed   *)
  ready,         (* task -> the calls of Startup and PostStartup that are   *)
                 (* over                                                    *)
  turns          (* task -> how many tenants it has run                     *)

vars == <<step, task, tenant, stopped, exiting, thread, stack, frees, drops, ready, turns>>

All(x) == [t \in DOMAIN Tasks |-> x]

Init ==
  /\ step = "startup" /\ task = 1 /\ tenant = 1 /\ stopped = FALSE /\ exiting = FALSE
  /\ thread = All("none") /\ stack = All(FALSE) /\ frees = All(0) /\ drops = All(0) /\ ready = All(0) /\ turns = All(0)

-----------------------------------------------------------------------------
(* The step after the loop over the tenants of a task.                     *)
WithoutAbort(s) == CASE s = "startup" -> "post" [] s = "post" -> "create" [] s = "clean" -> "free"
WithoutPost(s) == CASE s \in {"startup", "post"} -> "create" [] s = "clean" -> "abort"
After(s) == CASE s = "startup" -> "post" [] s = "post" -> "create" [] s = "clean" -> "abort"

ForTenants(s) ==
  /\ step = s
  /\ IF tenant < Tasks[task] THEN tenant' = tenant + 1 /\ step' = s ELSE tenant' = 1 /\ step' = After(s)

(* Startup of all tenants of the task, and then PostStartup of all.        *)
Initialize ==
  /\ ForTenants("startup") \/ ForTenants("post")
  /\ ready' = [ready EXCEPT ![task] = @ + 1]
  /\ UNCHANGED <<task, stopped, exiting, thread, stack, frees, drops, turns>>

(* k_thread_stack_alloc and k_thread_create, or the panic without a stack. *)
Create ==
  /\ step = "create"
  /\ \/ /\ stack' = [stack EXCEPT ![task] = TRUE] /\ thread' = [thread EXCEPT ![task] = "runs"]
        /\ IF task < Len(Tasks) THEN task' = task + 1 /\ step' = "startup" ELSE task' = 1 /\ step' = "started"
     \/ step' = "panic" /\ UNCHANGED <<task, stack, thread>>
  /\ UNCHANGED <<tenant, stopped, exiting, frees, drops, ready, turns>>

(* CTask::Run, one tenant of it.                                           *)
RunTenant(t) ==
  /\ thread[t] = "runs" /\ step # "panic" /\ turns[t] < MaxTurns
  /\ turns' = [turns EXCEPT ![t] = @ + 1]
  /\ UNCHANGED <<step, task, tenant, stopped, exiting, thread, stack, frees, drops, ready>>

StopRtos ==
  /\ step = "started" /\ step' = "clean" /\ stopped' = TRUE
  /\ UNCHANGED <<task, tenant, exiting, thread, stack, frees, drops, ready, turns>>

(* Main returns without it, and the last task is destroyed first.          *)
Return ==
  /\ step = "started" /\ step' = "clean" /\ exiting' = TRUE /\ task' = Len(Tasks)
  /\ UNCHANGED <<tenant, stopped, thread, stack, frees, drops, ready, turns>>

(* CTask::~CTask.  A vector that was freed may still hold the tenants.     *)
Again == drops[task] > 0
Fault == step' = "fault" /\ UNCHANGED <<task, tenant, stopped, exiting, stack, frees, drops>>

Cleanup ==
  /\ \/ ForTenants("clean") /\ UNCHANGED <<task, stopped, exiting, stack, frees, drops>>
     \/ step = "clean" /\ Again /\ Fault
  /\ UNCHANGED <<thread, ready, turns>>

Abort ==
  /\ step = "abort" /\ step' = "free" /\ thread' = [thread EXCEPT ![task] = "aborted"]
  /\ UNCHANGED <<task, tenant, stopped, exiting, stack, frees, drops, ready, turns>>

(* StopRtos destroys them in their order, the end of the program in        *)
(* reverse.                                                                *)
NextTask ==
  IF exiting
  THEN /\ task' = IF task > 1 THEN task - 1 ELSE task
       /\ step' = IF task > 1 THEN "clean" ELSE "over"
       /\ UNCHANGED exiting
  ELSE /\ step' = "clean" /\ exiting' = (task = Len(Tasks))
       /\ task' = IF task < Len(Tasks) THEN task + 1 ELSE task

Forgotten == [stack EXCEPT ![task] = FALSE]
Free ==
  /\ step = "free"
  /\ \/ /\ IF stack[task]
           THEN frees' = [frees EXCEPT ![task] = @ + 1] /\ stack' \in {stack, Forgotten}
           ELSE UNCHANGED <<frees, stack>>
        /\ drops' = [drops EXCEPT ![task] = @ + 1]
        /\ NextTask /\ UNCHANGED <<tenant, stopped>>
     \/ Again /\ Fault
  /\ UNCHANGED <<thread, ready, turns>>

Next == Initialize \/ Create \/ StopRtos \/ Return \/ Cleanup \/ Abort \/ Free \/ \E t \in DOMAIN Tasks : RunTenant(t)

-----------------------------------------------------------------------------
(* A tenant only runs when every tenant of its task has been through       *)
(* Startup and PostStartup.                                                *)
ReadyBeforeRun == \A t \in DOMAIN Tasks : turns[t] > 0 => ready[t] = 2 * Tasks[t]

(* A task is destroyed when its thread is aborted, no stack and no vector  *)
(* is left in the end, and each was freed once: unless StopRtos stopped    *)
(* the task before the end of the program destroyed it.                    *)
FreedOnce ==
  \A t \in DOMAIN Tasks :
    /\ frees[t] > 0 => thread[t] = "aborted"
    /\ frees[t] > 1 \/ drops[t] > 1 => stopped /\ exiting
    /\ step = "over" => frees[t] > 0 /\ drops[t] > 0
=============================================================================
