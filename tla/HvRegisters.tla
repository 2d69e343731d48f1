----------------------------- MODULE HvRegisters -----------------------------
(***************************************************************************)
(* The registers of the guest that the Windows Hypervisor Platform runs    *)
(* exist twice: in the VCPU, and in `state`, on which all of NTVDM works   *)
(* (hyperv's monitor.c).  hyperv_fetch and hyperv_flush move them in       *)
(* groups, a flush only the groups marked dirty; the loop of cpu_simulate  *)
(* usually moves all of them both ways, but not around port accesses taken *)
(* from the exit context, nor around trapped accesses to video memory.     *)
(*                                                                         *)
(* What a register holds is left out: the model knows which of its two     *)
(* copies were written last.  A copy to the other side makes that side as  *)
(* good as this one, so copying an older value over the newest loses it.   *)
(*                                                                         *)
(* YODA, the built-in debugger, is part of the model: single-stepping      *)
(* writes the debug registers and the trap flag and reads more registers   *)
(* than the rest.  Exits that end in haxmvm_panic are left out, and        *)
(* interrupt delivery is HvInterrupts.                                     *)
(***************************************************************************)
EXTENDS Naturals

CONSTANTS
  MaxNested,            \* bound: cpu_simulate in a handler of cpu_simulate
  PlanarIsRealMode,     \* video memory is trapped only while CR0 is as last fetched
  PortsTouchRegisters   \* port handlers write registers

ASSUME HvRegistersAssumption ==
  /\ MaxNested \in Nat
  /\ PlanarIsRealMode \in BOOLEAN
  /\ PortsTouchRegisters \in BOOLEAN

Groups == {"GPRS", "SEGS", "TABLES", "CONTROL", "DEBUG"}

\* A set of registers that is copied and read together each: the general
\* registers with RIP and the flags, the trap flag among them, the segments
\* pull_vram fetches and the others, and the interrupt shadow, which only
\* push_all and pull_all move.
Regs == {"gpr", "tf", "near", "far", "tables", "control", "debug", "shadow"}

GroupOf(r) ==
  CASE r \in {"gpr", "tf"}   -> "GPRS"
    [] r \in {"near", "far"} -> "SEGS"
    [] r = "tables"          -> "TABLES"
    [] r = "control"         -> "CONTROL"
    [] r = "debug"           -> "DEBUG"
    [] OTHER                 -> "none"

Copies == {"state", "vcpu"}

Exits == {"pause", "window", "halt", "msr", "io", "vram", "aperture", "memory",
          "trap", "exception", "unrecoverable"}

VARIABLES
  fresh,     \* for each register, the copies that hold its newest value
  inShadow,  \* the guest is in an interrupt shadow that it must stay in
  dirty,     \* g_dirty_mask
  vramOnly,  \* g_vram_only_gprs_dirty
  ioFast,    \* io_fast_prev
  nano,      \* NANO_ENABLED: YODA steps through the guest
  retf,      \* g_retf_on_next_exit
  exit,      \* exit.ExitReason; a memory access by the address, an exception by kind
  pc,        \* where in cpu_simulate
  depth      \* calls of cpu_simulate from a handler of cpu_simulate

vars == <<fresh, inShadow, dirty, vramOnly, ioFast, nano, retf, exit, pc, depth>>

marks == <<dirty, vramOnly>>
debugVars == <<nano, retf>>

\* InitState: state is seeded, the new VCPU has nothing of it.
Init ==
  /\ fresh = [r \in Regs |-> {"state"}]
  /\ inShadow = FALSE
  /\ dirty = Groups
  /\ vramOnly = FALSE
  /\ ioFast = FALSE
  /\ nano = FALSE
  /\ retf = FALSE
  /\ exit = "pause"
  /\ pc = "top"
  /\ depth = 0
-----------------------------------------------------------------------------
(* Fetch, flush and mark, on a function like fresh.                        *)

Written(f, regs, copy) == [r \in Regs |-> IF r \in regs THEN {copy} ELSE f[r]]

Copied(f, regs, from, to) ==
  [r \in Regs |->
     IF r \notin regs THEN f[r]
     ELSE IF from \in f[r] THEN f[r] \cup {to} ELSE f[r] \ {to}]

\* All groups at once take push_all and pull_all, which move the shadow too.
RegsIn(groups) ==
  IF groups = Groups THEN Regs ELSE {r \in Regs : GroupOf(r) \in groups}

Fetched(f, groups) == Copied(f, RegsIn(groups), "vcpu", "state")

\* WHP ends the shadow when RIP, RFLAGS or SS is set without it (push_all's comment).
Flushed(f, groups) ==
  LET pushed == Copied(f, RegsIn(groups), "state", "vcpu")
  IN  IF groups # Groups /\ groups \cap {"GPRS", "SEGS"} # {}
      THEN [pushed EXCEPT !["shadow"] = @ \ {"vcpu"}]
      ELSE pushed
-----------------------------------------------------------------------------
(* The loop of cpu_simulate, up to the switch over the exit.               *)

\* Variant: the mark of a VRAM exit is not reset, later pushes leave groups out.
PrepareKeepingMark ==
  /\ pc = "top"
  /\ ~ioFast
  /\ LET touched == IF nano THEN {"debug"} ELSE {}
         marked == dirty \cup (IF nano THEN {"DEBUG"} ELSE {})
                         \cup (IF vramOnly THEN {} ELSE Groups)
     IN  fresh' = Flushed(Written(fresh, touched, "state"), marked)
  /\ dirty' = {}
  /\ pc' = "run"
  /\ UNCHANGED <<inShadow, vramOnly, ioFast, debugVars, exit, depth>>

\* Interrupts are dispatched, which with YODA may set DR0; YODA arms or
\* disarms DR1 and DR2; then all is pushed, or only what is marked.
Prepare ==
  /\ pc = "top"
  /\ ~ioFast
  /\ LET touched == IF nano THEN {"debug"} ELSE {}
         marked == dirty \cup (IF nano THEN {"DEBUG"} ELSE {})
                         \cup (IF vramOnly THEN {} ELSE Groups)
     IN  fresh' = Flushed(Written(fresh, touched, "state"), marked)
  /\ dirty' = {}
  /\ vramOnly' = FALSE
  /\ pc' = "run"
  /\ UNCHANGED <<inShadow, ioFast, debugVars, exit, depth>>

\* After a port access that was answered from the exit context.
Continue ==
  /\ pc = "top"
  /\ ioFast
  /\ ioFast' = FALSE
  /\ pc' = "run"
  /\ UNCHANGED <<fresh, inShadow, marks, debugVars, exit, depth>>

\* External: the guest changes what it likes and exits.
Run ==
  /\ pc = "run"
  /\ \E regs \in SUBSET (Regs \ {"shadow"}) :
       fresh' = Written(fresh, regs \cup {"shadow"}, "vcpu")
  /\ inShadow' \in BOOLEAN
  /\ exit' \in Exits
  /\ exit' = "vram" /\ PlanarIsRealMode => "state" \in fresh'["control"]
  /\ pc' = "stopped"
  /\ UNCHANGED <<marks, ioFast, debugVars, depth>>

\* hyperv_io_fastpath; nothing is fetched, RIP and maybe RAX are set in the
\* VCPU.  EventVdmIo has run.
FastIo ==
  /\ pc = "stopped"
  /\ exit = "io"
  /\ ~nano
  /\ ~retf
  /\ \E regs \in SUBSET {"near", "far", "tables", "control", "debug"} :
       /\ regs # {} => PortsTouchRegisters
       /\ fresh' = Written(Written(fresh, regs, "state"), {"gpr"}, "vcpu")
       /\ dirty' \in {dirty, dirty \cup {GroupOf(r) : r \in regs}}
  /\ inShadow' = FALSE
  /\ ioFast' = TRUE
  /\ pc' = "top"
  /\ UNCHANGED <<vramOnly, debugVars, exit, depth>>

\* The trap flag that the detector of a stuck trap has cleared is set again
\* at the first exit of another kind.
Rearmed(f) ==
  IF retf /\ exit # "trap" THEN Written(f, {"tf"}, "state") ELSE f

RearmMarks ==
  /\ dirty' = IF retf /\ exit # "trap" THEN dirty \cup {"GPRS"} ELSE dirty
  /\ retf' = (retf /\ exit = "trap")

\* Variant: video exits go without the full fetch whether or not YODA steps.
FetchWithoutTracing ==
  /\ pc = "stopped"
  /\ fresh' = Rearmed(IF exit = "vram" THEN fresh ELSE Fetched(fresh, Groups))
  /\ RearmMarks
  /\ pc' = "handle"
  /\ UNCHANGED <<inShadow, vramOnly, ioFast, nano, exit, depth>>

FetchAll ==
  /\ pc = "stopped"
  /\ fresh' = Rearmed(IF exit = "vram" /\ ~nano THEN fresh ELSE Fetched(fresh, Groups))
  /\ RearmMarks
  /\ pc' = "handle"
  /\ UNCHANGED <<inShadow, vramOnly, ioFast, nano, exit, depth>>
-----------------------------------------------------------------------------
(* The switch.  "hooks" is where a handler runs code of NTVDM or of YODA   *)
(* that may change registers and call cpu_simulate again.                  *)

Handling(e) == pc = "handle" /\ exit = e

\* DispatchInterrupts; an injection under YODA sets DR0.
Dispatch ==
  \/ UNCHANGED <<fresh, dirty>>
  \/ /\ nano
     /\ fresh' = Written(fresh, {"debug"}, "state")
     /\ dirty' = dirty \cup {"DEBUG"}

\* Back from cpu_simulate, to the handler that called it if there is one.
Leave ==
  IF depth = 0 THEN pc' = "ended" /\ UNCHANGED depth
  ELSE pc' = "hooks" /\ depth' = depth - 1

HandlePause ==
  /\ Handling("pause")
  /\ pc' = "top"
  /\ UNCHANGED <<fresh, inShadow, marks, ioFast, debugVars, exit, depth>>

HandleWindow ==
  /\ Handling("window")
  /\ Dispatch
  /\ pc' = "top"
  /\ UNCHANGED <<inShadow, vramOnly, ioFast, debugVars, exit, depth>>

HandleHalt ==
  /\ Handling("halt")
  /\ \/ Dispatch /\ pc' = "top" /\ UNCHANGED depth
     \/ Leave /\ UNCHANGED <<fresh, dirty>>
  /\ UNCHANGED <<inShadow, vramOnly, ioFast, debugVars, exit>>

\* An instruction is emulated: groups fetched, RIP and others set, GPRS marked.
Emulate(groups) ==
  /\ fresh' = Written(Fetched(fresh, groups), {"gpr"}, "state")
  /\ dirty' = dirty \cup {"GPRS"}
  /\ inShadow' = FALSE

HandleMsr ==
  /\ Handling("msr")
  /\ Emulate({"GPRS"})
  /\ pc' = IF nano THEN "hooks" ELSE "top"
  /\ UNCHANGED <<vramOnly, ioFast, debugVars, exit, depth>>

HandleIo ==
  /\ Handling("io")
  /\ Emulate({"GPRS", "SEGS"})
  /\ pc' = "hooks"
  /\ UNCHANGED <<vramOnly, ioFast, debugVars, exit, depth>>

\* An access in the range of the video mode, with pull_vram.
HandleVram ==
  /\ Handling("vram")
  /\ fresh' = Written(Copied(fresh, {"gpr", "tf", "near"}, "vcpu", "state"), {"gpr"}, "state")
  /\ dirty' = dirty \cup {"GPRS"}
  /\ inShadow' = FALSE
  /\ vramOnly' = TRUE
  /\ pc' = "top"
  /\ UNCHANGED <<ioFast, debugVars, exit, depth>>

\* Elsewhere in A0000..BFFFF, or at any other address.
HandleMemory ==
  /\ Handling("aperture") \/ Handling("memory")
  /\ Emulate({"GPRS", "SEGS"})
  /\ vramOnly' = (vramOnly \/ exit = "aperture")
  /\ pc' = "top"
  /\ UNCHANGED <<ioFast, debugVars, exit, depth>>

\* #DB and #BP: a trap that does not get on loses its trap flag for now; DR0
\* at a handler's entry sets it; then check_I, unless CS is between two modes.
HandleTrap ==
  /\ Handling("trap")
  /\ LET pulled == Fetched(fresh, {"GPRS", "SEGS"})
     IN  \E regs \in {{}, {"debug"}, {"tf", "debug"}} :
           /\ fresh' = Written(pulled, regs, "state")
           /\ dirty' = dirty \cup {GroupOf(r) : r \in regs}
           /\ retf' \in (IF "tf" \in regs THEN {retf, TRUE} ELSE {retf})
  /\ pc' \in {"top", "hooks"}
  /\ UNCHANGED <<inShadow, vramOnly, ioFast, nano, exit, depth>>

\* A BOP, a hook for protected mode, or given to the guest.
HandleException ==
  /\ Handling("exception")
  /\ \/ Emulate({"GPRS", "SEGS"}) /\ pc' = "hooks"
     \/ /\ fresh' = Fetched(fresh, {"GPRS", "SEGS"})
        /\ pc' \in {"hooks", "top"}
        /\ UNCHANGED <<inShadow, dirty>>
  /\ UNCHANGED <<vramOnly, ioFast, debugVars, exit, depth>>

HandleUnrecoverable ==
  /\ Handling("unrecoverable")
  /\ fresh' = Fetched(fresh, Groups)
  /\ pc' = "hooks"
  /\ UNCHANGED <<inShadow, marks, ioFast, debugVars, exit, depth>>
-----------------------------------------------------------------------------
(* In the handler's hooks.                                                 *)

\* A setter marks the group; code that writes to state does not.
SetRegister ==
  /\ pc = "hooks"
  /\ \E r \in Regs \ {"tf", "shadow"} :
       /\ fresh' = Written(fresh, {r}, "state")
       /\ dirty' \in {dirty, dirty \cup {GroupOf(r)}}
  /\ UNCHANGED <<inShadow, vramOnly, ioFast, debugVars, exit, pc, depth>>

\* Nano_slow_yoda: the flush pushes what is marked so far.
StartTracing ==
  /\ pc = "hooks"
  /\ ~nano
  /\ nano' = TRUE
  /\ fresh' = Flushed(Written(fresh, {"tf"}, "state"), dirty \cup {"GPRS"})
  /\ dirty' = {}
  /\ UNCHANGED <<inShadow, vramOnly, ioFast, retf, exit, pc, depth>>

Simulate ==
  /\ pc = "hooks"
  /\ depth < MaxNested
  /\ depth' = depth + 1
  /\ pc' = "top"
  /\ UNCHANGED <<fresh, inShadow, marks, ioFast, debugVars, exit>>

\* The handler returns; host_unsimulate has been called or not.
HandlerDone ==
  /\ pc = "hooks"
  /\ Leave \/ (pc' = "top" /\ UNCHANGED depth)
  /\ UNCHANGED <<fresh, inShadow, marks, ioFast, debugVars, exit>>

Next ==
  \/ Prepare \/ Continue \/ Run \/ FastIo \/ FetchAll
  \/ HandlePause \/ HandleWindow \/ HandleHalt \/ HandleMsr \/ HandleIo
  \/ HandleVram \/ HandleMemory \/ HandleTrap \/ HandleException \/ HandleUnrecoverable
  \/ SetRegister \/ StartTracing \/ Simulate \/ HandlerDone

Spec == Init /\ [][Next]_vars
-----------------------------------------------------------------------------
(* Properties.                                                             *)

(* The variables have their types.                                         *)
TypeOK ==
  /\ fresh \in [Regs -> SUBSET Copies]
  /\ inShadow \in BOOLEAN
  /\ dirty \subseteq Groups
  /\ vramOnly \in BOOLEAN
  /\ ioFast \in BOOLEAN
  /\ nano \in BOOLEAN
  /\ retf \in BOOLEAN
  /\ exit \in Exits
  /\ pc \in {"top", "run", "stopped", "handle", "hooks", "ended"}
  /\ depth \in 0..MaxNested

(* Whenever the guest runs, the VCPU has the newest value of each of its   *)
(* registers, and of the interrupt shadow while the guest is in one: what  *)
(* a handler wrote has been pushed, and no push has put an older value     *)
(* over one that the guest itself had set (the comments at monitor.c 599,  *)
(* 2806 and 2923).  The trap flag is TraceResumes.                         *)
GuestCurrent ==
  pc = "run" =>
    \A r \in Regs \ {"tf"} : (r = "shadow" /\ ~inShadow) \/ "vcpu" \in fresh[r]

(* What the top of the loop, and a handler, is about to read from `state`  *)
(* is the newest: CS and the flags at the top, with YODA everything; after *)
(* a VRAM exit the CR0 that tells the size of an instruction; in the hooks *)
(* everything (the comment at monitor.c 3006 to 3036).                     *)
Needed ==
  CASE pc = "top" /\ ~ioFast -> IF nano THEN Regs \ {"tf", "shadow"} ELSE {"gpr", "near"}
    [] pc = "handle" -> IF exit = "vram" THEN {"control"} ELSE Regs \ {"tf", "shadow"}
    [] pc = "hooks"  -> Regs \ {"tf", "shadow"}
    [] OTHER         -> {}

HandlersCurrent == \A r \in Needed : "state" \in fresh[r]

(* YODA sets the trap flag again at the exit after it had to clear it, and *)
(* the guest runs with it (monitor.c 3043 to 3049 and 3022 to 3024).       *)
TraceResumes == pc = "run" => "vcpu" \in fresh["tf"]
=============================================================================
