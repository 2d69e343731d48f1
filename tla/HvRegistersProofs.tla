-------------------------- MODULE HvRegistersProofs --------------------------
(***************************************************************************)
(* The VCPU has the newest registers when the guest runs, and `state` has  *)
(* them when they are read, for any depth of nested cpu_simulate and with  *)
(* or without YODA.  Neither is inductive: which copy is the newest at the *)
(* top of the loop depends on how the last exit was answered (Top), and a  *)
(* partial flush is right only because of what has been marked since the   *)
(* last one (Marked).                                                      *)
(***************************************************************************)
EXTENDS HvRegisters, TLAPS

Steady == Regs \ {"tf", "shadow"}
Has(copy, regs) == \A r \in regs : copy \in fresh[r]
KeepsShadow(copy) == inShadow => copy \in fresh["shadow"]

StateCurrent == Has("state", Steady) /\ KeepsShadow("state")
VcpuCurrent == Has("vcpu", Steady) /\ KeepsShadow("vcpu")

\* While the guest runs, and until a handler has begun.
AtRun ==
  /\ pc \in {"run", "stopped", "handle"} => VcpuCurrent /\ ~vramOnly /\ ~ioFast
  /\ pc = "stopped" /\ exit = "vram" => "state" \in fresh["control"]

AtHandle ==
  /\ pc = "handle" /\ ~(exit = "vram" /\ ~nano) => StateCurrent
  /\ pc = "handle" /\ exit = "vram" => "state" \in fresh["control"]

AtHooks == pc = "hooks" => StateCurrent /\ ~vramOnly /\ ~ioFast

\* At the top after an ordinary exit, a fast port access, a VRAM exit.
Top ==
  /\ pc = "top" /\ ~ioFast /\ ~vramOnly => StateCurrent
  /\ pc = "top" /\ ioFast => Has("vcpu", Steady) /\ ~inShadow /\ ~vramOnly
  /\ pc = "top" /\ vramOnly =>
       /\ ~inShadow
       /\ Has("vcpu", Steady \ {"gpr"})
       /\ Has("state", IF nano THEN Steady ELSE {"gpr", "near"})

Marked ==
  /\ pc \in {"run", "stopped"} => dirty = {}
  /\ pc = "handle" => dirty \subseteq {"GPRS"}
  /\ pc = "top" /\ ioFast => dirty = {}
  /\ pc = "top" /\ vramOnly => dirty = {"GPRS"}

IInv == TypeOK /\ AtRun /\ AtHandle /\ AtHooks /\ Top /\ Marked
-----------------------------------------------------------------------------
(* The operators.                                                          *)

(* Which group a register is in.                                           *)
LEMMA GroupFacts ==
  /\ GroupOf("gpr") = "GPRS" /\ GroupOf("tf") = "GPRS"
  /\ GroupOf("near") = "SEGS" /\ GroupOf("far") = "SEGS"
  /\ GroupOf("tables") = "TABLES" /\ GroupOf("control") = "CONTROL"
  /\ GroupOf("debug") = "DEBUG" /\ GroupOf("shadow") = "none"
BY DEF GroupOf

(* Every register but the shadow is in a group that can be marked.         *)
LEMMA GroupType == \A r \in Regs \ {"shadow"} : GroupOf(r) \in Groups
BY GroupFacts DEF Regs, Groups

(* The operators return functions like fresh.                              *)
LEMMA CopiedType ==
  ASSUME NEW f \in [Regs -> SUBSET Copies], NEW regs,
         NEW from \in Copies, NEW to \in Copies
  PROVE  Copied(f, regs, from, to) \in [Regs -> SUBSET Copies]
BY DEF Copied

LEMMA OperatorTypes ==
  ASSUME NEW f \in [Regs -> SUBSET Copies], NEW regs, NEW groups, NEW copy \in Copies
  PROVE  /\ Written(f, regs, copy) \in [Regs -> SUBSET Copies]
         /\ Fetched(f, groups) \in [Regs -> SUBSET Copies]
         /\ Flushed(f, groups) \in [Regs -> SUBSET Copies]
<1>1. Written(f, regs, copy) \in [Regs -> SUBSET Copies]
  BY DEF Written
<1>2. "state" \in Copies /\ "vcpu" \in Copies
  BY DEF Copies
<1>3. Fetched(f, groups) \in [Regs -> SUBSET Copies]
  BY <1>2, CopiedType DEF Fetched
<1>4. Flushed(f, groups) \in [Regs -> SUBSET Copies]
  <2> DEFINE pushed == Copied(f, RegsIn(groups), "state", "vcpu")
  <2>1. pushed \in [Regs -> SUBSET Copies]
    BY <1>2, CopiedType
  <2>2. [pushed EXCEPT !["shadow"] = @ \ {"vcpu"}] \in [Regs -> SUBSET Copies]
    BY <2>1
  <2> QED BY <2>1, <2>2 DEF Flushed
<1> QED BY <1>1, <1>3, <1>4

(* A write makes one copy the newest, and leaves the other registers.      *)
LEMMA WrittenIs ==
  ASSUME NEW f, NEW regs, NEW copy, NEW r \in Regs
  PROVE  Written(f, regs, copy)[r] = IF r \in regs THEN {copy} ELSE f[r]
BY DEF Written

(* A fetch from a VCPU that has the newest value makes `state` have it;    *)
(* and it takes nothing from a register of which both copies are the       *)
(* newest, nor from the VCPU.                                              *)
LEMMA FetchedIs ==
  ASSUME NEW f, NEW groups, NEW r \in Regs
  PROVE  /\ "vcpu" \in f[r] => "vcpu" \in Fetched(f, groups)[r]
         /\ "vcpu" \in f[r] /\ "state" \in f[r] => "state" \in Fetched(f, groups)[r]
         /\ groups = Groups /\ "vcpu" \in f[r] => "state" \in Fetched(f, groups)[r]
BY DEF Fetched, Copied, RegsIn

(* A flush pushes the newest value of the registers in its groups, of all  *)
(* registers if it is of all groups, and leaves the other registers.       *)
LEMMA FlushedIs ==
  ASSUME NEW f \in [Regs -> SUBSET Copies], NEW groups, NEW r \in Regs
  PROVE  /\ "state" \in f[r] => "state" \in Flushed(f, groups)[r]
         /\ groups = Groups /\ "state" \in f[r] => "vcpu" \in Flushed(f, groups)[r]
         /\ r # "shadow" /\ GroupOf(r) \in groups /\ "state" \in f[r]
              => "vcpu" \in Flushed(f, groups)[r]
         /\ r # "shadow" /\ groups # Groups /\ GroupOf(r) \notin groups /\ "vcpu" \in f[r]
              => "vcpu" \in Flushed(f, groups)[r]
<1> DEFINE pushed == Copied(f, RegsIn(groups), "state", "vcpu")
<1>1. pushed \in [Regs -> SUBSET Copies]
  BY CopiedType DEF Copies
<1>2. /\ "state" \in f[r] => "state" \in pushed[r]
      /\ r \in RegsIn(groups) /\ "state" \in f[r] => "vcpu" \in pushed[r]
      /\ r \notin RegsIn(groups) => pushed[r] = f[r]
  BY DEF Copied
<1>3. /\ groups = Groups => r \in RegsIn(groups)
      /\ GroupOf(r) \in groups => r \in RegsIn(groups)
      /\ groups # Groups /\ GroupOf(r) \notin groups => r \notin RegsIn(groups)
  BY DEF RegsIn
<1> HIDE DEF pushed
<1>4. /\ "state" \in pushed[r] => "state" \in Flushed(f, groups)[r]
      /\ groups = Groups => Flushed(f, groups) = pushed
      /\ r # "shadow" => Flushed(f, groups)[r] = pushed[r]
  <2>1. "shadow" \in Regs
    BY DEF Regs
  <2>2. [pushed EXCEPT !["shadow"] = @ \ {"vcpu"}][r]
          = IF r = "shadow" THEN pushed[r] \ {"vcpu"} ELSE pushed[r]
    BY <1>1, <2>1
  <2> DEFINE unshadowed == [pushed EXCEPT !["shadow"] = @ \ {"vcpu"}]
  <2>3. \/ Flushed(f, groups) = pushed
        \/ groups # Groups /\ Flushed(f, groups) = unshadowed
    BY DEF Flushed, pushed
  <2>4. /\ "state" \in pushed[r] => "state" \in unshadowed[r]
        /\ r # "shadow" => unshadowed[r] = pushed[r]
    BY <2>2
  <2> HIDE DEF unshadowed
  <2>5. CASE Flushed(f, groups) = pushed
    BY <2>5
  <2>6. CASE groups # Groups /\ Flushed(f, groups) = unshadowed
    BY <2>4, <2>6
  <2> QED BY <2>3, <2>5, <2>6
<1> QED BY <1>2, <1>3, <1>4
-----------------------------------------------------------------------------
(* The first state is one of IInv.                                         *)
LEMMA InitIInv == Init => IInv
<1> SUFFICES ASSUME Init PROVE IInv
  OBVIOUS
<1>1. TypeOK
  <2>1. fresh \in [Regs -> SUBSET Copies]
    BY DEF Init, Copies
  <2>2. depth \in 0..MaxNested
    BY HvRegistersAssumption DEF Init
  <2> QED BY <2>1, <2>2 DEF Init, TypeOK, Exits
<1>2. StateCurrent
  BY DEF Init, StateCurrent, Has, KeepsShadow, Steady
<1> QED BY <1>1, <1>2 DEF Init, IInv, AtRun, AtHandle, AtHooks, Top, Marked

(* Whatever was marked, the preparation leaves the VCPU with the newest of *)
(* every register: all is pushed, or all that a VRAM exit and YODA wrote.  *)
LEMMA PrepareStep == IInv /\ Prepare => IInv'
<1> SUFFICES ASSUME IInv, Prepare PROVE IInv'
  OBVIOUS
<1> DEFINE touched == IF nano THEN {"debug"} ELSE {}
           marked == dirty \cup (IF nano THEN {"DEBUG"} ELSE {})
                           \cup (IF vramOnly THEN {} ELSE Groups)
           f == Written(fresh, touched, "state")
<1>1. /\ pc = "top" /\ ~ioFast
      /\ fresh' = Flushed(f, marked)
      /\ dirty' = {} /\ vramOnly' = FALSE /\ pc' = "run"
      /\ UNCHANGED <<inShadow, ioFast, nano, retf, exit, depth>>
  BY DEF Prepare, debugVars
<1>2. f \in [Regs -> SUBSET Copies] /\ fresh' \in [Regs -> SUBSET Copies]
  <2>1. "state" \in Copies
    BY DEF Copies
  <2>2. f \in [Regs -> SUBSET Copies]
    BY <2>1, OperatorTypes DEF IInv, TypeOK
  <2> QED BY <1>1, <2>1, <2>2, OperatorTypes
<1>3. TypeOK'
  BY <1>1, <1>2 DEF IInv, TypeOK
<1>4. \A r \in Regs : f[r] = IF r = "debug" /\ nano THEN {"state"} ELSE fresh[r]
  <2>1. \A r : r \in touched <=> r = "debug" /\ nano
    OBVIOUS
  <2>2. \A r \in Regs : f[r] = IF r \in touched THEN {"state"} ELSE fresh[r]
    BY DEF Written
  <2> HIDE DEF touched, f
  <2> QED BY <2>1, <2>2
<1>5. CASE ~vramOnly
  <2>1. marked = Groups
    BY <1>5 DEF IInv, TypeOK, Groups
  <2>2. \A r \in Regs : "state" \in fresh[r] => "state" \in f[r]
    BY <1>4
  <2>3. \A r \in Regs : "state" \in fresh[r] => "vcpu" \in fresh'[r]
    BY <1>1, <1>2, <2>1, <2>2, FlushedIs
  <2>4. StateCurrent /\ Steady \subseteq Regs /\ "shadow" \in Regs
    BY <1>1, <1>5 DEF IInv, Top, Steady, Regs
  <2>5. VcpuCurrent'
    BY <1>1, <2>3, <2>4 DEF StateCurrent, VcpuCurrent, Has, KeepsShadow
  <2> QED BY <1>1, <1>3, <2>5 DEF IInv, AtRun, AtHandle, AtHooks, Top, Marked
<1>6. CASE vramOnly
  <2>1. /\ ~inShadow /\ Has("vcpu", Steady \ {"gpr"}) /\ dirty = {"GPRS"}
        /\ "state" \in fresh["gpr"]
    BY <1>1, <1>6 DEF IInv, Top, Marked, Has, Steady, Regs
  <2>2. /\ marked # Groups /\ "GPRS" \in marked
        /\ \A r \in Steady : GroupOf(r) \in marked => r = "gpr" \/ (r = "debug" /\ nano)
    BY <1>6, <2>1, GroupFacts DEF Groups, Steady, Regs
  <2>3. nano => GroupOf("debug") \in marked /\ "state" \in f["debug"]
    BY <1>4, GroupFacts DEF Regs
  <2>4. "state" \in f["gpr"]
    BY <1>4, <2>1 DEF Regs
  <2>5. ASSUME NEW r \in Steady PROVE "vcpu" \in fresh'[r]
    <3>1. r \in Regs /\ r # "shadow"
      BY DEF Steady
    <3>2. CASE GroupOf(r) \in marked
      <4>1. "state" \in f[r]
        BY <2>2, <2>3, <2>4, <3>2
      <4> QED BY <1>1, <1>2, <3>1, <3>2, <4>1, FlushedIs
    <3>3. CASE GroupOf(r) \notin marked
      <4>1. r # "gpr" /\ ~(r = "debug" /\ nano)
        BY <2>2, <2>3, <3>3, GroupFacts
      <4>2. "vcpu" \in f[r]
        BY <1>4, <2>1, <3>1, <4>1 DEF Has
      <4> QED BY <1>1, <1>2, <2>2, <3>1, <3>3, <4>2, FlushedIs
    <3> QED BY <3>2, <3>3
  <2>6. VcpuCurrent'
    BY <1>1, <2>1, <2>5 DEF VcpuCurrent, Has, KeepsShadow
  <2> QED BY <1>1, <1>3, <2>6 DEF IInv, AtRun, AtHandle, AtHooks, Top, Marked
<1> QED BY <1>5, <1>6 DEF IInv, TypeOK

(* Into the run after a fast port access, with nothing pushed: the VCPU    *)
(* has everything anyway.                                                  *)
LEMMA ContinueStep == IInv /\ Continue => IInv'
<1> SUFFICES ASSUME IInv, Continue PROVE IInv'
  OBVIOUS
<1>1. /\ pc = "top" /\ ioFast /\ ~ioFast' /\ pc' = "run"
      /\ UNCHANGED <<fresh, inShadow, dirty, vramOnly, nano, retf, exit, depth>>
  BY DEF Continue, marks, debugVars, IInv, TypeOK
<1>2. TypeOK'
  BY <1>1 DEF Continue, IInv, TypeOK
<1>3. VcpuCurrent' /\ ~vramOnly'
  BY <1>1 DEF IInv, Top, VcpuCurrent, Has, KeepsShadow
<1>4. dirty' = {}
  BY <1>1 DEF IInv, Marked
<1> QED BY <1>1, <1>2, <1>3, <1>4 DEF IInv, AtRun, AtHandle, AtHooks, Top, Marked

(* What the guest writes, it writes to the VCPU.                           *)
LEMMA RunStep == PlanarIsRealMode /\ IInv /\ Run => IInv'
<1> SUFFICES ASSUME PlanarIsRealMode, IInv, Run PROVE IInv'
  OBVIOUS
<1>1. PICK regs \in SUBSET (Regs \ {"shadow"}) :
        fresh' = Written(fresh, regs \cup {"shadow"}, "vcpu")
  BY DEF Run
<1>2. /\ pc = "run" /\ pc' = "stopped" /\ inShadow' \in BOOLEAN /\ exit' \in Exits
      /\ exit' = "vram" => "state" \in fresh'["control"]
      /\ UNCHANGED <<dirty, vramOnly, ioFast, nano, retf, depth>>
  BY DEF Run, marks, debugVars
<1>3. TypeOK'
  <2>1. fresh' \in [Regs -> SUBSET Copies]
    BY <1>1, OperatorTypes DEF IInv, TypeOK, Copies
  <2> QED BY <1>2, <2>1 DEF IInv, TypeOK
<1>4. \A r \in Regs : "vcpu" \in fresh[r] \/ r = "shadow" => "vcpu" \in fresh'[r]
  BY <1>1 DEF Written
<1>5. VcpuCurrent'
  BY <1>2, <1>4 DEF IInv, AtRun, VcpuCurrent, Has, KeepsShadow, Steady, Regs
<1> QED BY <1>2, <1>3, <1>5 DEF IInv, AtRun, AtHandle, AtHooks, Top, Marked

(* RIP and RAX are set in the VCPU, and `state` is left behind.            *)
LEMMA FastIoStep == ~PortsTouchRegisters /\ IInv /\ FastIo => IInv'
<1> SUFFICES ASSUME ~PortsTouchRegisters, IInv, FastIo PROVE IInv'
  OBVIOUS
<1>1. PICK regs \in SUBSET {"near", "far", "tables", "control", "debug"} :
        /\ regs # {} => PortsTouchRegisters
        /\ fresh' = Written(Written(fresh, regs, "state"), {"gpr"}, "vcpu")
        /\ dirty' \in {dirty, dirty \cup {GroupOf(r) : r \in regs}}
  BY DEF FastIo
<1>2. /\ pc = "stopped" /\ pc' = "top" /\ inShadow' = FALSE /\ ioFast' = TRUE
      /\ UNCHANGED <<vramOnly, nano, retf, exit, depth>>
  BY DEF FastIo, debugVars
<1>3. regs = {}
  BY <1>1
<1>4. dirty' = dirty /\ dirty = {}
  <2>1. dirty = {}
    BY <1>2 DEF IInv, Marked
  <2>2. {GroupOf(r) : r \in regs} = {}
    BY <1>3
  <2> QED BY <1>1, <2>1, <2>2
<1>5. \A r \in Regs : fresh'[r] = IF r = "gpr" THEN {"vcpu"} ELSE fresh[r]
  BY <1>1, <1>3 DEF Written
<1>6. TypeOK'
  <2>1. fresh' \in [Regs -> SUBSET Copies]
    BY <1>1, OperatorTypes DEF IInv, TypeOK, Copies
  <2> QED BY <1>2, <1>4, <2>1 DEF IInv, TypeOK
<1>7. Has("vcpu", Steady)' /\ ~vramOnly
  BY <1>2, <1>5 DEF IInv, AtRun, VcpuCurrent, Has, Steady
<1> QED BY <1>2, <1>4, <1>6, <1>7 DEF IInv, AtRun, AtHandle, AtHooks, Top, Marked

(* The full fetch leaves both copies the newest, but for the trap flag.    *)
LEMMA FetchStep == IInv /\ FetchAll => IInv'
<1> SUFFICES ASSUME IInv, FetchAll PROVE IInv'
  OBVIOUS
<1> DEFINE skipped == exit = "vram" /\ ~nano
           f == IF skipped THEN fresh ELSE Fetched(fresh, Groups)
<1>1. /\ pc = "stopped" /\ pc' = "handle" /\ fresh' = Rearmed(f) /\ RearmMarks
      /\ UNCHANGED <<inShadow, vramOnly, ioFast, nano, exit, depth>>
  BY DEF FetchAll
<1>2. f \in [Regs -> SUBSET Copies]
  BY OperatorTypes DEF IInv, TypeOK, Copies
<1>3. /\ fresh' \in [Regs -> SUBSET Copies]
      /\ \A r \in Regs \ {"tf"} : fresh'[r] = f[r]
  <2>1. Written(f, {"tf"}, "state") \in [Regs -> SUBSET Copies]
    BY <1>2, OperatorTypes DEF Copies
  <2>2. \A r \in Regs \ {"tf"} : Written(f, {"tf"}, "state")[r] = f[r]
    BY WrittenIs
  <2>3. fresh' = f \/ fresh' = Written(f, {"tf"}, "state")
    BY <1>1 DEF Rearmed
  <2> QED BY <1>2, <2>1, <2>2, <2>3
<1>4. dirty' \subseteq {"GPRS"} /\ retf' \in BOOLEAN
  BY <1>1 DEF RearmMarks, IInv, Marked
<1>5. TypeOK'
  BY <1>1, <1>3, <1>4 DEF IInv, TypeOK, Groups
<1>6. VcpuCurrent /\ ~vramOnly /\ ~ioFast /\ (exit = "vram" => "state" \in fresh["control"])
  BY <1>1 DEF IInv, AtRun
<1>7. \A r \in Regs \ {"tf"} :
        /\ "vcpu" \in fresh[r] => "vcpu" \in fresh'[r]
        /\ "vcpu" \in fresh[r] /\ "state" \in fresh[r] => "state" \in fresh'[r]
        /\ "vcpu" \in fresh[r] /\ ~skipped => "state" \in fresh'[r]
  BY <1>3, FetchedIs
<1>8. Steady \subseteq Regs \ {"tf"} /\ "shadow" \in Regs \ {"tf"} /\ "control" \in Steady
  BY DEF Steady, Regs
<1>9. VcpuCurrent' /\ (exit = "vram" => "state" \in fresh'["control"])
  BY <1>1, <1>6, <1>7, <1>8 DEF VcpuCurrent, Has, KeepsShadow
<1>10. ~skipped => StateCurrent'
  BY <1>1, <1>6, <1>7, <1>8 DEF VcpuCurrent, StateCurrent, Has, KeepsShadow
<1> QED BY <1>1, <1>4, <1>5, <1>6, <1>9, <1>10 DEF IInv, AtRun, AtHandle, AtHooks, Top, Marked
-----------------------------------------------------------------------------
(* The handlers.                                                           *)

(* After the fetch, the selective fetches of the handlers are no-ops: each *)
(* register whose copies are both the newest keeps both.                   *)
LEMMA FetchAgain ==
  ASSUME IInv, pc = "handle", ~(exit = "vram" /\ ~nano), NEW groups
  PROVE  /\ \A r \in Steady : {"state", "vcpu"} \subseteq Fetched(fresh, groups)[r]
         /\ inShadow => "state" \in Fetched(fresh, groups)["shadow"]
<1>1. VcpuCurrent /\ StateCurrent
  BY DEF IInv, AtRun, AtHandle
<1>2. \A r \in Regs : "vcpu" \in fresh[r] /\ "state" \in fresh[r]
        => {"state", "vcpu"} \subseteq Fetched(fresh, groups)[r]
  BY FetchedIs
<1>3. Steady \subseteq Regs /\ "shadow" \in Regs
  BY DEF Steady, Regs
<1> QED BY <1>1, <1>2, <1>3 DEF VcpuCurrent, StateCurrent, Has, KeepsShadow

(* A handler that ends where `state` is the newest keeps IInv.             *)
LEMMA HandledIInv ==
  ASSUME IInv, pc = "handle", TypeOK', StateCurrent', pc' \in {"top", "hooks"},
         UNCHANGED <<vramOnly, ioFast>>
  PROVE  IInv'
<1>1. ~vramOnly /\ ~ioFast
  BY DEF IInv, AtRun
<1> QED BY <1>1 DEF IInv, AtRun, AtHandle, AtHooks, Top, Marked

(* A handler that fetches, writes some registers to `state` and marks.     *)
LEMMA EmulateStep ==
  ASSUME IInv, pc = "handle", ~(exit = "vram" /\ ~nano),
         NEW groups, NEW regs, fresh' = Written(Fetched(fresh, groups), regs, "state"),
         dirty' \subseteq Groups, inShadow' = FALSE \/ inShadow' = inShadow,
         UNCHANGED <<nano, exit, depth>>, vramOnly' \in BOOLEAN, ioFast' = ioFast,
         retf' \in BOOLEAN, pc' \in {"top", "hooks"}
  PROVE  TypeOK' /\ StateCurrent'
<1> DEFINE pulled == Fetched(fresh, groups)
<1>1. /\ \A r \in Steady : {"state", "vcpu"} \subseteq pulled[r]
      /\ inShadow => "state" \in pulled["shadow"]
  BY FetchAgain
<1>2. pulled \in [Regs -> SUBSET Copies]
  BY OperatorTypes DEF IInv, TypeOK, Copies
<1> HIDE DEF pulled
<1>3. fresh' = Written(pulled, regs, "state")
  BY DEF pulled
<1>4. fresh' \in [Regs -> SUBSET Copies]
  BY <1>2, <1>3, OperatorTypes DEF Copies
<1>5. \A r \in Regs : "state" \in pulled[r] => "state" \in fresh'[r]
  BY <1>3 DEF Written
<1>6. Steady \subseteq Regs /\ "shadow" \in Regs
  BY DEF Steady, Regs
<1>7. StateCurrent'
  BY <1>1, <1>5, <1>6 DEF StateCurrent, Has, KeepsShadow
<1>8. TypeOK'
  BY <1>4 DEF IInv, TypeOK
<1> QED BY <1>7, <1>8

(* MSRs, ports, exceptions: every exit that is emulated or hooked.         *)
LEMMA EmulatingStep == IInv /\ (HandleMsr \/ HandleIo \/ HandleException \/ HandleTrap) => IInv'
<1> SUFFICES ASSUME IInv, HandleMsr \/ HandleIo \/ HandleException \/ HandleTrap PROVE IInv'
  OBVIOUS
<1>1. /\ pc = "handle" /\ exit # "vram" /\ pc' \in {"top", "hooks"}
      /\ UNCHANGED <<vramOnly, ioFast, nano, exit, depth>>
  BY DEF HandleMsr, HandleIo, HandleException, HandleTrap, Handling, debugVars
<1>2. vramOnly \in BOOLEAN /\ retf \in BOOLEAN /\ dirty \subseteq Groups /\ inShadow \in BOOLEAN
  BY DEF IInv, TypeOK
<1>3. \E groups, regs :
        /\ fresh' = Written(Fetched(fresh, groups), regs, "state")
        /\ dirty' \subseteq Groups
        /\ inShadow' = FALSE \/ inShadow' = inShadow
        /\ retf' \in BOOLEAN
  <2>1. CASE HandleMsr
    BY <1>2, <2>1 DEF HandleMsr, Emulate, Groups, debugVars
  <2>2. CASE HandleIo
    BY <1>2, <2>2 DEF HandleIo, Emulate, Groups, debugVars
  <2>3. CASE HandleException
    <3>1. CASE Emulate({"GPRS", "SEGS"})
      BY <1>2, <2>3, <3>1 DEF HandleException, Emulate, Groups, debugVars
    <3>2. CASE fresh' = Fetched(fresh, {"GPRS", "SEGS"}) /\ UNCHANGED <<inShadow, dirty>>
      <4>1. Fetched(fresh, {"GPRS", "SEGS"}) = Written(Fetched(fresh, {"GPRS", "SEGS"}), {}, "state")
        BY DEF Written, Fetched, Copied
      <4> QED BY <1>2, <2>3, <3>2, <4>1 DEF HandleException, debugVars
    <3> QED BY <2>3, <3>1, <3>2 DEF HandleException
  <2>4. CASE HandleTrap
    <3>1. PICK regs \in {{}, {"debug"}, {"tf", "debug"}} :
            /\ fresh' = Written(Fetched(fresh, {"GPRS", "SEGS"}), regs, "state")
            /\ dirty' = dirty \cup {GroupOf(r) : r \in regs}
            /\ retf' \in (IF "tf" \in regs THEN {retf, TRUE} ELSE {retf})
      BY <2>4 DEF HandleTrap
    <3>2. {GroupOf(r) : r \in regs} \subseteq Groups
      BY GroupType DEF Regs
    <3>3. inShadow' = inShadow
      BY <2>4 DEF HandleTrap
    <3>4. retf' \in BOOLEAN
      BY <1>2, <3>1
    <3> QED BY <1>2, <3>1, <3>2, <3>3, <3>4
  <2> QED BY <2>1, <2>2, <2>3, <2>4
<1>4. vramOnly' \in BOOLEAN
  BY <1>1, <1>2
<1>5. TypeOK' /\ StateCurrent'
  BY <1>1, <1>3, <1>4, EmulateStep
<1> QED BY <1>1, <1>5, HandledIInv

(* A VRAM exit leaves what only the VCPU has there, and marks what it      *)
(* wrote; the access elsewhere in the aperture comes after a full fetch.   *)
LEMMA VideoStep == IInv /\ (HandleVram \/ HandleMemory) => IInv'
<1>1. ASSUME IInv, HandleVram PROVE IInv'
  <2> DEFINE f == Copied(fresh, {"gpr", "tf", "near"}, "vcpu", "state")
  <2>1. /\ pc = "handle" /\ exit = "vram" /\ pc' = "top" /\ inShadow' = FALSE
        /\ fresh' = Written(f, {"gpr"}, "state") /\ vramOnly' = TRUE
        /\ dirty' = dirty \cup {"GPRS"}
        /\ UNCHANGED <<ioFast, nano, retf, exit, depth>>
    BY <1>1 DEF HandleVram, Handling, debugVars
  <2>2. VcpuCurrent /\ ~ioFast /\ dirty \subseteq {"GPRS"} /\ (nano => StateCurrent)
    BY <1>1, <2>1 DEF IInv, AtRun, AtHandle, Marked
  <2>3. TypeOK'
    <3>1. f \in [Regs -> SUBSET Copies]
      BY <1>1, CopiedType DEF IInv, TypeOK, Copies
    <3>2. fresh' \in [Regs -> SUBSET Copies]
      BY <2>1, <3>1, OperatorTypes DEF Copies
    <3> QED BY <1>1, <2>1, <2>2, <3>2 DEF IInv, TypeOK, Groups
  <2>4. \A r \in Regs \ {"gpr"} :
          /\ "vcpu" \in fresh[r] => "vcpu" \in fresh'[r]
          /\ "vcpu" \in fresh[r] /\ "state" \in fresh[r] => "state" \in fresh'[r]
          /\ "vcpu" \in fresh[r] /\ r = "near" => "state" \in fresh'[r]
    BY <2>1 DEF Written, Copied
  <2>5. "state" \in fresh'["gpr"]
    BY <2>1 DEF Written, Regs
  <2>6. Steady \subseteq Regs /\ "near" \in Steady
    BY DEF Steady, Regs
  <2>7. Has("vcpu", Steady \ {"gpr"})'
    BY <2>2, <2>4, <2>6 DEF VcpuCurrent, Has
  <2>8. Has("state", {"gpr", "near"})'
    BY <2>2, <2>4, <2>5, <2>6 DEF VcpuCurrent, Has, Steady, Regs
  <2>9. nano => Has("state", Steady)'
    BY <2>2, <2>4, <2>5, <2>6 DEF VcpuCurrent, StateCurrent, Has
  <2>10. Has("state", IF nano THEN Steady ELSE {"gpr", "near"})'
    BY <2>1, <2>8, <2>9
  <2>11. dirty' = {"GPRS"}
    BY <2>1, <2>2
  <2> QED BY <2>1, <2>2, <2>3, <2>7, <2>10, <2>11 DEF IInv, AtRun, AtHandle, AtHooks, Top, Marked
<1>2. ASSUME IInv, HandleMemory PROVE IInv'
  <2>1. /\ pc = "handle" /\ exit \in {"aperture", "memory"} /\ pc' = "top" /\ inShadow' = FALSE
        /\ fresh' = Written(Fetched(fresh, {"GPRS", "SEGS"}), {"gpr"}, "state")
        /\ dirty' = dirty \cup {"GPRS"} /\ vramOnly' = (vramOnly \/ exit = "aperture")
        /\ UNCHANGED <<ioFast, nano, retf, exit, depth>>
    BY <1>2 DEF HandleMemory, Handling, Emulate, debugVars
  <2>2. ~ioFast /\ dirty \subseteq {"GPRS"}
    BY <1>2, <2>1 DEF IInv, AtRun, Marked
  <2>3. dirty' = {"GPRS"} /\ dirty' \subseteq Groups
    BY <2>1, <2>2 DEF Groups
  <2>4. vramOnly' \in BOOLEAN /\ retf' \in BOOLEAN
    BY <1>2, <2>1 DEF IInv, TypeOK
  <2>5. TypeOK' /\ StateCurrent'
    BY <1>2, <2>1, <2>3, <2>4, EmulateStep
  <2>6. \A r \in Steady : "vcpu" \in Fetched(fresh, {"GPRS", "SEGS"})[r]
    BY <1>2, <2>1, FetchAgain
  <2>7. Has("vcpu", Steady \ {"gpr"})'
    BY <2>1, <2>6 DEF Has, Written, Steady
  <2>8. {"gpr", "near"} \subseteq Steady
    BY DEF Steady, Regs
  <2>9. Has("state", IF nano THEN Steady ELSE {"gpr", "near"})'
    BY <2>5, <2>8 DEF StateCurrent, Has
  <2> QED BY <2>1, <2>2, <2>3, <2>5, <2>7, <2>9 DEF IInv, AtRun, AtHandle, AtHooks, Top, Marked
<1> QED BY <1>1, <1>2

(* A dispatch writes at most DR0 and DR7, in `state`.                      *)
LEMMA DispatchKeeps ==
  ASSUME IInv, StateCurrent, Dispatch, inShadow' = inShadow
  PROVE  /\ fresh' \in [Regs -> SUBSET Copies] /\ dirty' \subseteq Groups
         /\ StateCurrent'
<1>1. CASE UNCHANGED <<fresh, dirty>>
  BY <1>1 DEF IInv, TypeOK, StateCurrent, Has, KeepsShadow
<1>2. CASE fresh' = Written(fresh, {"debug"}, "state") /\ dirty' = dirty \cup {"DEBUG"}
  <2>1. fresh' \in [Regs -> SUBSET Copies]
    BY <1>2, OperatorTypes DEF IInv, TypeOK, Copies
  <2>2. \A r \in Regs : "state" \in fresh[r] => "state" \in fresh'[r]
    BY <1>2 DEF Written
  <2>3. Steady \subseteq Regs /\ "shadow" \in Regs
    BY DEF Steady, Regs
  <2>4. StateCurrent'
    BY <2>2, <2>3 DEF StateCurrent, Has, KeepsShadow
  <2> QED BY <1>2, <2>1, <2>4 DEF IInv, TypeOK, Groups
<1> QED BY <1>1, <1>2 DEF Dispatch

(* Back in a handler of the outer call, or at the end.                     *)
LEMMA LeaveKeeps ==
  ASSUME IInv, Leave PROVE pc' \in {"hooks", "ended"} /\ depth' \in 0..MaxNested
BY HvRegistersAssumption DEF Leave, IInv, TypeOK

(* The handlers that emulate nothing.                                      *)
LEMMA QuietStep ==
  IInv /\ (HandlePause \/ HandleWindow \/ HandleHalt \/ HandleUnrecoverable) => IInv'
<1> SUFFICES ASSUME IInv, HandlePause \/ HandleWindow \/ HandleHalt \/ HandleUnrecoverable
             PROVE IInv'
  OBVIOUS
<1>1. /\ pc = "handle" /\ exit # "vram"
      /\ UNCHANGED <<inShadow, vramOnly, ioFast, nano, retf, exit>>
  BY DEF HandlePause, HandleWindow, HandleHalt, HandleUnrecoverable, Handling, marks, debugVars
<1>2. StateCurrent /\ ~vramOnly /\ ~ioFast
  BY <1>1 DEF IInv, AtRun, AtHandle
<1>3. /\ fresh' \in [Regs -> SUBSET Copies] /\ dirty' \subseteq Groups /\ StateCurrent'
      /\ pc' \in {"top", "hooks", "ended"} /\ depth' \in 0..MaxNested
  <2>1. CASE HandlePause
    BY <2>1, <1>2 DEF HandlePause, IInv, TypeOK, StateCurrent, Has, KeepsShadow, marks
  <2>2. CASE HandleWindow
    BY <2>2, <1>1, <1>2, DispatchKeeps DEF HandleWindow, IInv, TypeOK
  <2>3. CASE HandleHalt
    <3>1. CASE Dispatch /\ pc' = "top" /\ UNCHANGED depth
      BY <3>1, <1>1, <1>2, DispatchKeeps DEF IInv, TypeOK
    <3>2. CASE Leave /\ UNCHANGED <<fresh, dirty>>
      BY <3>2, <1>1, <1>2, LeaveKeeps DEF IInv, TypeOK, StateCurrent, Has, KeepsShadow
    <3> QED BY <2>3, <3>1, <3>2 DEF HandleHalt
  <2>4. CASE HandleUnrecoverable
    <3>1. fresh' = Fetched(fresh, Groups) /\ dirty' = dirty /\ pc' = "hooks" /\ depth' = depth
      BY <2>4 DEF HandleUnrecoverable, marks
    <3>2. fresh' \in [Regs -> SUBSET Copies]
      BY <3>1, OperatorTypes DEF IInv, TypeOK, Copies
    <3>3. /\ \A r \in Steady : "state" \in fresh'[r]
          /\ inShadow => "state" \in fresh'["shadow"]
      BY <1>1, <3>1, FetchAgain
    <3> QED BY <1>1, <3>1, <3>2, <3>3 DEF IInv, TypeOK, StateCurrent, Has, KeepsShadow
  <2> QED BY <2>1, <2>2, <2>3, <2>4
<1>4. TypeOK'
  BY <1>1, <1>3 DEF IInv, TypeOK
<1> QED BY <1>1, <1>2, <1>3, <1>4 DEF IInv, AtRun, AtHandle, AtHooks, Top, Marked

(* In the hooks everything is written to `state`, and a flush from there   *)
(* takes nothing away from it.                                             *)
LEMMA HooksStep == IInv /\ (SetRegister \/ StartTracing \/ Simulate \/ HandlerDone) => IInv'
<1> SUFFICES ASSUME IInv, SetRegister \/ StartTracing \/ Simulate \/ HandlerDone PROVE IInv'
  OBVIOUS
<1>1. /\ pc = "hooks"
      /\ UNCHANGED <<inShadow, vramOnly, ioFast, retf, exit>>
  BY DEF SetRegister, StartTracing, Simulate, HandlerDone, marks, debugVars
<1>2. StateCurrent /\ ~vramOnly /\ ~ioFast
  BY <1>1 DEF IInv, AtHooks
<1>3. Steady \subseteq Regs /\ "shadow" \in Regs
  BY DEF Steady, Regs
<1>4. /\ fresh' \in [Regs -> SUBSET Copies] /\ dirty' \subseteq Groups /\ StateCurrent'
      /\ nano' \in BOOLEAN /\ pc' \in {"top", "hooks", "ended"} /\ depth' \in 0..MaxNested
  <2>1. CASE SetRegister
    <3>1. PICK r \in Regs \ {"tf", "shadow"} :
            /\ fresh' = Written(fresh, {r}, "state")
            /\ dirty' \in {dirty, dirty \cup {GroupOf(r)}}
      BY <2>1 DEF SetRegister
    <3>2. fresh' \in [Regs -> SUBSET Copies]
      BY <3>1, OperatorTypes DEF IInv, TypeOK, Copies
    <3>3. \A x \in Regs : "state" \in fresh[x] => "state" \in fresh'[x]
      BY <3>1 DEF Written
    <3>4. StateCurrent'
      BY <1>1, <1>2, <1>3, <3>3 DEF StateCurrent, Has, KeepsShadow
    <3>5. dirty' \subseteq Groups
      BY <3>1, GroupType DEF IInv, TypeOK
    <3> QED BY <2>1, <3>2, <3>4, <3>5 DEF SetRegister, IInv, TypeOK, debugVars
  <2>2. CASE StartTracing
    <3> DEFINE f == Written(fresh, {"tf"}, "state")
    <3>1. fresh' = Flushed(f, dirty \cup {"GPRS"})
      BY <2>2 DEF StartTracing
    <3>2. f \in [Regs -> SUBSET Copies]
      BY OperatorTypes DEF IInv, TypeOK, Copies
    <3>3. \A r \in Regs : "state" \in fresh[r] => "state" \in f[r]
      BY DEF Written
    <3> HIDE DEF f
    <3>4. fresh' \in [Regs -> SUBSET Copies]
      BY <3>1, <3>2, OperatorTypes DEF Copies
    <3>5. \A r \in Regs : "state" \in fresh[r] => "state" \in fresh'[r]
      BY <3>1, <3>2, <3>3, FlushedIs
    <3>6. StateCurrent'
      BY <1>1, <1>2, <1>3, <3>5 DEF StateCurrent, Has, KeepsShadow
    <3> QED BY <2>2, <3>4, <3>6 DEF StartTracing, IInv, TypeOK
  <2>3. CASE Simulate
    BY <2>3, <1>1, <1>2, HvRegistersAssumption
       DEF Simulate, IInv, TypeOK, StateCurrent, Has, KeepsShadow, marks, debugVars
  <2>4. CASE HandlerDone
    <3>1. pc' \in {"top", "hooks", "ended"} /\ depth' \in 0..MaxNested
      BY <2>4, LeaveKeeps DEF HandlerDone, IInv, TypeOK
    <3> QED BY <2>4, <3>1, <1>1, <1>2
            DEF HandlerDone, IInv, TypeOK, StateCurrent, Has, KeepsShadow, marks, debugVars
  <2> QED BY <2>1, <2>2, <2>3, <2>4
<1>5. TypeOK'
  BY <1>1, <1>4 DEF IInv, TypeOK
<1> QED BY <1>1, <1>2, <1>4, <1>5 DEF IInv, AtRun, AtHandle, AtHooks, Top, Marked
-----------------------------------------------------------------------------
(* The theorems.                                                           *)

(* IInv holds throughout, where video memory is trapped in real mode only  *)
(* and port handlers leave the registers alone.                            *)
THEOREM RegistersInvariant ==
  PlanarIsRealMode /\ ~PortsTouchRegisters /\ Spec => []IInv
<1> SUFFICES ASSUME PlanarIsRealMode, ~PortsTouchRegisters PROVE Spec => []IInv
  OBVIOUS
<1>1. IInv /\ [Next]_vars => IInv'
  <2>1. IInv /\ UNCHANGED vars => IInv'
    BY DEF vars, IInv, TypeOK, AtRun, AtHandle, AtHooks, Top, Marked,
           StateCurrent, VcpuCurrent, Has, KeepsShadow
  <2>2. IInv /\ Next => IInv'
    BY PrepareStep, ContinueStep, RunStep, FastIoStep, FetchStep, QuietStep,
       EmulatingStep, VideoStep, HooksStep DEF Next
  <2> QED BY <2>1, <2>2
<1> QED BY InitIInv, <1>1, PTL DEF Spec

(* The types of the variables.                                             *)
THEOREM RegistersTyped == PlanarIsRealMode /\ ~PortsTouchRegisters /\ Spec => []TypeOK
<1>1. IInv => TypeOK
  BY DEF IInv
<1> QED BY <1>1, RegistersInvariant, PTL

(* When the guest runs, the VCPU has the newest of all its registers.      *)
THEOREM GuestRunsCurrent == PlanarIsRealMode /\ ~PortsTouchRegisters /\ Spec => []GuestCurrent
<1>1. IInv => GuestCurrent
  BY DEF IInv, AtRun, VcpuCurrent, Has, KeepsShadow, Steady, GuestCurrent
<1> QED BY <1>1, RegistersInvariant, PTL

(* What the loop and the handlers read from `state` is the newest.         *)
THEOREM HandlersReadCurrent ==
  PlanarIsRealMode /\ ~PortsTouchRegisters /\ Spec => []HandlersCurrent
<1>1. ASSUME IInv PROVE HandlersCurrent
  <2>1. {"gpr", "near", "control"} \subseteq Steady
    BY DEF Steady, Regs
  <2>2. CASE pc = "top" /\ ~ioFast
    <3>1. nano => Has("state", Steady)
      BY <1>1, <2>2 DEF IInv, Top, StateCurrent
    <3>2. Has("state", {"gpr", "near"})
      BY <1>1, <2>1, <2>2 DEF IInv, Top, StateCurrent, Has
    <3>3. Needed = IF nano THEN Steady ELSE {"gpr", "near"}
      BY <2>2 DEF Needed, Steady
    <3> QED BY <3>1, <3>2, <3>3 DEF HandlersCurrent, Has
  <2>3. CASE pc = "handle"
    <3>1. exit # "vram" => Has("state", Steady)
      BY <1>1, <2>3 DEF IInv, AtHandle, StateCurrent
    <3>2. exit = "vram" => "state" \in fresh["control"]
      BY <1>1, <2>3 DEF IInv, AtHandle
    <3>3. Needed = IF exit = "vram" THEN {"control"} ELSE Steady
      BY <2>3 DEF Needed, Steady
    <3> QED BY <3>1, <3>2, <3>3 DEF HandlersCurrent, Has
  <2>4. CASE pc = "hooks"
    <3>1. Needed = Steady
      BY <2>4 DEF Needed, Steady
    <3> QED BY <1>1, <2>4, <3>1 DEF IInv, AtHooks, StateCurrent, Has, HandlersCurrent
  <2>5. CASE ~(pc = "top" /\ ~ioFast) /\ pc \notin {"handle", "hooks"}
    BY <2>5 DEF Needed, HandlersCurrent
  <2> QED BY <2>2, <2>3, <2>4, <2>5
<1> QED BY <1>1, RegistersInvariant, PTL
=============================================================================
