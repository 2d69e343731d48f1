----------------------------- MODULE VdmLaunch ------------------------------
(***************************************************************************)
(* What launching 16-bit programs promises.  A VDM is known by its place:  *)
(* a console, the one shared Windows VDM, or a number of its own.  At a    *)
(* place at most one launch is under way.  It ends with a VDM that serves  *)
(* the place, or it fails and the place is free again; it does not end     *)
(* before one of the two is settled.  VdmCreate implements this.           *)
(***************************************************************************)
CONSTANTS
  Creators,   \* threads that launch programs
  Places,     \* where a VDM can be
  NoPlace

VARIABLES
  stage,      \* place -> "free", "starting", "serving"
  launching,  \* creator -> the place it is starting a VDM at, or NoPlace
  outcome     \* creator -> "idle", "working", "ok", "failed"

vars == <<stage, launching, outcome>>

Init ==
  /\ stage = [k \in Places |-> "free"]
  /\ launching = [c \in Creators |-> NoPlace]
  /\ outcome = [c \in Creators |-> "idle"]

Call(c) ==
  /\ outcome[c] # "working"
  /\ outcome' = [outcome EXCEPT ![c] = "working"]
  /\ UNCHANGED <<stage, launching>>

Begin(c, k) ==
  /\ outcome[c] = "working" /\ launching[c] = NoPlace
  /\ stage[k] = "free"
  /\ stage' = [stage EXCEPT ![k] = "starting"]
  /\ launching' = [launching EXCEPT ![c] = k]
  /\ UNCHANGED outcome

\* The VDM runs: the launch has succeeded.
Serve(c) ==
  /\ launching[c] # NoPlace /\ stage[launching[c]] = "starting"
  /\ outcome' = [outcome EXCEPT ![c] = "ok"]
  /\ stage' = [stage EXCEPT ![launching[c]] = "serving"]
  /\ launching' = [launching EXCEPT ![c] = NoPlace]

\* The launch is taken back.
Abandon(c) ==
  /\ launching[c] # NoPlace /\ stage[launching[c]] = "starting"
  /\ outcome' = [outcome EXCEPT ![c] = "failed"]
  /\ stage' = [stage EXCEPT ![launching[c]] = "free"]
  /\ launching' = [launching EXCEPT ![c] = NoPlace]

\* No VDM had to be started: the program is none of DOS, the place is
\* served, or it cannot be had now.
Settle(c, o) ==
  /\ outcome[c] = "working" /\ launching[c] = NoPlace
  /\ outcome' = [outcome EXCEPT ![c] = o]
  /\ UNCHANGED <<stage, launching>>

Leave(k) ==
  /\ stage[k] = "serving"
  /\ stage' = [stage EXCEPT ![k] = "free"]
  /\ UNCHANGED <<launching, outcome>>

Next ==
  \/ \E c \in Creators :
       \/ Call(c) \/ Serve(c) \/ Abandon(c)
       \/ \E k \in Places : Begin(c, k)
       \/ \E o \in {"ok", "failed"} : Settle(c, o)
  \/ \E k \in Places : Leave(k)

Spec == Init /\ [][Next]_vars
=============================================================================
