----------------------------- MODULE LfnSearch ------------------------------
(***************************************************************************)
(* What the long file name services promise about searches.  A program     *)
(* opens a search, gets a handle for it, and until it closes the search or *)
(* ends, that handle stands for that search, for this program and no       *)
(* other.  A program's searches end with it.  LfnHandles implements this   *)
(* with a table whose unused entries are chained through their own memory. *)
(***************************************************************************)
EXTENDS Integers

CONSTANTS
  Pdbs,     \* segments of DOS programs' PDBs
  Shell,    \* the PDB of the first program, which does not end
  Finds,    \* Win32 find handles
  Handles   \* the numbers a program can pass as a search handle

VARIABLES
  searches, \* handle -> [pdb, find]: the open searches
  alive,    \* PDBs of the running programs
  current,  \* PDB of the program that calls
  reply     \* what the last call told it: [status, value]

vars == <<searches, alive, current, reply>>

Mine(h) == h \in DOMAIN searches /\ searches[h].pdb = current

Init ==
  /\ searches = [h \in {} |-> h]
  /\ alive = {Shell}
  /\ current = Shell
  /\ reply = [status |-> "none", value |-> 0]

\* A search starts under a handle that stood for none.
Open(h, f) ==
  /\ h \in Handles \ DOMAIN searches
  /\ \A g \in DOMAIN searches : searches[g].find # f
  /\ searches' = [g \in DOMAIN searches \cup {h} |->
                    IF g = h THEN [pdb |-> current, find |-> f] ELSE searches[g]]
  /\ reply' = [status |-> "opened", value |-> h]
  /\ UNCHANGED <<alive, current>>

\* The search for a volume label: no search starts, and the handle that is
\* told is any.
Label(h) ==
  /\ reply' = [status |-> "label", value |-> h]
  /\ UNCHANGED <<searches, alive, current>>

\* The call is refused, or fails.
Refuse ==
  /\ reply' = [status |-> "error", value |-> 0]
  /\ UNCHANGED <<searches, alive, current>>

Continue(h) ==
  /\ Mine(h)
  /\ reply' = [status |-> "next", value |-> searches[h].find]
  /\ UNCHANGED <<searches, alive, current>>

Remove(h) ==
  /\ Mine(h)
  /\ searches' = [g \in DOMAIN searches \ {h} |-> searches[g]]

Close(h) ==
  /\ Remove(h)
  /\ reply' = [status |-> "closed", value |-> h]
  /\ UNCHANGED <<alive, current>>

\* One of the searches of a program that ends is closed.
Drop(h) == Remove(h) /\ UNCHANGED <<alive, current, reply>>

Start(p) ==
  /\ p \in Pdbs \ alive
  /\ alive' = alive \cup {p}
  /\ current' = p
  /\ UNCHANGED <<searches, reply>>

\* A program is gone, and nothing of it is left that a program with the same
\* PDB could take for its own.
End(p) ==
  /\ current # Shell
  /\ \A h \in DOMAIN searches : searches[h].pdb # current
  /\ p \in alive \ {current}
  /\ alive' = alive \ {current}
  /\ current' = p
  /\ UNCHANGED <<searches, reply>>

Switch(p) ==
  /\ p \in alive
  /\ current' = p
  /\ UNCHANGED <<searches, alive, reply>>

Next ==
  \/ Refuse
  \/ \E h \in Handles :
       \/ \E f \in Finds : Open(h, f)
       \/ Label(h)
       \/ Continue(h)
       \/ Close(h)
       \/ Drop(h)
  \/ \E p \in Pdbs : Start(p) \/ End(p) \/ Switch(p)

Spec == Init /\ [][Next]_vars
=============================================================================
