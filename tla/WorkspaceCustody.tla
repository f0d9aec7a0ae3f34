-------------------------- MODULE WorkspaceCustody --------------------------
(***************************************************************************)
(* What the idle shutdown promises about a conversation's project files,   *)
(* without agents, queues, locks or Kubernetes: files are edited on a      *)
(* volume, the object store is given copies of the volume, and the volume  *)
(* may be destroyed only when the last copy holds all of it.               *)
(*                                                                         *)
(* Module Lifecycle implements it (see CustodyKept there).                 *)
(***************************************************************************)
CONSTANT Edits       \* the edits that prompts make

VARIABLES workspace, \* edits on the volume
          latest     \* edits in the copy that counts as the backup

vars == <<workspace, latest>>

TypeOK == workspace \subseteq Edits /\ latest \subseteq Edits

Init == workspace = {} /\ latest = {}

Edit ==
  /\ \E e \in Edits : workspace' = workspace \union {e}
  /\ UNCHANGED latest

Save ==
  /\ latest' = workspace
  /\ UNCHANGED workspace

Destroy ==
  /\ workspace \subseteq latest
  /\ workspace' = {}
  /\ UNCHANGED latest

Next == Edit \/ Save \/ Destroy

Spec == Init /\ [][Next]_vars

=============================================================================
