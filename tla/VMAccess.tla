------------------------------ MODULE VMAccess ------------------------------
(***************************************************************************)
(* What a single-threaded scripting engine needs: the script frame and the *)
(* callbacks (guests) are inside the VM one at a time.  A guest enters     *)
(* while the script is suspended and the VM is empty; the script resumes   *)
(* when no guest is left.                                                  *)
(***************************************************************************)
CONSTANTS Callers, Free

VARIABLES
  suspended,  \* the script frame is suspended in a host call
  guest       \* the callback inside the VM, or Free

vars == <<suspended, guest>>

Init == suspended = FALSE /\ guest = Free

Suspend == ~suspended /\ suspended' = TRUE /\ UNCHANGED guest

Resume == suspended /\ guest = Free /\ suspended' = FALSE /\ UNCHANGED guest

Enter(c) == suspended /\ guest = Free /\ guest' = c /\ UNCHANGED suspended

Leave == guest # Free /\ guest' = Free /\ UNCHANGED suspended

Next == Suspend \/ Resume \/ Leave \/ \E c \in Callers : Enter(c)

Spec == Init /\ [][Next]_vars
=============================================================================
