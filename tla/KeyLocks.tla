------------------------------ MODULE KeyLocks ------------------------------
(***************************************************************************)
(* What the file mutation queue promises: a mutation holds all its keys    *)
(* while it runs, nobody else holds any of them, and mutations that need a *)
(* common key run in the order in which they were registered.  A mutation  *)
(* waits for nobody it shares no key with.                                 *)
(***************************************************************************)
EXTENDS Integers

CONSTANTS Op, Key

VARIABLES issued,   \* tickets issued so far
          ticket,   \* ticket[o]: the ticket o waits or runs with, 0 if none
          need,     \* need[o]: the keys o needs
          inside    \* the operations that run

vars == <<issued, ticket, need, inside>>

Conflicts(o, p) == need[o] \cap need[p] # {}

Arrive(o, ks) ==
  /\ ticket[o] = 0 /\ need[o] = {}
  /\ issued' = issued + 1
  /\ ticket' = [ticket EXCEPT ![o] = issued + 1]
  /\ need' = [need EXCEPT ![o] = ks]
  /\ UNCHANGED inside

\* o is the first, of those that need one of its keys, to have arrived.
Enter(o) ==
  /\ ticket[o] # 0 /\ o \notin inside
  /\ \A p \in Op : ticket[p] # 0 /\ ticket[p] < ticket[o] => ~Conflicts(o, p)
  /\ inside' = inside \cup {o}
  /\ UNCHANGED <<issued, ticket, need>>

Leave(o) ==
  /\ o \in inside
  /\ inside' = inside \ {o}
  /\ ticket' = [ticket EXCEPT ![o] = 0]
  /\ UNCHANGED <<issued, need>>

Init ==
  /\ issued = 0 /\ ticket = [o \in Op |-> 0]
  /\ need = [o \in Op |-> {}] /\ inside = {}

Next ==
  \E o \in Op : (\E ks \in (SUBSET Key) \ {{}} : Arrive(o, ks)) \/ Enter(o) \/ Leave(o)

Spec == Init /\ [][Next]_vars
=============================================================================
