------------------------------ MODULE MCFileTools ------------------------------
(***************************************************************************)
(* The file tools, explored in one run: the queue of file mutations, on    *)
(* two files and a link to the first, and a patch, on the same and a file  *)
(* that does not exist.  The queue gives a patch its files, and they share *)
(* no other state: a behaviour is one of the two.                          *)
(***************************************************************************)
EXTENDS FileTools, TLC

CONSTANTS a, b, l, new

VARIABLE component  \* which one this behaviour is of

MCPointsTo == l :> a

-----------------------------------------------------------------------------
(* Patches: hunks that fit once, twice, not at all or only after each other; a path *)
(* and a link to it; an operation of each type first and last.                      *)

Hunk(from, to) == [old |-> from, new |-> to]
Update(p, hunks) == [type |-> "update", path |-> p, lines |-> <<>>, hunks |-> hunks]
Add(p) == [type |-> "add", path |-> p, lines |-> <<"z">>, hunks |-> <<>>]
Delete(p) == [type |-> "delete", path |-> p, lines |-> <<>>, hunks |-> <<>>]

Shrink == <<Hunk(<<"x", "y">>, <<"y">>), Hunk(<<"x">>, <<"z", "x">>)>>
Grow == <<Hunk(<<"x">>, <<"x", "y">>), Hunk(<<"y">>, <<"z">>)>>
Cut == <<Hunk(<<"x", "y">>, <<>>), Hunk(<<"y">>, <<"z">>)>>

MCPatches ==
  { <<Update(a, Shrink), Add(new), Delete(b)>>, <<Add(new), Delete(l), Update(a, Cut)>>,
    <<Update(l, Cut), Delete(b)>>, <<Update(a, Shrink), Update(l, Shrink)>>, <<Delete(l), Add(new)>>,
    <<Update(a, Grow)>> }

Text(lines) == [kind |-> "file", lines |-> lines]
Nothing == [kind |-> "missing"]
MCDirectories ==
  { a :> Text(lines) @@ b :> Text(<<"y">>) @@ l :> [kind |-> "link", to |-> a] @@ new :> Nothing :
      lines \in { <<"x", "y">>, <<"y", "x">>, <<"x", "y", "x">>, <<"x", "y", "y", "x">>, <<"x", "y", "y">>,
                  <<"y", "x", "y", "x", "y">> } }

MCOutside == {Nothing, Text(<<"y">>)}

-----------------------------------------------------------------------------
MCInit ==
  /\ component \in {"queue", "patch"} /\ Init /\ Patch!Init
  \* What is not explored starts in one state.
  /\ component = "queue" => /\ patch = CHOOSE p \in MCPatches : TRUE
                           /\ entry = CHOOSE d \in MCDirectories : TRUE

MCNext ==
  /\ \/ component = "queue" /\ Next /\ UNCHANGED patchVars
     \/ component = "patch" /\ Patch!Next /\ UNCHANGED vars
  /\ UNCHANGED component

\* With the fairness of the queue: promises settle, mutations return.
MCSpec ==
  /\ MCInit /\ [][MCNext]_<<component, vars, patchVars>>
  /\ \A o \in Op : WF_vars(GoesOn(o))
=============================================================================
