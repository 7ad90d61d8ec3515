------------------------- MODULE MCSessionManager -------------------------
(* Instances of SessionManager, by way of SessionFile, for TLC. *)
EXTENDS SessionFile, TLC

\* The paths of session files are interchangeable.
FileSymmetry == Permutations(Files)

Scenario(old, K, keep, e, f, m, steady) ==
  [legacy |-> old, kinds |-> K, keepRecent |-> keep, entries |-> e, faults |-> f, moves |-> m,
   steady |-> steady]

Talk == {"user", "assistant", "toolResult", "settings"}

\* A failing disk, an old file and a short conversation; longer ones on a disk that does not
\* fail, one that is compacted twice, and one in which the tree is moved in meanwhile.
FaultsAndCompactions ==
  {Scenario(<<"user", "assistant">>,
            {"user", "assistant", "toolResult", "label", "unlabel"}, 1, 4, 1, 3, FALSE),
   Scenario(<<>>, Talk, 2, 6, 0, 2, TRUE),
   Scenario(<<>>, Talk \ {"toolResult"}, 1, 5, 0, 3, FALSE)}

LabelledConversation == {Scenario(<<>>, {"user", "assistant", "label"}, 1, 6, 0, 2, FALSE)}

MCSpec == Store!Spec
===========================================================================
