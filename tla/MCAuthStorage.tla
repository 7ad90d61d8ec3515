--------------------------- MODULE MCAuthStorage ---------------------------
(* An instance of AuthStorage for TLC: one process makes two calls. *)
EXTENDS AuthStorage, TLC

CONSTANTS p1, p2, c1, c2, c3, a, b

OwnerOf == (c1 :> p1) @@ (c2 :> p2) @@ (c3 :> p1)
ProviderOf == (c1 :> a) @@ (c2 :> a) @@ (c3 :> b)
=============================================================================
