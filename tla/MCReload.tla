----------------------------- MODULE MCReload -----------------------------
(* Two components: a chain of two rows and a row of its own. *)
EXTENDS Reload

MCOwner == <<"plant", "plant", "nav">>
=============================================================================
