----------------------------- MODULE MCBladeExec -----------------------------
(* Model values for checking BladeExec with TLC: the installation of a java  *)
(* agent, a create, and a command that ends one of them.                     *)
EXTENDS BladeExec, TLC

CONSTANTS jvm, other, ends

MCCreateCmd == {jvm, other}
MCEndCmd == {ends}

MCKinds ==
    {(jvm :> "prepareJvm") @@ (other :> o) @@ (ends :> e) :
        o \in {"create", "createAsync"}, e \in EndKind}
=============================================================================
