----------------------------- MODULE MCChatTurn -----------------------------
(* A text t and an image i in ann's private chat, and ann's mention g in a  *)
(* group; d is a group mention by dev, who is in debug mode.                *)
EXTENDS ChatTurn, TLC
CONSTANTS ann, dev, t, i, g, d
MCOwner == (t :> ann) @@ (i :> ann) @@ (g :> ann)
MCKind == (t :> "text") @@ (i :> "image") @@ (g :> "group")
MCActor == (t :> "private") @@ (i :> "private") @@ (g :> "group")
MCOwnerD == (t :> ann) @@ (i :> ann) @@ (d :> dev)
MCKindD == (t :> "text") @@ (i :> "image") @@ (d :> "group")
MCActorD == (t :> "private") @@ (i :> "private") @@ (d :> "group")
=============================================================================
