-------------------------- MODULE MCSettingsStore ---------------------------
(***************************************************************************)
(* An instance of SettingsStore for TLC: two guests on two nodes, and      *)
(* requests that set everything, or leave fields blank.                    *)
(***************************************************************************)
EXTENDS SettingsStore, TLC

CONSTANTS u1, u2, g1, g2, na, nb, access, other, none, empty, torn, down

mc_Home == (g1 :> [node |-> na, kind |-> "lxc"]) @@ (g2 :> [node |-> nb, kind |-> "qemu"])

\* A set-up without a node; a change of the guest; a node and other credentials.
mc_Patches ==
  { [guest |-> g1, node |-> none, kind |-> "lxc", access |-> access],
    [guest |-> g2, node |-> none, kind |-> "lxc", access |-> none],
    [guest |-> none, node |-> nb, kind |-> "lxc", access |-> other] }
=============================================================================
