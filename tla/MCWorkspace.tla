---------------------------- MODULE MCWorkspace ----------------------------
(* Instances of Workspace for TLC: chunks of 8 bytes stand for 64 KiB. *)
EXTENDS Workspace

\* All fit a standard chunk.
MCSmall == {<<1, 1>>, <<2, 2>>, <<3, 4>>, <<4, 1>>}

\* The last needs a chunk of its own.
MCLarge == MCSmall \cup {<<9, 1>>}
=============================================================================
